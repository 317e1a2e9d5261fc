---------------------------- MODULE VirtualGroup ----------------------------
(***************************************************************************)
(* The avatars of the virtual groups (VirtualGroup of                      *)
(* model/virtualnetwork.cpp), on top of the patch and of the elements that *)
(* module Patch describes.  An avatar is a virtual remote inside a group;  *)
(* its remoteID is the place, in the list of the group's slaves, of the    *)
(* real remote whose events it gets.                                       *)
(*                                                                         *)
(* The code has two ways to an avatar: _virtualRemotes, along which the    *)
(* events go, and the list of the child nodes, in which a client's command *)
(* finds the first node with the name.  When a group is loaded, the value  *)
(* avatarsNbr is set after the avatars were created and before the node    *)
(* has all its keys, and the last two avatars are created again.           *)
(***************************************************************************)
EXTENDS Patch, Integers, FiniteSetsExt

CONSTANTS
  MaxAvatars,   \* bound of this model: the largest avatarsNbr a client sets
  NoRemote      \* the remoteID of a new avatar (-1): no slave has this place

ASSUME AvatarsAssumption == MaxAvatars \in Nat

(* The places in the list of the slaves. *)
Places == 0..(Cardinality(Remotes) - 1)

ASSUME NoRemoteAssumption == NoRemote \notin Places /\ None \notin Places \cup {NoRemote}

VARIABLES
  avatars,   \* _virtualRemotes: the remoteID of every avatar, None for a null pointer
  shadows,   \* the remoteID of an older child node of the same name, if there is one
  entries,   \* the remoteID of every avatar in the JSON of the group, None where it has no key
  nbr,       \* avatarsNbr in the JSON of the group
  doubled    \* history: a load has created avatars of this group twice

groupVars == <<patchVars, avatars, shadows, entries, nbr, doubled>>
avatarVars == <<avatars, shadows, entries, nbr, doubled>>

Names == 1..MaxAvatars

NoNodes == [n \in Names |-> None]

GroupInit ==
  /\ PatchInit
  /\ avatars = [v \in Virtuals |-> <<>>]
  /\ shadows = [v \in Virtuals |-> NoNodes]
  /\ entries = [v \in Virtuals |-> NoNodes]
  /\ nbr = [v \in Virtuals |-> 0]
  /\ doubled = [v \in Virtuals |-> FALSE]

-----------------------------------------------------------------------------
(* The keys of a group's JSON besides its avatars: slavesNbr, avatarsNbr, GlobalRemote. *)
FixedKeys == 3

(* Mutant: a new avatar gets the place of its own number. *)
MutCreateAvatars(g, names) ==
  [g EXCEPT !.list = [n \in 1..Max(names \cup {Len(@)}) |-> IF n \in names THEN n ELSE g.list[n]]]

(* VirtualGroup::createSubNode of the avatars in names: the list is padded with
   null pointers, and a node that already has the name stays the first child. *)
CreateAvatars(g, names) ==
  LET size == Max(names \cup {Len(g.list)})
  IN [list   |-> [n \in 1..size |-> IF n \in names THEN NoRemote
                                    ELSE IF n <= Len(g.list) THEN g.list[n] ELSE None],
      shadow |-> [n \in Names |-> IF n \in names /\ n <= Len(g.list) /\ g.shadow[n] = None
                                  THEN g.list[n] ELSE g.shadow[n]],
      alive  |-> g.alive]

(* The removals of VirtualGroup::setVirtualRemotesNbr, which do not survive a
   list that is too short or a null pointer. *)
DropAvatars(g, count) ==
  [g EXCEPT !.list = SubSeq(@, 1, Len(@) - count),
            !.alive = @ /\ Len(g.list) >= count
                        /\ \A n \in (Len(g.list) - count + 1)..Len(g.list) :
                             n > 0 => g.list[n] # None]

(* Mutant: the keys that are not avatars are forgotten. *)
MutSetVirtualRemotesNbr(g, count, n) ==
  IF n > count THEN CreateAvatars(g, (count + 1)..n) ELSE DropAvatars(g, count - n)

(* VirtualGroup::setVirtualRemotesNbr, for a group whose JSON has count keys. *)
SetVirtualRemotesNbr(g, count, n) ==
  LET delta == n - count + FixedKeys
  IN IF count < FixedKeys THEN g
     ELSE IF delta >= 0 THEN CreateAvatars(g, (n - delta + 1)..n) ELSE DropAvatars(g, 0 - delta)

Keys(v) == {n \in Names : entries[v][n] # None}

Group(v) == [list |-> avatars[v], shadow |-> shadows[v], alive |-> TRUE]

(* The daemon is killed by a signal and started again; see Patch's Crash. *)
Dies ==
  /\ remoteToVirtual' = [r \in Remotes |-> <<>>]
  /\ virtualToRemote' = [v \in Virtuals |-> <<>>]
  /\ call' = Handling("loading", None, None, KeyOrder)
  /\ mutex' = FALSE
  /\ UNCHANGED <<jsonData, kind, slaves, avatarVars>>

(* VirtualGroup::setValue of avatarsNbr. *)
SetAvatarsNbr(v, n) ==
  /\ call = Idle
  /\ kind[v] = "group"
  /\ LET g == SetVirtualRemotesNbr(Group(v), FixedKeys + Cardinality(Keys(v)), n)
     IN IF ~ g.alive THEN Dies
        ELSE /\ avatars' = [avatars EXCEPT ![v] = g.list]
             /\ shadows' = [shadows EXCEPT ![v] = g.shadow]
             /\ entries' = [entries EXCEPT ![v] = [i \in Names |->
                  IF i \in (Len(g.list) + 1)..Len(avatars[v]) THEN None
                  ELSE IF i \in (Len(avatars[v]) + 1)..Len(g.list) /\ g.list[i] # None THEN g.list[i]
                  ELSE @[i]]]
             /\ nbr' = [nbr EXCEPT ![v] = n]
             /\ UNCHANGED <<patchVars, doubled>>

(* The remoteID a client reads: JSonNode::nodeAt finds the oldest child. *)
NodeAt(v, n) ==
  IF shadows[v][n] # None THEN shadows[v][n]
  ELSE IF n <= Len(avatars[v]) THEN avatars[v][n] ELSE None

(* VirtualRemote::setValue of remoteID: the node that is found enters its values
   in the JSON of the group. *)
SetRemoteID(v, n, id) ==
  /\ call = Idle
  /\ kind[v] = "group"
  /\ NodeAt(v, n) # None
  /\ IF shadows[v][n] # None
     THEN shadows' = [shadows EXCEPT ![v][n] = id] /\ UNCHANGED avatars
     ELSE avatars' = [avatars EXCEPT ![v][n] = id] /\ UNCHANGED shadows
  /\ entries' = [entries EXCEPT ![v][n] = id]
  /\ UNCHANGED <<patchVars, nbr, doubled>>

(* VirtualGroup::fastTrigger: the avatars an event of the remote r goes to. *)
Reached(v, r) ==
  {n \in 1..Len(avatars[v]) : \E i \in 1..Len(slaves[v]) :
     slaves[v][i] = r /\ avatars[v][n] = i - 1}

-----------------------------------------------------------------------------
(* The handlers of the patch and of the virtual network.  The group that is
   told of a link goes through its avatars (updateFromPatch). *)

Sound(v) == \A n \in 1..Len(avatars[v]) : avatars[v][n] # None

(* An avatar whose buttons changed enters all its values in the JSON; which ones
   did is a matter of the remotes. *)
Written(json, list) ==
  {[n \in Names |-> IF n \in changed THEN list[n] ELSE json[n]] : changed \in SUBSET (1..Len(list))}

GroupNotify ==
  /\ call.at \in {"connecting", "disconnecting"}
  /\ LET v == call.v
     IN \/ /\ kind[v] # "group"
           /\ ConnectNotify \/ DisconnectNotify
           /\ UNCHANGED avatarVars
        \/ /\ kind[v] = "group" /\ Sound(v)
           /\ ConnectNotify \/ DisconnectNotify
           /\ \E json \in Written(entries[v], avatars[v]) : entries' = [entries EXCEPT ![v] = json]
           /\ UNCHANGED <<avatars, shadows, nbr, doubled>>
        \/ /\ kind[v] = "group" /\ ~ Sound(v)
           /\ Dies

GroupLink(r, v) ==
  /\ Connect(r, v) \/ Disconnect(r, v)
  /\ UNCHANGED avatarVars

NewElement(v) ==
  /\ AddRemote(v) \/ AddGroup(v)
  /\ UNCHANGED avatarVars

OldElement(v) ==
  /\ RemoveElement(v)
  /\ avatars' = [avatars EXCEPT ![v] = <<>>]
  /\ shadows' = [shadows EXCEPT ![v] = NoNodes]
  /\ entries' = [entries EXCEPT ![v] = NoNodes]
  /\ nbr' = [nbr EXCEPT ![v] = 0]
  /\ doubled' = [doubled EXCEPT ![v] = FALSE]

-----------------------------------------------------------------------------
(* A crash and the load that follows. *)

GroupCrash == Crash /\ UNCHANGED avatarVars

LoadPatch == ParseArray /\ UNCHANGED avatarVars

(* The avatars of the saved keys, in the order of the keys. *)
FromKeys(v) ==
  [list   |-> [n \in 1..Max(Keys(v) \cup {0}) |-> entries[v][n]],
   shadow |-> NoNodes,
   alive  |-> TRUE]

(* Mutant: the places of the avatars are not read. *)
MutLoaded(v) ==
  [FromKeys(v) EXCEPT !.list = [n \in 1..Len(@) |-> IF @[n] = None THEN None ELSE NoRemote]]

(* JSonNode::populateNode of a group: GlobalRemote and the avatars are its keys
   when avatarsNbr is set; slavesNbr comes after it.  The JSON is the file's
   again at the end. *)
Loaded(v) == SetVirtualRemotesNbr(FromKeys(v), 1 + Cardinality(Keys(v)), nbr[v])

(* VirtualNetwork::createSubNode of every saved group.  A null pointer in the
   list of a group kills the daemon in the updateFromPatch that follows. *)
LoadGroups ==
  /\ call.at = "loading"
  /\ call.todo = <<>>
  /\ LET g == [v \in Virtuals |-> Loaded(v)]
     IN IF \A v \in Virtuals : g[v].alive /\ \A n \in 1..Len(g[v].list) : g[v].list[n] # None
        THEN /\ LoadVirtualNet
             /\ avatars' = [v \in Virtuals |-> g[v].list]
             /\ shadows' = [v \in Virtuals |-> g[v].shadow]
             /\ doubled' = [v \in Virtuals |-> doubled[v] \/ g[v].shadow # NoNodes]
             /\ \E json \in [Virtuals -> [Names -> Places \cup {NoRemote, None}]] :
                  /\ \A v \in Virtuals : json[v] \in Written(entries[v], g[v].list)
                  /\ entries' = json
             /\ UNCHANGED nbr
        ELSE Dies

-----------------------------------------------------------------------------

GroupNext ==
  \/ \E v \in Virtuals, n \in 0..MaxAvatars : SetAvatarsNbr(v, n)
  \/ \E v \in Virtuals, n \in Names, id \in Places : SetRemoteID(v, n, id)
  \/ \E r \in Remotes, v \in Virtuals : GroupLink(r, v)
  \/ GroupNotify
  \/ \E v \in Virtuals : NewElement(v) \/ OldElement(v)
  \/ GroupCrash
  \/ LoadPatch
  \/ LoadGroups

GroupSpec == GroupInit /\ [][GroupNext]_groupVars

-----------------------------------------------------------------------------
(* Properties *)

(* Every avatar of a group has a place or none, and no entry of the JSON is
   outside the names a client can have created. *)
GroupTypeOK ==
  \A v \in Virtuals :
    /\ avatars[v] \in Seq(Places \cup {NoRemote, None})
    /\ Len(avatars[v]) <= MaxAvatars
    /\ shadows[v] \in [Names -> Places \cup {NoRemote, None}]
    /\ entries[v] \in [Names -> Places \cup {NoRemote, None}]
    /\ nbr[v] \in 0..MaxAvatars

(* While no load has created avatars twice, a group has as many avatars as its
   avatarsNbr says, all of them saved, and an event of a slave goes to the
   avatars for which a client reads the place of this slave. *)
AvatarsAsConfigured ==
  call = Idle =>
    \A v \in Virtuals : kind[v] = "group" /\ ~ doubled[v] =>
      /\ Len(avatars[v]) = nbr[v]
      /\ \A n \in Names : entries[v][n] = NodeAt(v, n)
      /\ \A i \in 1..Len(slaves[v]) :
           Reached(v, slaves[v][i]) = {n \in Names : NodeAt(v, n) = i - 1}

(* A restart keeps the remote of every avatar of such a group but the last two
   of several (an only avatar is kept). *)
RestartKeepsAvatars ==
  [][\A v \in Virtuals :
       call.at = "loading" /\ call'.at = "idle" /\ ~ doubled[v] =>
         /\ Len(avatars'[v]) = Len(avatars[v])
         /\ \A n \in 1..Len(avatars[v]) :
              n <= Len(avatars[v]) - 2 \/ Len(avatars[v]) = 1 => avatars'[v][n] = avatars[v][n]]_groupVars

=============================================================================
