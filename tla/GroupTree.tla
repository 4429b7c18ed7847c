------------------------------ MODULE GroupTree ------------------------------
(***************************************************************************)
(* The tree of groups, kept twice: as parent_id in monitor_groups and as   *)
(* the closure table group_closure, which has a row (ancestor, descendant, *)
(* depth) for every group above or equal to another.  Settings,            *)
(* notifications and permissions are inherited along the closure; the tree *)
(* itself is drawn from parent_id.                                         *)
(*                                                                         *)
(* groupService works without a transaction: each statement of create and  *)
(* move is a step, other calls run in between, and a call that fails       *)
(* leaves what it did.  Names, order, kind and tenant are left out, and so *)
(* are the statements that the database refuses and that change nothing.   *)
(***************************************************************************)
EXTENDS Integers, FiniteSets

CONSTANTS
    Groups,   \* the ids the table may give to groups
    Calls,    \* slots for calls of create and move that run at the same time
    None,     \* no group: the parent of a group at the root
    MaxDepth  \* bound: the depth of a row that an insert may reach

ASSUME NoneAssumption == None \notin Groups
ASSUME DepthAssumption == MaxDepth \in Nat

VARIABLES
    groups,    \* the ids in monitor_groups
    unused,    \* the ids not given yet; an id is given once
    parent,    \* the column parent_id
    closure,   \* closure[a][d]: the depth of row (a, d) of group_closure
    calls      \* the calls under way

vars == <<groups, unused, parent, closure, calls>>

NoRow == -1
Row(a, d) == closure[a][d] # NoRow

CallStates == [pc : {"idle", "self", "paths", "select", "cut", "link", "set"},
               id : Groups \cup {None},
               target : Groups \cup {None},
               subtree : SUBSET Groups]
IdleCall == [pc |-> "idle", id |-> None, target |-> None, subtree |-> {}]

TypeOK ==
    /\ groups \subseteq Groups
    /\ unused \subseteq Groups \ groups
    /\ parent \in [Groups -> Groups \cup {None}]
    /\ closure \in [Groups -> [Groups -> Nat \cup {NoRow}]]
    /\ calls \in [Calls -> CallStates]

Init ==
    /\ groups = {}
    /\ unused = Groups
    /\ parent = [g \in Groups |-> None]
    /\ closure = [a \in Groups |-> [d \in Groups |-> NoRow]]
    /\ calls = [c \in Calls |-> IdleCall]

-----------------------------------------------------------------------------
(* What the statements do to the closure table.                            *)

\* Mutant: the links inside S are cut as well.
CutAll(S) ==
    [a \in Groups |-> [d \in Groups |->
        IF d \in S /\ a # d THEN NoRow ELSE closure[a][d]]]

\* DELETE the links that enter S from outside.
Cut(S) ==
    [a \in Groups |-> [d \in Groups |->
        IF d \in S /\ a \notin S THEN NoRow ELSE closure[a][d]]]

\* Mutant: the step from the group to its parent is not counted.
LinkedShort(p, g, D) ==
    [a \in Groups |-> [d \in Groups |->
        IF Row(a, p) /\ d \in D THEN closure[a][p] + closure[g][d] ELSE closure[a][d]]]

\* INSERT of the links from p and all above it to the groups D, of which g
\* and what is below it are read from the table, or g alone when it is new.
Linked(p, g, D) ==
    [a \in Groups |-> [d \in Groups |->
        IF Row(a, p) /\ d \in D THEN closure[a][p] + closure[g][d] + 1
                                ELSE closure[a][d]]]

\* ... which the primary key (ancestor_id, descendant_id) refuses as a whole.
Duplicates(p, D) == \E a \in Groups, d \in D : Row(a, p) /\ Row(a, d)

\* The bound of the model (rows that disagree with the tree can get as deep as
\* there are moves).
Bounded(C) == \A a, d \in Groups : C[a][d] <= MaxDepth

Below(g) == {d \in Groups : Row(g, d)}

-----------------------------------------------------------------------------
(* The calls.                                                              *)

Settled == \A c \in Calls : calls[c].pc = "idle"

At(c, pc) == calls[c].pc = pc
Goto(c, pc) == calls' = [calls EXCEPT ![c].pc = pc]
Finish(c) == calls' = [calls EXCEPT ![c] = IdleCall]

\* create: the row of the group.
CreateRow(c, g, p) ==
    /\ At(c, "idle")
    /\ g \in unused
    /\ p \in groups \cup {None}
    /\ groups' = groups \cup {g}
    /\ unused' = unused \ {g}
    /\ parent' = [parent EXCEPT ![g] = p]
    /\ calls' = [calls EXCEPT ![c] = [IdleCall EXCEPT !.pc = "self", !.id = g, !.target = p]]
    /\ UNCHANGED closure

CreateSelf(c) ==
    /\ At(c, "self")
    /\ calls[c].id \in groups
    /\ closure' = [closure EXCEPT ![calls[c].id][calls[c].id] = 0]
    /\ IF calls[c].target = None THEN Finish(c) ELSE Goto(c, "paths")
    /\ UNCHANGED <<groups, unused, parent>>

CreatePaths(c) ==
    /\ At(c, "paths")
    /\ calls[c].id \in groups
    /\ ~Duplicates(calls[c].target, {calls[c].id})
    /\ closure' = Linked(calls[c].target, calls[c].id, {calls[c].id})
    /\ Bounded(closure')
    /\ Finish(c)
    /\ UNCHANGED <<groups, unused, parent>>

\* The group was deleted or moved meanwhile: the database refuses the rows.
CreateFails(c) ==
    /\ \/ At(c, "self") /\ calls[c].id \notin groups
       \/ /\ At(c, "paths")
          /\ \/ calls[c].id \notin groups
             \/ Duplicates(calls[c].target, {calls[c].id})
    /\ Finish(c)
    /\ UNCHANGED <<groups, unused, parent, closure>>

\* Mutant: the new parent may be below the group.
MoveUnchecked(c, g, p) ==
    /\ At(c, "idle")
    /\ g \in groups
    /\ p \in (Groups \ unused) \cup {None}
    /\ calls' = [calls EXCEPT ![c] = [IdleCall EXCEPT !.pc = "select", !.id = g, !.target = p]]
    /\ UNCHANGED <<groups, unused, parent, closure>>

\* move: the group exists, and the new parent, any id a client has seen, is
\* not below it.  (Were the group deleted between these two reads, the call
\* would change nothing.)
MoveCheck(c, g, p) ==
    /\ At(c, "idle")
    /\ g \in groups
    /\ p \in (Groups \ unused) \cup {None}
    /\ p # None => ~Row(g, p)
    /\ calls' = [calls EXCEPT ![c] = [IdleCall EXCEPT !.pc = "select", !.id = g, !.target = p]]
    /\ UNCHANGED <<groups, unused, parent, closure>>

MoveSelect(c) ==
    /\ At(c, "select")
    /\ calls' = [calls EXCEPT ![c].pc = "cut", ![c].subtree = Below(calls[c].id)]
    /\ UNCHANGED <<groups, unused, parent, closure>>

MoveCut(c) ==
    /\ At(c, "cut")
    /\ closure' = Cut(calls[c].subtree)
    /\ Goto(c, IF calls[c].target = None THEN "set" ELSE "link")
    /\ UNCHANGED <<groups, unused, parent>>

MoveLink(c) ==
    /\ At(c, "link")
    /\ ~Duplicates(calls[c].target, Below(calls[c].id))
    /\ closure' = Linked(calls[c].target, calls[c].id, Below(calls[c].id))
    /\ Bounded(closure')
    /\ Goto(c, "set")
    /\ UNCHANGED <<groups, unused, parent>>

\* The call ends with an error, and its links stay cut.
MoveLinkFails(c) ==
    /\ At(c, "link")
    /\ Duplicates(calls[c].target, Below(calls[c].id))
    /\ Finish(c)
    /\ UNCHANGED <<groups, unused, parent, closure>>

\* A group that is gone by now has no row to update.
MoveSet(c) ==
    /\ At(c, "set")
    /\ calls[c].id \in groups => calls[c].target \in groups \cup {None}
    /\ parent' = IF calls[c].id \in groups
                 THEN [parent EXCEPT ![calls[c].id] = calls[c].target]
                 ELSE parent
    /\ Finish(c)
    /\ UNCHANGED <<groups, unused, closure>>

\* The new parent does not exist: the foreign key refuses it, when the closure
\* table has been changed already.
MoveSetFails(c) ==
    /\ At(c, "set")
    /\ calls[c].id \in groups
    /\ calls[c].target \notin groups \cup {None}
    /\ Finish(c)
    /\ UNCHANGED <<groups, unused, parent, closure>>

\* Mutant: the closure table does not follow.
DeleteRowOnly(g) ==
    /\ g \in groups
    /\ groups' = groups \ {g}
    /\ parent' = [k \in Groups |-> IF k = g \/ parent[k] = g THEN None ELSE parent[k]]
    /\ UNCHANGED <<unused, closure, calls>>

\* delete: one statement.  The rows of the closure table that name the group
\* go with it (ON DELETE CASCADE); its children go to the root (SET NULL).
Delete(g) ==
    /\ g \in groups
    /\ groups' = groups \ {g}
    /\ parent' = [k \in Groups |-> IF k = g \/ parent[k] = g THEN None ELSE parent[k]]
    /\ closure' = [a \in Groups |-> [d \in Groups |->
                      IF a = g \/ d = g THEN NoRow ELSE closure[a][d]]]
    /\ UNCHANGED <<unused, calls>>

-----------------------------------------------------------------------------

Continue(c) ==
    \/ CreateSelf(c) \/ CreatePaths(c) \/ CreateFails(c)
    \/ MoveSelect(c) \/ MoveCut(c) \/ MoveLink(c) \/ MoveLinkFails(c)
    \/ MoveSet(c) \/ MoveSetFails(c)

Next ==
    \/ \E c \in Calls, g \in Groups, p \in Groups \cup {None} :
          CreateRow(c, g, p) \/ MoveCheck(c, g, p)
    \/ \E c \in Calls : Continue(c)
    \/ \E g \in Groups : Delete(g)

Spec == Init /\ [][Next]_vars

\* One call at a time, and groups are moved only to groups that exist.
SerialNext ==
    \/ /\ Settled
       /\ \E c \in Calls, g \in Groups, p \in groups \cup {None} :
             CreateRow(c, g, p) \/ MoveCheck(c, g, p)
    \/ \E c \in Calls : Continue(c)
    \/ Settled /\ \E g \in Groups : Delete(g)

SerialSpec == Init /\ [][SerialNext]_vars

\* ... and only groups without children are deleted.
CarefulNext ==
    /\ SerialNext
    /\ \A g \in groups \ groups' : \A k \in groups : parent[k] # g

CarefulSpec == Init /\ [][CarefulNext]_vars

-----------------------------------------------------------------------------
(* Properties.                                                             *)

\* C is the closure of the forest that par draws on the groups G, said of one
\* step up at a time: every group has its own row; the others above it are
\* the parent and those above the parent, one deeper.  With no group above
\* one that is above itself, this has one solution (DepthIsDistance).
Mirrors(G, par, C) ==
    /\ \A a, d \in Groups : C[a][d] # NoRow => a \in G /\ d \in G
    /\ \A g \in G : C[g][g] = 0
    /\ \A d \in G : par[d] \in (G \ {d}) \cup {None}
    /\ \A a, d \in G : a # d =>
          C[a][d] = IF par[d] # None /\ C[a][par[d]] # NoRow
                    THEN C[a][par[d]] + 1
                    ELSE NoRow
    /\ \A a, d \in G : C[a][d] # NoRow /\ C[d][a] # NoRow => a = d

\* Between calls the two tables tell of the same tree: what is inherited
\* follows the tree that is drawn.
ClosureMirrorsParents == Settled => Mirrors(groups, parent, closure)

\* The group n steps above g, or None.
Climb[n \in Nat] ==
    [g \in Groups \cup {None} |->
        IF g = None \/ n = 0 THEN g ELSE Climb[n - 1][parent[g]]]

\* The same, by the definition of depth: a row (a, d) of depth n is there just
\* when n steps up from d lead to a.  (getAncestors, the nearest group with
\* notifications, and the resolution of settings all sort by it.)
DepthIsDistance ==
    Settled =>
        \A a, d \in groups, n \in 0 .. Cardinality(Groups) :
            closure[a][d] = n <=> Climb[n][d] = a

\* A move never fails half-way, with its old links cut and none made.
MoveLinksFit ==
    \A c \in Calls : At(c, "link") => ~Duplicates(calls[c].target, Below(calls[c].id))

\* Whatever calls overlap or fail, both tables name groups that exist, and a
\* group has its own row, of depth 0 (what "depth > 0" leaves out), as soon as
\* its create has inserted it.
NothingDangles ==
    /\ \A g \in groups : parent[g] \in groups \cup {None}
    /\ \A a, d \in Groups : Row(a, d) => a \in groups /\ d \in groups
    /\ \A g \in groups : /\ closure[g][g] \in {0, NoRow}
                         /\ ~Row(g, g) => \E c \in Calls : At(c, "self") /\ calls[c].id = g

\* move, before it starts: "Prevent circular reference: newParentId must not
\* be a descendant of id".
NoCircularReference ==
    \A g \in groups, n \in 1 .. Cardinality(Groups) : Climb[n][g] # g
=============================================================================
