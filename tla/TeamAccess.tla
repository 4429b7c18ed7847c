----------------------------- MODULE TeamAccess -----------------------------
(***************************************************************************)
(* Which groups a user is shown.  Teams are granted groups, a grant holds  *)
(* for everything below, and general groups are everybody's.  The list of  *)
(* a user is put together from five queries, while administrators replace  *)
(* the grants of a team, change its members and move groups.               *)
(*                                                                         *)
(* One user who is no administrator.  Replacing the grants of a team is a  *)
(* transaction of two statements, at the isolation that PostgreSQL has by  *)
(* default.  That the closure table mirrors the tree is in GroupTree.      *)
(***************************************************************************)
EXTENDS Integers, FiniteSets

CONSTANTS
    Groups, Root,    \* Root: the parent of the topmost
    Teams,
    Savers,          \* slots of transactions
    MaxChangesMade   \* bound: what administrators do

ASSUME GroupsAssumption == Root \notin Groups /\ Teams # {} /\ MaxChangesMade \in Nat

VARIABLES
    parentOf,
    general,         \* the groups that are is_general
    memberOf,        \* the user's teams
    granted,         \* team_permissions: pairs of a team and a group
    savers,
    lister,          \* getVisibleGroupIds
    ever, always,    \* history: what was the case some time, or all the time, since it began
    made             \* what administrators did so far

accessVars == <<parentOf, general, memberOf, granted, savers, lister, ever, always, made>>

-----------------------------------------------------------------------------

\* The ancestor so many levels above.
Lift[n \in 0 .. Cardinality(Groups)] ==
    [g \in Groups |-> IF n = 0 THEN g
                      ELSE IF Lift[n - 1][g] = Root THEN Root ELSE parentOf[Lift[n - 1][g]]]
Closure == {ad \in Groups \X Groups : \E n \in 0 .. Cardinality(Groups) : Lift[n][ad[2]] = ad[1]}
Now == [teams |-> memberOf, granted |-> granted, closure |-> Closure, general |-> general]

Facts == [teams : SUBSET Teams, granted : SUBSET (Teams \X Groups),
          closure : SUBSET (Groups \X Groups), general : SUBSET Groups]
SaverStates == [pc : {"idle", "delete", "insert", "commit"}, team : Teams,
                wanted : SUBSET Groups, rows : SUBSET (Teams \X Groups)]
ListerStates == [pc : {"idle", "teams", "granted", "below", "above", "general", "answer"},
                 teams : SUBSET Teams, granted : SUBSET Groups, listed : SUBSET Groups]

AccessTypeOK ==
    /\ parentOf \in [Groups -> Groups \cup {Root}]
    /\ Now \in Facts /\ ever \in Facts /\ always \in Facts
    /\ savers \in [Savers -> SaverStates]
    /\ lister \in ListerStates
    /\ made \in 0 .. MaxChangesMade

IdleLister == [pc |-> "idle", teams |-> {}, granted |-> {}, listed |-> {}]
NoFacts == [teams |-> {}, granted |-> {}, closure |-> {}, general |-> {}]
IdleSaver == [pc |-> "idle", team |-> CHOOSE t \in Teams : TRUE, wanted |-> {}, rows |-> {}]

AccessInit ==
    /\ parentOf \in [Groups -> Groups \cup {Root}]
    /\ \A g \in Groups : \E n \in 0 .. Cardinality(Groups) : Lift[n][g] = Root
    /\ general = {}
    /\ memberOf \in SUBSET Teams
    /\ granted \in {{tg} : tg \in Teams \X Groups}
    /\ savers = [s \in Savers |-> IdleSaver]
    /\ lister = IdleLister /\ ever = NoFacts /\ always = NoFacts
    /\ made = 0

-----------------------------------------------------------------------------
(* Administrators.                                                         *)

Make == made < MaxChangesMade /\ made' = made + 1

\* Grants that a transaction is replacing by themselves have not been given up.
Wanted(s) == {savers[s].team} \X savers[s].wanted
Replaced == UNION {savers[s].rows \cap Wanted(s) :
                      s \in {q \in Savers : savers[q].pc \in {"insert", "commit"}}}

\* To be evaluated after the change.
Remember ==
    IF lister.pc = "idle" THEN UNCHANGED <<ever, always>>
    ELSE /\ ever' = [k \in DOMAIN ever |-> ever[k] \cup Now'[k]]
         /\ always' = [k \in DOMAIN always |->
                always[k] \cap (IF k = "granted" THEN granted' \cup Replaced' ELSE Now'[k])]

\* The first statement of setPermissions looks for the rows of the team ...
SetPermissions(s, t) ==
    /\ Make
    /\ savers[s].pc = "idle"
    /\ \E W \in SUBSET Groups :
          savers' = [savers EXCEPT ![s] = [pc |-> "delete", team |-> t, wanted |-> W,
                                           rows |-> {tg \in granted : tg[1] = t}]]
    /\ UNCHANGED <<parentOf, general, memberOf, granted, lister, ever, always>>

Locked(s) == UNION {savers[o].rows : o \in {q \in Savers \ {s} : savers[q].pc \in {"insert", "commit"}}}

\* Mutant: without a transaction, the rows are gone at once.
DeleteAtOnce(s) ==
    /\ savers[s].pc = "delete"
    /\ savers[s].rows \cap Locked(s) = {}
    /\ savers' = [savers EXCEPT ![s].pc = "insert", ![s].rows = @ \cap granted]
    /\ granted' = granted \ savers[s].rows
    /\ UNCHANGED <<parentOf, general, memberOf, lister, made>>
    /\ Remember

\* ... and waits for those that another transaction is deleting.
DeleteRows(s) ==
    /\ savers[s].pc = "delete"
    /\ savers[s].rows \cap Locked(s) = {}
    /\ savers' = [savers EXCEPT ![s].pc = "insert", ![s].rows = @ \cap granted]
    /\ UNCHANGED <<parentOf, general, memberOf, granted, lister, ever, always, made>>

Inserted(s) == UNION {Wanted(o) : o \in {q \in Savers \ {s} : savers[q].pc = "commit"}}

\* A row of the unique index that another transaction is inserting or deleting
\* is waited for; one that is there rolls this transaction back.
InsertRows(s) ==
    /\ savers[s].pc = "insert"
    /\ Wanted(s) \cap (Inserted(s) \cup Locked(s)) = {}
    /\ savers' = [savers EXCEPT
                     ![s] = IF Wanted(s) \cap (granted \ savers[s].rows) = {}
                            THEN [savers[s] EXCEPT !.pc = "commit"] ELSE IdleSaver]
    /\ UNCHANGED <<parentOf, general, memberOf, granted, lister, ever, always, made>>

Commit(s) ==
    /\ savers[s].pc = "commit"
    /\ granted' = (granted \ savers[s].rows) \cup Wanted(s)
    /\ savers' = [savers EXCEPT ![s] = IdleSaver]
    /\ UNCHANGED <<parentOf, general, memberOf, lister, made>>
    /\ Remember

\* A grant that is there gets another level; one that a transaction is inserting or
\* deleting is waited for.
AddPermission(t, g) ==
    /\ Make
    /\ \A s \in Savers :
          /\ savers[s].pc \in {"insert", "commit"} => <<t, g>> \notin savers[s].rows
          /\ savers[s].pc = "commit" => <<t, g>> \notin Wanted(s)
    /\ granted' = granted \cup {<<t, g>>}
    /\ UNCHANGED <<parentOf, general, memberOf, savers, lister>>
    /\ Remember

RemovePermission(t, g) ==
    /\ Make
    /\ <<t, g>> \in granted
    /\ \A s \in Savers : savers[s].pc \in {"insert", "commit"} => <<t, g>> \notin savers[s].rows
    /\ granted' = granted \ {<<t, g>>}
    /\ UNCHANGED <<parentOf, general, memberOf, savers, lister>>
    /\ Remember

\* Of one user, setMembers adds the row or removes it; it is a transaction, and one
\* that meets another ends with either's rows or an error.
SetMembers(t) ==
    /\ Make
    /\ memberOf' = IF t \in memberOf THEN memberOf \ {t} ELSE memberOf \cup {t}
    /\ UNCHANGED <<parentOf, general, granted, savers, lister>>
    /\ Remember

Move(g, p) ==
    /\ Make
    /\ <<g, p>> \notin Closure
    /\ parentOf' = [parentOf EXCEPT ![g] = p]
    /\ UNCHANGED <<general, memberOf, granted, savers, lister>>
    /\ Remember

SetGeneral(g) ==
    /\ Make
    /\ general' = IF g \in general THEN general \ {g} ELSE general \cup {g}
    /\ UNCHANGED <<parentOf, memberOf, granted, savers, lister>>
    /\ Remember

-----------------------------------------------------------------------------
(* The list.                                                               *)

Lists(next) ==
    /\ lister' = next
    /\ UNCHANGED <<parentOf, general, memberOf, granted, savers, ever, always, made>>

StartList ==
    /\ lister.pc = "idle"
    /\ lister' = [IdleLister EXCEPT !.pc = "teams"]
    /\ ever' = Now /\ always' = Now
    /\ UNCHANGED <<parentOf, general, memberOf, granted, savers, made>>

ReadTeams ==
    /\ lister.pc = "teams"
    /\ Lists([lister EXCEPT !.pc = IF memberOf = {} THEN "general" ELSE "granted",
                            !.teams = memberOf])

ReadGranted ==
    /\ lister.pc = "granted"
    /\ LET found == {g \in Groups : \E t \in lister.teams : <<t, g>> \in granted}
       IN Lists([lister EXCEPT !.pc = IF found = {} THEN "general" ELSE "below",
                               !.granted = found])

\* A group is below itself.
Below(S) == {d \in Groups : \E a \in S : <<a, d>> \in Closure}
Above(S) == {a \in Groups : \E d \in S : <<a, d>> \in Closure}

ReadBelow ==
    /\ lister.pc = "below"
    /\ Lists([lister EXCEPT !.pc = "above", !.listed = Below(lister.granted)])

\* "For tree navigation".
ReadAbove ==
    /\ lister.pc = "above"
    /\ Lists([lister EXCEPT !.pc = "general", !.listed = @ \cup Above(lister.granted)])

ReadGeneral ==
    /\ lister.pc = "general"
    /\ Lists([lister EXCEPT !.pc = "answer", !.listed = @ \cup general])

Answer ==
    /\ lister.pc = "answer"
    /\ lister' = IdleLister
    /\ ever' = NoFacts /\ always' = NoFacts
    /\ UNCHANGED <<parentOf, general, memberOf, granted, savers, made>>

-----------------------------------------------------------------------------

List == StartList \/ ReadTeams \/ ReadGranted \/ ReadBelow \/ ReadAbove \/ ReadGeneral \/ Answer
AccessNext ==
    \/ List
    \/ \E s \in Savers : \/ \E t \in Teams : SetPermissions(s, t)
                         \/ DeleteRows(s) \/ InsertRows(s) \/ Commit(s)
    \/ \E t \in Teams : SetMembers(t) \/ \E g \in Groups : AddPermission(t, g) \/ RemovePermission(t, g)
    \/ \E g \in Groups : SetGeneral(g) \/ \E p \in Groups \cup {Root} : Move(g, p)

AccessSpec == AccessInit /\ [][AccessNext]_accessVars

-----------------------------------------------------------------------------
(* Property.                                                               *)

\* getGroupPermission, asked at a time when all of the facts hold.
Readable(facts) ==
    {g \in Groups : \/ g \in facts.general
                    \/ \E t \in facts.teams, a \in Groups :
                          <<t, a>> \in facts.granted /\ <<a, g>> \in facts.closure}
Passed(facts) ==
    {g \in Groups : \E t \in facts.teams, d \in Groups :
                       <<t, d>> \in facts.granted /\ <<g, d>> \in facts.closure}

\* Although five queries see five states of the tables, the list holds what the
\* user could read all the time, with the way to it; grants that are replaced by
\* themselves count as kept, so that no list misses them.  Whatever else it holds
\* rests on a membership, a grant and a place in the tree that were there some time
\* during the read, but perhaps not at the same time: a group moved below one whose
\* grant was just removed is listed, and was never the user's.
ListIsOfItsTime ==
    lister.pc = "answer" =>
        /\ Readable(always) \cup Passed(always) \subseteq lister.listed
        /\ lister.listed \subseteq Readable(ever) \cup Passed(ever)
=============================================================================
