------------------------------ MODULE FlowTable ------------------------------
(***************************************************************************)
(* The connections between the devices of a site, as its probes report     *)
(* them.  For each connection of a push the handler looks for the row, and *)
(* then adds one to it or inserts it.  The pushes of several probes, or of *)
(* one that gave up waiting and pushes again, overlap, and administrators  *)
(* clear the table or a subnet's part of it.                               *)
(*                                                                         *)
(* A flow stands for addresses, port and protocol, which no index of the   *)
(* table makes unique.  The probe lists a flow once in a push.             *)
(***************************************************************************)
EXTENDS Integers

CONSTANTS
    Flows,
    Handlers,      \* slots of pushes under way
    MaxReports,    \* bound: pushes with flows
    MaxRows,       \* bound: rows ever inserted
    MaxClears      \* bound: clearings of the table

ASSUME FlowsAssumption == "none" \notin Flows
ASSUME RowsAssumption == MaxReports \in Nat /\ MaxRows \in Nat /\ MaxClears \in Nat

VARIABLES
    flowRows,      \* the table: the flow and the connection_count of each id
    lastId,        \* of the table's sequence
    handlers,
    reports,       \* pushes so far
    clears,
    counted,       \* history: how often each flow was written
    forgotten      \* history: ... and then cleared

flowVars == <<flowRows, lastId, handlers, reports, clears, counted, forgotten>>

-----------------------------------------------------------------------------

Ids == 1 .. MaxRows
NoRow == [flow |-> "none", count |-> 0]
TableRows == {NoRow} \cup [flow : Flows, count : Nat]
HandlerStates == [pc : {"idle", "look", "write"}, todo : SUBSET Flows,
                  flow : Flows \cup {"none"}, id : {0} \cup Ids, count : Nat]
IdleHandler == [pc |-> "idle", todo |-> {}, flow |-> "none", id |-> 0, count |-> 0]

FlowTypeOK ==
    /\ flowRows \in [Ids -> TableRows] /\ lastId \in 0 .. MaxRows
    /\ handlers \in [Handlers -> HandlerStates]
    /\ reports \in 0 .. MaxReports /\ clears \in 0 .. MaxClears
    /\ counted \in [Flows -> Nat] /\ forgotten \in [Flows -> Nat]

FlowInit ==
    /\ flowRows = [i \in Ids |-> NoRow] /\ lastId = 0
    /\ handlers = [h \in Handlers |-> IdleHandler]
    /\ reports = 0 /\ clears = 0
    /\ counted = [f \in Flows |-> 0] /\ forgotten = [f \in Flows |-> 0]

RowsOf(f) == {i \in Ids : flowRows[i].flow = f}

-----------------------------------------------------------------------------

StartReport(h) ==
    /\ handlers[h].pc = "idle" /\ reports < MaxReports
    /\ reports' = reports + 1
    /\ \E S \in SUBSET Flows \ {{}} :
          handlers' = [handlers EXCEPT ![h] = [IdleHandler EXCEPT !.pc = "look", !.todo = S]]
    /\ UNCHANGED <<flowRows, lastId, clears, counted, forgotten>>

\* Any row of the flow, if there are several.
Look(h) ==
    /\ handlers[h].pc = "look"
    /\ \E f \in handlers[h].todo :
          \/ /\ RowsOf(f) = {}
             /\ handlers' = [handlers EXCEPT ![h].pc = "write", ![h].flow = f]
          \/ \E i \in RowsOf(f) :
                handlers' = [handlers EXCEPT ![h].pc = "write", ![h].flow = f, ![h].id = i,
                                             ![h].count = flowRows[i].count]
    /\ UNCHANGED <<flowRows, lastId, reports, clears, counted, forgotten>>

\* Mutant: one is added to the count that was read.
AddToRead(i, read) == read + 1

\* connection_count + 1, evaluated by the database.
AddOne(i, read) == flowRows[i].count + 1

\* The row that was found may be gone.
WriteFlow(h) ==
    LET f == handlers[h].flow  i == handlers[h].id
        rest == handlers[h].todo \ {f}
    IN /\ handlers[h].pc = "write"
       /\ \/ /\ i # 0 /\ flowRows[i].flow = f
             /\ flowRows' = [flowRows EXCEPT ![i].count = AddOne(i, handlers[h].count)]
             /\ UNCHANGED <<lastId, forgotten>>
          \/ /\ i # 0 /\ flowRows[i] = NoRow
             /\ forgotten' = [forgotten EXCEPT ![f] = @ + 1]
             /\ UNCHANGED <<flowRows, lastId>>
          \/ /\ i = 0 /\ lastId < MaxRows
             /\ lastId' = lastId + 1
             /\ flowRows' = [flowRows EXCEPT ![lastId'] = [flow |-> f, count |-> 1]]
             /\ UNCHANGED forgotten
       /\ counted' = [counted EXCEPT ![f] = @ + 1]
       /\ handlers' = [handlers EXCEPT
                          ![h] = IF rest = {} THEN IdleHandler
                                 ELSE [IdleHandler EXCEPT !.pc = "look", !.todo = rest]]
       /\ UNCHANGED <<reports, clears>>

\* A statement fails: what the push has written stays, the rest is dropped.
ReportFails(h) ==
    /\ handlers[h].pc # "idle"
    /\ handlers' = [handlers EXCEPT ![h] = IdleHandler]
    /\ UNCHANGED <<flowRows, lastId, reports, clears, counted, forgotten>>

\* The rows of some flows go.
Clear(S) ==
    /\ clears < MaxClears
    /\ clears' = clears + 1
    /\ flowRows' = [i \in Ids |-> IF flowRows[i].flow \in S THEN NoRow ELSE flowRows[i]]
    /\ forgotten' = [f \in Flows |-> IF f \in S THEN counted[f] ELSE forgotten[f]]
    /\ UNCHANGED <<lastId, handlers, reports, counted>>

ClearFlows == Clear(Flows)

\* Those with an end in the subnet.
ClearFlowsForSubnet == \E S \in SUBSET Flows : Clear(S)

FlowNext ==
    \/ \E h \in Handlers : StartReport(h) \/ Look(h) \/ WriteFlow(h) \/ ReportFails(h)
    \/ ClearFlows \/ ClearFlowsForSubnet

FlowSpec == FlowInit /\ [][FlowNext]_flowVars

-----------------------------------------------------------------------------
(* Property.                                                               *)

\* connection_count of all rows of a flow.
CountOf(f) == [i \in Ids |-> IF flowRows[i].flow = f THEN flowRows[i].count ELSE 0]
SumOver(count) ==
    LET upTo[n \in 0 .. MaxRows] == IF n = 0 THEN 0 ELSE upTo[n - 1] + count[n]
    IN upTo[MaxRows]
Total(f) == SumOver(CountOf(f))

\* However the reports and the clearings of a flow overlap, and although
\* overlapping pushes leave it several rows, none of its reports is lost or
\* counted twice.  One that comes after its row was cleared goes with the row.
FlowsAddUp == \A f \in Flows : Total(f) + forgotten[f] = counted[f]
=============================================================================
