---------------------------- MODULE TunnelsProofs ----------------------------
(***************************************************************************)
(* Proofs about Tunnels, for any sets of tunnels, users, probes and calls  *)
(* and any limits: the limits, up to the calls that overlap, and the life  *)
(* cycle of a tunnel.                                                      *)
(***************************************************************************)
EXTENDS Tunnels, FiniteSetTheorems, FunctionTheorems, TLAPS

-----------------------------------------------------------------------------
(* Type correctness.                                                       *)

LEMMA TypeInit == Init => TypeOK
  BY BoundsAssumption
  DEF Init, TypeOK, NoRow, IdleCall, IdleJob, Rows, CallStates, JobStates

LEMMA CallTyped ==
    ASSUME TypeOK, NEW c \in Calls
    PROVE  /\ calls[c] \in CallStates
           /\ IdleCall \in CallStates
           /\ Free(c) => calls' \in [Calls -> CallStates]
           /\ \A pc \in {"tenant", "select", "insert", "send", "wait", "unheard",
                         "ready", "failed"} :
                 Goto(c, pc) => calls' \in [Calls -> CallStates]
  <1>1. calls[c] \in CallStates
    BY DEF TypeOK
  <1>2. IdleCall \in CallStates
    BY DEF IdleCall, CallStates
  <1>3. ASSUME NEW pc \in {"tenant", "select", "insert", "send", "wait", "unheard",
                           "ready", "failed"}
        PROVE  [calls[c] EXCEPT !.pc = pc] \in CallStates
    BY <1>1 DEF CallStates
  <1>. QED  BY <1>1, <1>2, <1>3 DEF TypeOK, Free, Goto

LEMMA StatusTyped ==
    ASSUME TypeOK, NEW S, NEW s \in {"active", "error", "closed"}, SetStatus(S, s)
    PROVE  rows' \in [Tunnels -> Rows]
  <1>1. \A t \in Tunnels : [rows[t] EXCEPT !.status = s] \in Rows
    BY DEF TypeOK, Rows
  <1>. QED  BY <1>1 DEF TypeOK, SetStatus

LEMMA TypeStep == TypeOK /\ [Next]_vars => TypeOK'
  <1>. SUFFICES ASSUME TypeOK, [Next]_vars PROVE TypeOK'
    OBVIOUS
  <1>1. ASSUME NEW c \in Calls, NEW u \in Users, CountUser(c, u) PROVE TypeOK'
    <2>1. [IdleCall EXCEPT !.pc = "tenant", !.user = u] \in CallStates
      BY DEF IdleCall, CallStates
    <2>. QED  BY <1>1, <2>1 DEF CountUser, TypeOK
  <1>2. ASSUME NEW c \in Calls, CountTenant(c) PROVE TypeOK'
    BY <1>2, CallTyped DEF CountTenant, TypeOK
  <1>3. ASSUME NEW c \in Calls, NEW p \in Probes \cup {None}, SelectProbe(c, p)
        PROVE  TypeOK'
    <2>1. [calls[c] EXCEPT !.pc = "insert", !.probe = p] \in CallStates
      BY CallTyped DEF CallStates
    <2>. QED  BY <1>3, <2>1, CallTyped DEF SelectProbe, TypeOK
  <1>4. ASSUME NEW c \in Calls, NEW t \in Tunnels, Insert(c, t) PROVE TypeOK'
    <2>1. [calls[c] EXCEPT !.pc = "send", !.tunnel = t] \in CallStates
      BY CallTyped DEF CallStates
    <2>2. [NoRow EXCEPT !.status = "opening", !.user = calls[c].user,
                        !.probe = calls[c].probe] \in Rows
      BY CallTyped DEF CallStates, NoRow, Rows
    <2>. QED  BY <1>4, <2>1, <2>2 DEF Insert, TypeOK
  <1>5. ASSUME NEW c \in Calls, Send(c) \/ TimesOut(c) PROVE TypeOK'
    BY <1>5, CallTyped DEF Send, TimesOut, TypeOK
  <1>6. ASSUME NEW c \in Calls, NEW m, Answered(c, m) PROVE TypeOK'
    BY <1>6, CallTyped DEF Answered, TypeOK
  <1>7. ASSUME NEW c \in Calls, MarkError(c) \/ MarkActive(c) PROVE TypeOK'
    BY <1>7, CallTyped, StatusTyped DEF MarkError, MarkActive, TypeOK
  <1>8. ASSUME NEW t \in Tunnels, CloseRead(t) PROVE TypeOK'
    BY <1>8 DEF CloseRead, TypeOK
  <1>9. ASSUME NEW t \in Tunnels, CloseUpdate(t) PROVE TypeOK'
    BY <1>9, StatusTyped DEF CloseUpdate, TypeOK
  <1>10. ASSUME CleanupSelect PROVE TypeOK'
    BY <1>10 DEF CleanupSelect, TypeOK, IdleJob, JobStates
  <1>11. ASSUME NEW t \in Tunnels, CleanupCheck(t) PROVE TypeOK'
    BY <1>11 DEF CleanupCheck, TypeOK, JobStates
  <1>12. ASSUME CleanupClose PROVE TypeOK'
    <2>1. job' \in JobStates
      BY <1>12 DEF CleanupClose, TypeOK, JobStates
    <2>. QED  BY <1>12, <2>1, StatusTyped DEF CleanupClose, TypeOK
  <1>13. ASSUME CleanupExpire PROVE TypeOK'
    BY <1>13, StatusTyped DEF CleanupExpire, TypeOK, IdleJob, JobStates
  <1>14. ASSUME NEW p \in Probes, Connect(p) \/ Breaks(p) \/ ServerNoticesBreak(p)
         PROVE  TypeOK'
    BY <1>14 DEF Connect, Breaks, ServerNoticesBreak, TypeOK
  <1>15. ASSUME ServerRestart PROVE TypeOK'
    BY <1>15, BoundsAssumption
    DEF ServerRestart, TypeOK, IdleCall, CallStates, IdleJob, JobStates
  <1>16. ASSUME NEW t \in Tunnels, ThirtyMinutesPass(t) PROVE TypeOK'
    BY <1>16 DEF ThirtyMinutesPass, TypeOK, Rows
  <1>17. ASSUME UNCHANGED vars PROVE TypeOK'
    BY <1>17 DEF vars, TypeOK
  <1>. QED
    BY <1>1, <1>2, <1>3, <1>4, <1>5, <1>6, <1>7, <1>8, <1>9, <1>10, <1>11, <1>12,
       <1>13, <1>14, <1>15, <1>16, <1>17
    DEF Next, Continue, Cleanup

\* The rows, the calls and the job keep their types, whatever overlaps or
\* restarts.
THEOREM TypeCorrect == Spec => []TypeOK
  <1>. QED  BY TypeInit, TypeStep, PTL DEF Spec

-----------------------------------------------------------------------------
(* What a call, a close and the job hold is a row that exists.             *)

Exists(t) == rows[t].status # "none"

\* A call has a row from its insert on: its own, and of its user.
Late == {"send", "wait", "unheard", "ready", "failed"}
CallsInv ==
    /\ \A c \in Calls :
          /\ calls[c].pc # "idle" => calls[c].user \in Users
          /\ calls[c].pc \notin Late => calls[c].tunnel = None
          /\ calls[c].pc \in Late =>
                /\ calls[c].tunnel \in Tunnels
                /\ Exists(calls[c].tunnel)
                /\ rows[calls[c].tunnel].user = calls[c].user
    /\ \A c, d \in Calls :
          calls[c].tunnel = calls[d].tunnel /\ calls[c].tunnel # None => c = d

RowsInv == \A t \in Tunnels : Exists(t) => rows[t].user \in Users

WritersInv ==
    /\ \A t \in closing \cup job.todo : Exists(t)
    /\ job.pc = "close" => job.tunnel \in Tunnels /\ Exists(job.tunnel)

OwnInv == TypeOK /\ CallsInv /\ RowsInv /\ WritersInv

LEMMA OwnInit == Init => OwnInv
  BY TypeInit
  DEF Init, OwnInv, CallsInv, RowsInv, WritersInv, Exists, NoRow, IdleCall, IdleJob, Late

\* A write of the status leaves the rest.
LEMMA StatusKeeps ==
    ASSUME TypeOK, NEW S, NEW s \in {"active", "error", "closed"}, SetStatus(S, s)
    PROVE  \A t \in Tunnels :
              /\ rows'[t].user = rows[t].user
              /\ rows'[t].status = IF t \in S THEN s ELSE rows[t].status
              /\ Exists(t) => Exists(t)'
  BY DEF TypeOK, Rows, SetStatus, Exists

\* Nothing is disturbed where the rows keep existing and their users.
Kept == \A t \in Tunnels : rows'[t].user = rows[t].user /\ Exists(t)' = Exists(t)

LEMMA KeptRows == ASSUME OwnInv, Kept PROVE RowsInv'
  BY DEF OwnInv, RowsInv, Kept

LEMMA KeptCalls == ASSUME OwnInv, Kept, UNCHANGED calls PROVE CallsInv'
  BY DEF OwnInv, TypeOK, CallsInv, Kept

LEMMA KeptWriters == ASSUME OwnInv, Kept, UNCHANGED <<closing, job>> PROVE WritersInv'
  BY DEF OwnInv, TypeOK, JobStates, WritersInv, Kept

\* A call that goes on, or ends.
LEMMA FreeKeeps ==
    ASSUME OwnInv, Kept, NEW c \in Calls, Free(c)
    PROVE  CallsInv'
  <1>1. calls' = [calls EXCEPT ![c] = IdleCall] /\ IdleCall.pc = "idle" /\ IdleCall.tunnel = None
    BY DEF Free, IdleCall
  <1>. QED  BY <1>1 DEF OwnInv, TypeOK, CallsInv, Kept, Late

LEMMA GotoKeeps ==
    ASSUME OwnInv, Kept, NEW c \in Calls, calls[c].pc # "idle",
           NEW pc, Goto(c, pc), pc \in Late <=> calls[c].pc \in Late, pc # "idle"
    PROVE  CallsInv'
  <1>1. /\ calls'[c].pc = pc
        /\ calls'[c].user = calls[c].user /\ calls'[c].tunnel = calls[c].tunnel
        /\ \A d \in Calls \ {c} : calls'[d] = calls[d]
    BY DEF Goto, OwnInv, TypeOK, CallStates
  <1>2. \A d \in Calls : calls'[d].tunnel = calls[d].tunnel /\ calls'[d].user = calls[d].user
    BY <1>1
  <1>3. ASSUME NEW d \in Calls
        PROVE  /\ calls'[d].pc # "idle" => calls'[d].user \in Users
               /\ calls'[d].pc \notin Late => calls'[d].tunnel = None
               /\ calls'[d].pc \in Late =>
                     /\ calls'[d].tunnel \in Tunnels
                     /\ rows'[calls'[d].tunnel].status # "none"
                     /\ rows'[calls'[d].tunnel].user = calls'[d].user
    <2>1. /\ calls[d].pc # "idle" => calls[d].user \in Users
          /\ calls[d].pc \notin Late => calls[d].tunnel = None
          /\ calls[d].pc \in Late =>
                /\ calls[d].tunnel \in Tunnels
                /\ rows[calls[d].tunnel].status # "none"
                /\ rows[calls[d].tunnel].user = calls[d].user
      BY DEF OwnInv, CallsInv, Exists
    <2>2. /\ calls'[d].pc \in Late <=> calls[d].pc \in Late
          /\ calls'[d].pc # "idle" => calls[d].pc # "idle"
      BY <1>1
    <2>. QED  BY <1>2, <2>1, <2>2 DEF Kept, Exists
  <1>4. \A d, e \in Calls :
           calls'[d].tunnel = calls'[e].tunnel /\ calls'[d].tunnel # None => d = e
    BY <1>2 DEF OwnInv, CallsInv
  <1>. QED  BY <1>3, <1>4 DEF CallsInv, Exists

\* The status of rows that exist may change.
LEMMA StatusKept ==
    ASSUME TypeOK, NEW S, NEW s \in {"active", "error", "closed"}, SetStatus(S, s),
           \A t \in S \cap Tunnels : Exists(t)
    PROVE  Kept
  BY StatusKeeps DEF Kept, Exists

LEMMA RowsSame == ASSUME UNCHANGED rows PROVE Kept
  BY DEF Kept, Exists

LEMMA InsertOwns ==
    ASSUME OwnInv, NEW c \in Calls, NEW t \in Tunnels, Insert(c, t)
    PROVE  CallsInv' /\ RowsInv' /\ WritersInv'
  <1>1. /\ rows[t].status = "none"
        /\ rows'[t].status = "opening" /\ rows'[t].user = calls[c].user
        /\ \A r \in Tunnels \ {t} : rows'[r] = rows[r]
    BY DEF Insert, NoRow, OwnInv, TypeOK
  <1>2. /\ calls[c].pc = "insert"
        /\ calls'[c].pc = "send" /\ calls'[c].tunnel = t
        /\ calls'[c].user = calls[c].user /\ calls[c].user \in Users
        /\ \A d \in Calls \ {c} : calls'[d] = calls[d]
    BY DEF Insert, At, OwnInv, TypeOK, CallStates, CallsInv
  <1>3. \A d \in Calls : calls[d].tunnel # t
    BY <1>1, NoneAssumption DEF OwnInv, CallsInv, Exists
  <1>4. ASSUME NEW d \in Calls
        PROVE  /\ calls'[d].pc # "idle" => calls'[d].user \in Users
               /\ calls'[d].pc \notin Late => calls'[d].tunnel = None
               /\ calls'[d].pc \in Late =>
                     /\ calls'[d].tunnel \in Tunnels
                     /\ rows'[calls'[d].tunnel].status # "none"
                     /\ rows'[calls'[d].tunnel].user = calls'[d].user
    <2>1. CASE d = c
      BY <2>1, <1>1, <1>2 DEF Late
    <2>2. CASE d # c
      BY <2>2, <1>1, <1>2, <1>3 DEF OwnInv, CallsInv, Exists
    <2>. QED  BY <2>1, <2>2
  <1>5. \A d, e \in Calls :
           calls'[d].tunnel = calls'[e].tunnel /\ calls'[d].tunnel # None => d = e
    BY <1>2, <1>3 DEF OwnInv, CallsInv
  <1>6. CallsInv'
    BY <1>4, <1>5 DEF CallsInv, Exists
  <1>7. RowsInv'
    BY <1>1, <1>2 DEF OwnInv, RowsInv, Exists
  <1>8. WritersInv'
    BY <1>1 DEF Insert, OwnInv, TypeOK, JobStates, WritersInv, Exists
  <1>. QED  BY <1>6, <1>7, <1>8

LEMMA OwnStep == OwnInv /\ [Next]_vars => OwnInv'
  <1>. SUFFICES ASSUME OwnInv, [Next]_vars PROVE OwnInv'
    OBVIOUS
  <1>. USE DEF OwnInv
  <1>0. TypeOK'
    BY TypeStep
  <1>1. ASSUME NEW c \in Calls, NEW u \in Users, CountUser(c, u) PROVE OwnInv'
    <2>1. /\ calls'[c].pc = "tenant" /\ calls'[c].user = u /\ calls'[c].tunnel = None
          /\ \A d \in Calls \ {c} : calls'[d] = calls[d]
      BY <1>1 DEF CountUser, TypeOK, IdleCall
    <2>2. CallsInv'
      BY <1>1, <2>1 DEF CountUser, CallsInv, Exists, Late
    <2>. QED  BY <1>0, <1>1, <2>2, RowsSame, KeptRows, KeptWriters DEF CountUser
  <1>2. ASSUME NEW c \in Calls, CountTenant(c) PROVE OwnInv'
    <2>1. CallsInv'
      BY <1>2, RowsSame, FreeKeeps, GotoKeeps DEF CountTenant, At, Late
    <2>. QED  BY <1>0, <1>2, <2>1, RowsSame, KeptRows, KeptWriters DEF CountTenant
  <1>3. ASSUME NEW c \in Calls, NEW p \in Probes \cup {None}, SelectProbe(c, p)
        PROVE  OwnInv'
    <2>1. CASE Free(c)
      BY <1>3, <2>1, <1>0, RowsSame, FreeKeeps, KeptRows, KeptWriters DEF SelectProbe
    <2>2. CASE calls' = [calls EXCEPT ![c].pc = "insert", ![c].probe = p]
      <3>1. /\ calls[c].pc = "select"
            /\ calls'[c].pc = "insert" /\ calls'[c].user = calls[c].user
            /\ calls'[c].tunnel = calls[c].tunnel
            /\ \A d \in Calls \ {c} : calls'[d] = calls[d]
        BY <1>3, <2>2 DEF SelectProbe, At, TypeOK, CallStates
      <3>2. CallsInv'
        BY <1>3, <3>1 DEF SelectProbe, CallsInv, Exists, Late
      <3>. QED  BY <1>0, <1>3, <3>2, RowsSame, KeptRows, KeptWriters DEF SelectProbe
    <2>. QED  BY <1>3, <2>1, <2>2 DEF SelectProbe
  <1>4. ASSUME NEW c \in Calls, NEW t \in Tunnels, Insert(c, t) PROVE OwnInv'
    BY <1>0, <1>4, InsertOwns
  <1>5. ASSUME NEW c \in Calls, Send(c) \/ TimesOut(c) PROVE OwnInv'
    <2>1. CallsInv'
      BY <1>5, RowsSame, GotoKeeps DEF Send, TimesOut, At, Late
    <2>. QED  BY <1>0, <1>5, <2>1, RowsSame, KeptRows, KeptWriters DEF Send, TimesOut
  <1>6. ASSUME NEW c \in Calls, NEW m, Answered(c, m) PROVE OwnInv'
    <2>1. CallsInv'
      BY <1>6, RowsSame, GotoKeeps DEF Answered, At, Late
    <2>. QED  BY <1>0, <1>6, <2>1, RowsSame, KeptRows, KeptWriters DEF Answered
  <1>7. ASSUME NEW c \in Calls, MarkError(c) \/ MarkActive(c) PROVE OwnInv'
    <2>1. Exists(calls[c].tunnel)
      BY <1>7 DEF MarkError, MarkActive, At, CallsInv, Late
    <2>2. Kept
      BY <1>7, <2>1, StatusKept DEF MarkError, MarkActive
    <2>. QED
      BY <1>0, <1>7, <2>2, FreeKeeps, KeptRows, KeptWriters DEF MarkError, MarkActive
  <1>8. ASSUME NEW t \in Tunnels, CloseRead(t) PROVE OwnInv'
    <2>1. WritersInv'
      BY <1>8 DEF CloseRead, WritersInv, Exists
    <2>. QED  BY <1>0, <1>8, <2>1, RowsSame, KeptRows, KeptCalls DEF CloseRead
  <1>9. ASSUME NEW t \in Tunnels, CloseUpdate(t) PROVE OwnInv'
    <2>1. Kept
      BY <1>9, StatusKept DEF CloseUpdate, WritersInv
    <2>2. WritersInv'
      BY <1>9, <2>1 DEF CloseUpdate, WritersInv, Kept, TypeOK, JobStates
    <2>. QED  BY <1>0, <1>9, <2>1, <2>2, KeptRows, KeptCalls DEF CloseUpdate
  <1>10. ASSUME CleanupSelect PROVE OwnInv'
    <2>1. WritersInv'
      BY <1>10 DEF CleanupSelect, WritersInv, Exists, Open, OpenStatuses, IdleJob
    <2>. QED  BY <1>0, <1>10, <2>1, RowsSame, KeptRows, KeptCalls DEF CleanupSelect
  <1>11. ASSUME NEW t \in Tunnels, CleanupCheck(t) PROVE OwnInv'
    <2>1. WritersInv'
      BY <1>11 DEF CleanupCheck, WritersInv, Exists, TypeOK, JobStates
    <2>. QED  BY <1>0, <1>11, <2>1, RowsSame, KeptRows, KeptCalls DEF CleanupCheck
  <1>12. ASSUME CleanupClose PROVE OwnInv'
    <2>1. Kept
      BY <1>12, StatusKept DEF CleanupClose, WritersInv
    <2>2. /\ job'.todo = job.todo /\ job'.pc = "loop"
          /\ job.todo \subseteq Tunnels /\ closing \subseteq Tunnels
      BY <1>12 DEF CleanupClose, TypeOK, JobStates
    <2>3. WritersInv'
      BY <1>12, <2>1, <2>2 DEF CleanupClose, WritersInv, Kept
    <2>. QED  BY <1>0, <1>12, <2>1, <2>3, KeptRows, KeptCalls DEF CleanupClose
  <1>13. ASSUME CleanupExpire PROVE OwnInv'
    <2>1. Kept
      BY <1>13, StatusKept DEF CleanupExpire, Open, OpenStatuses, Exists
    <2>2. WritersInv'
      BY <1>13, <2>1 DEF CleanupExpire, WritersInv, Kept, TypeOK, IdleJob
    <2>. QED  BY <1>0, <1>13, <2>1, <2>2, KeptRows, KeptCalls DEF CleanupExpire
  <1>14. ASSUME NEW p \in Probes, Connect(p) \/ Breaks(p) \/ ServerNoticesBreak(p)
         PROVE  OwnInv'
    BY <1>0, <1>14, RowsSame, KeptRows, KeptCalls, KeptWriters
    DEF Connect, Breaks, ServerNoticesBreak
  <1>15. ASSUME ServerRestart PROVE OwnInv'
    <2>1. CallsInv'
      BY <1>15 DEF ServerRestart, CallsInv, IdleCall, Late
    <2>2. WritersInv'
      BY <1>15 DEF ServerRestart, WritersInv, IdleJob
    <2>. QED  BY <1>0, <1>15, <2>1, <2>2, RowsSame, KeptRows DEF ServerRestart
  <1>16. ASSUME NEW t \in Tunnels, ThirtyMinutesPass(t) PROVE OwnInv'
    <2>1. Kept
      BY <1>16 DEF ThirtyMinutesPass, Kept, Exists, TypeOK, Rows
    <2>. QED  BY <1>0, <1>16, <2>1, KeptRows, KeptCalls, KeptWriters DEF ThirtyMinutesPass
  <1>17. ASSUME UNCHANGED vars PROVE OwnInv'
    BY <1>0, <1>17, RowsSame, KeptRows, KeptCalls, KeptWriters DEF vars
  <1>. QED
    BY <1>1, <1>2, <1>3, <1>4, <1>5, <1>6, <1>7, <1>8, <1>9, <1>10, <1>11, <1>12,
       <1>13, <1>14, <1>15, <1>16, <1>17
    DEF Next, Continue, Cleanup

THEOREM OwnCorrect == Spec => []OwnInv
  <1>. QED  BY OwnInit, OwnStep, PTL DEF Spec

-----------------------------------------------------------------------------
(* Every step of the tunnels is a step of their life cycle, or none.       *)

Status == [t \in Tunnels |-> rows[t].status]
Undecided == {calls[c].tunnel : c \in Calls} \ {None}

LEMMA LifecycleInit == Init => Lifecycle!Init
  BY DEF Init, Lifecycle!Init, NoRow, IdleCall

\* Calls that keep their tunnels.
LEMMA UndecidedKept ==
    ASSUME OwnInv, NEW c \in Calls, calls[c].pc \notin Late,
           \/ Free(c)
           \/ \E f \in CallStates : /\ f.tunnel = calls[c].tunnel
                                    /\ calls' = [calls EXCEPT ![c] = f]
    PROVE  Undecided' = Undecided
  <1>1. \A d \in Calls : calls'[d].tunnel = calls[d].tunnel
    BY DEF OwnInv, TypeOK, CallsInv, Free, IdleCall
  <1>. QED  BY <1>1 DEF Undecided

LEMMA GotoUndecided ==
    ASSUME OwnInv, NEW c \in Calls, NEW pc, Goto(c, pc)
    PROVE  Undecided' = Undecided
  <1>1. \A d \in Calls : calls'[d].tunnel = calls[d].tunnel
    BY DEF OwnInv, TypeOK, CallStates, Goto
  <1>. QED  BY <1>1 DEF Undecided

\* The end of a call that had a row: the row's opening is decided.
LEMMA FreeDecides ==
    ASSUME OwnInv, NEW c \in Calls, calls[c].pc \in Late, Free(c)
    PROVE  /\ calls[c].tunnel \in Undecided
           /\ Undecided' = Undecided \ {calls[c].tunnel}
  <1>1. calls'[c].tunnel = None /\ \A d \in Calls \ {c} : calls'[d] = calls[d]
    BY DEF OwnInv, TypeOK, Free, IdleCall
  <1>2. calls[c].tunnel \in Tunnels /\ calls[c].tunnel # None
    BY NoneAssumption DEF OwnInv, CallsInv
  <1>3. \A d \in Calls \ {c} : calls[d].tunnel # calls[c].tunnel
    BY <1>2 DEF OwnInv, CallsInv
  <1>4. calls[c].tunnel \in Undecided
    BY <1>2 DEF Undecided
  <1>5. ASSUME NEW t PROVE t \in Undecided' <=> t \in Undecided \ {calls[c].tunnel}
    BY <1>1, <1>3 DEF Undecided
  <1>. QED  BY <1>4, <1>5

LEMMA StatusWritten ==
    ASSUME TypeOK, NEW S, NEW s \in {"active", "error", "closed"}, SetStatus(S, s)
    PROVE  Status' = [t \in Tunnels |-> IF t \in S THEN s ELSE Status[t]]
  <1>1. \A t \in Tunnels : rows'[t].status = IF t \in S THEN s ELSE rows[t].status
    BY StatusKeeps
  <1>. QED  BY <1>1 DEF Status

LEMMA WriteCloses ==
    ASSUME OwnInv, NEW S \in SUBSET Tunnels, \A t \in S : Exists(t),
           SetStatus(S, "closed"), UNCHANGED calls
    PROVE  Lifecycle!Close(S)
  <1>1. Status' = [t \in Tunnels |-> IF t \in S THEN "closed" ELSE Status[t]]
    BY StatusWritten DEF OwnInv
  <1>2. \A t \in S : Status[t] # "none"
    BY DEF Status, Exists
  <1>3. Undecided' = Undecided
    BY DEF Undecided
  <1>. QED  BY <1>1, <1>2, <1>3 DEF Lifecycle!Close, Status, Undecided

LEMMA LifecycleStep == OwnInv /\ [Next]_vars => [Lifecycle!Next]_(Lifecycle!vars)
  <1>. DEFINE Goal == Lifecycle!Next \/ (Status' = Status /\ Undecided' = Undecided)
  <1>. SUFFICES ASSUME OwnInv, [Next]_vars PROVE Goal
    BY DEF Lifecycle!vars, Status, Undecided
  <1>0. TypeOK
    BY DEF OwnInv
  <1>s. UNCHANGED rows => Status' = Status
    BY DEF Status
  <1>u. UNCHANGED calls => Undecided' = Undecided
    BY DEF Undecided
  <1>1. ASSUME NEW c \in Calls, NEW u \in Users, CountUser(c, u) PROVE Goal
    <2>1. [IdleCall EXCEPT !.pc = "tenant", !.user = u] \in CallStates
      BY DEF IdleCall, CallStates
    <2>2. calls[c].tunnel = None /\ calls[c].pc \notin Late
      BY <1>1 DEF CountUser, At, OwnInv, CallsInv, Late
    <2>. QED  BY <1>1, <1>s, <2>1, <2>2, UndecidedKept DEF CountUser, IdleCall
  <1>2. ASSUME NEW c \in Calls, CountTenant(c) PROVE Goal
    BY <1>2, <1>s, UndecidedKept, GotoUndecided DEF CountTenant, At, Late
  <1>3. ASSUME NEW c \in Calls, NEW p \in Probes \cup {None}, SelectProbe(c, p) PROVE Goal
    <2>1. calls[c].pc \notin Late
      BY <1>3 DEF SelectProbe, At, Late
    <2>2. /\ [calls[c] EXCEPT !.pc = "insert", !.probe = p] \in CallStates
          /\ [calls[c] EXCEPT !.pc = "insert", !.probe = p].tunnel = calls[c].tunnel
          /\ [calls EXCEPT ![c].pc = "insert", ![c].probe = p]
             = [calls EXCEPT ![c] = [calls[c] EXCEPT !.pc = "insert", !.probe = p]]
      BY <1>0, CallTyped DEF CallStates, TypeOK
    <2>. QED  BY <1>3, <1>s, <2>1, <2>2, UndecidedKept DEF SelectProbe
  <1>4. ASSUME NEW c \in Calls, NEW t \in Tunnels, Insert(c, t) PROVE Goal
    <2>1. Status[t] = "none" /\ Status' = [Status EXCEPT ![t] = "opening"]
      BY <1>0, <1>4 DEF Insert, Status, TypeOK, Rows, NoRow
    <2>2. calls[c].tunnel = None
      BY <1>4 DEF Insert, At, OwnInv, CallsInv, Late
    <2>3. calls'[c].tunnel = t /\ \A d \in Calls \ {c} : calls'[d] = calls[d]
      BY <1>0, <1>4 DEF Insert, TypeOK, CallStates
    <2>4. ASSUME NEW r PROVE r \in Undecided' <=> r \in Undecided \cup {t}
      BY <2>2, <2>3, NoneAssumption DEF Undecided
    <2>5. Undecided' = Undecided \cup {t}
      BY <2>4
    <2>. QED  BY <2>1, <2>5 DEF Lifecycle!Next, Lifecycle!Open, Status, Undecided
  <1>5. ASSUME NEW c \in Calls, Send(c) \/ TimesOut(c) PROVE Goal
    BY <1>5, <1>s, GotoUndecided DEF Send, TimesOut
  <1>6. ASSUME NEW c \in Calls, NEW m, Answered(c, m) PROVE Goal
    BY <1>6, <1>s, GotoUndecided DEF Answered
  <1>7. ASSUME NEW c \in Calls, MarkError(c) \/ MarkActive(c) PROVE Goal
    <2>1. calls[c].pc \in Late /\ Free(c)
      BY <1>7 DEF MarkError, MarkActive, At, Late
    <2>2. PICK t \in Tunnels : t = calls[c].tunnel
      BY <2>1 DEF OwnInv, CallsInv
    <2>3. PICK s \in {"active", "error"} : SetStatus({t}, s)
      BY <1>7, <2>2 DEF MarkError, MarkActive
    <2>4. Status' = [Status EXCEPT ![t] = s]
      <3>1. Status' = [r \in Tunnels |-> IF r \in {t} THEN s ELSE Status[r]]
        BY <1>0, <2>3, StatusWritten
      <3>. QED  BY <3>1 DEF Status
    <2>5. Lifecycle!Decide(t)
      BY <2>1, <2>2, <2>4, FreeDecides DEF Lifecycle!Decide, Status, Undecided
    <2>. QED  BY <2>5 DEF Lifecycle!Next
  <1>8. ASSUME NEW t \in Tunnels, CloseRead(t) \/ CleanupCheck(t) PROVE Goal
    BY <1>8, <1>s, <1>u DEF CloseRead, CleanupCheck
  <1>9. ASSUME NEW t \in Tunnels, CloseUpdate(t) PROVE Goal
    <2>1. Lifecycle!Close({t})
      BY <1>9, WriteCloses DEF CloseUpdate, OwnInv, WritersInv
    <2>. QED  BY <2>1 DEF Lifecycle!Next
  <1>10. ASSUME CleanupSelect PROVE Goal
    BY <1>10, <1>s, <1>u DEF CleanupSelect
  <1>12. ASSUME CleanupClose PROVE Goal
    <2>1. PICK t \in Tunnels : t = job.tunnel /\ Exists(t)
      BY <1>12 DEF CleanupClose, OwnInv, WritersInv
    <2>2. Lifecycle!Close({t})
      BY <1>12, <2>1, WriteCloses DEF CleanupClose
    <2>. QED  BY <2>2 DEF Lifecycle!Next
  <1>13. ASSUME CleanupExpire PROVE Goal
    <2>1. PICK S \in SUBSET Tunnels :
             S = {t \in Tunnels : Open(t) /\ rows[t].age = "old"}
      OBVIOUS
    <2>2. \A t \in S : Exists(t)
      BY <2>1 DEF Open, OpenStatuses, Exists
    <2>3. Lifecycle!Close(S)
      BY <1>13, <2>1, <2>2, WriteCloses DEF CleanupExpire
    <2>. QED  BY <2>3 DEF Lifecycle!Next
  <1>14. ASSUME NEW p \in Probes, Connect(p) \/ Breaks(p) \/ ServerNoticesBreak(p)
         PROVE  Goal
    BY <1>14, <1>s, <1>u DEF Connect, Breaks, ServerNoticesBreak
  <1>15. ASSUME ServerRestart PROVE Goal
    <2>1. Undecided' = {}
      BY <1>15 DEF ServerRestart, Undecided, IdleCall
    <2>2. Lifecycle!Abandon
      BY <1>15, <1>s, <2>1 DEF ServerRestart, Lifecycle!Abandon, Undecided, Status
    <2>. QED  BY <2>2 DEF Lifecycle!Next
  <1>16. ASSUME NEW t \in Tunnels, ThirtyMinutesPass(t) PROVE Goal
    <2>1. \A r \in Tunnels : rows'[r].status = rows[r].status
      BY <1>0, <1>16 DEF ThirtyMinutesPass, TypeOK, Rows
    <2>. QED  BY <1>16, <1>u, <2>1 DEF ThirtyMinutesPass, Status
  <1>17. ASSUME UNCHANGED vars PROVE Goal
    BY <1>17, <1>s, <1>u DEF vars
  <1>. QED
    BY <1>1, <1>2, <1>3, <1>4, <1>5, <1>6, <1>7, <1>8, <1>9, <1>10, <1>12,
       <1>13, <1>14, <1>15, <1>16, <1>17
    DEF Next, Continue, Cleanup

\* The tunnels implement their life cycle: an opening is decided once, and a
\* row leaves `closed` only by the decision of an opening under way.
THEOREM LifecycleImplemented == Spec => ImplementsLifecycle
  <1>. QED
    BY LifecycleInit, LifecycleStep, OwnCorrect, PTL
    DEF Spec, ImplementsLifecycle, Lifecycle!Spec

\* The half of SlotsAreFreed that is about safety.
Settled(t) == rows[t].status \in {"error", "closed"} /\ \A c \in Calls : calls[c].tunnel # t

\* A tunnel that is over, and that no openTunnel waits for, does not come to count
\* against the limits again, whoever closes it once more, whatever the job finds and
\* however often the server restarts.
THEOREM OverForGood == Spec => [][\A t \in Tunnels : Settled(t) => Settled(t)']_vars
  <1>. DEFINE st == [t \in Tunnels |-> rows[t].status]
              und == {calls[c].tunnel : c \in Calls} \ {None}
  <1>1. \A t \in Tunnels : Settled(t) <=> st[t] \in {"error", "closed"} /\ t \notin und
    BY NoneAssumption DEF Settled
  <1>2. ASSUME OwnInv, [Next]_vars, NEW t \in Tunnels, Settled(t) PROVE Settled(t)'
    <2>1. [Lifecycle!Next]_(Lifecycle!vars)
      BY <1>2, LifecycleStep
    <2>2. st[t] \in {"error", "closed"} /\ t \notin und
      BY <1>1, <1>2
    <2>. SUFFICES st'[t] \in {"error", "closed"} /\ t \notin und'
      BY NoneAssumption DEF Settled
    <2>3. CASE \E o \in Tunnels : Lifecycle!Open(o)
      BY <2>2, <2>3 DEF Lifecycle!Open
    <2>4. CASE \E o \in Tunnels : Lifecycle!Decide(o)
      BY <2>2, <2>4 DEF Lifecycle!Decide
    <2>5. CASE Lifecycle!Abandon
      BY <2>2, <2>5 DEF Lifecycle!Abandon
    <2>6. CASE \E S \in SUBSET Tunnels : Lifecycle!Close(S)
      BY <2>2, <2>6 DEF Lifecycle!Close
    <2>7. CASE UNCHANGED Lifecycle!vars
      BY <2>2, <2>7 DEF Lifecycle!vars
    <2>. QED  BY <2>1, <2>3, <2>4, <2>5, <2>6, <2>7 DEF Lifecycle!Next
  <1>3. OwnInv /\ [Next]_vars => [\A t \in Tunnels : Settled(t) => Settled(t)']_vars
    BY <1>2
  <1>. QED  BY <1>3, OwnCorrect, PTL DEF Spec

-----------------------------------------------------------------------------
(* The limits.  A call that has counted, and is not over, may be about to  *)
(* open one more tunnel; only the last of the calls that overlap is sure   *)
(* that those which are open were counted.  So what is bounded is not the  *)
(* number of open tunnels but the open tunnels no call holds, together     *)
(* with the calls that have counted.                                       *)

Held(U) == {t \in OpenOf(U) : \A c \in Calls : calls[c].tunnel # t}
Counted(U, Q) == {c \in Calls : calls[c].user \in U /\ calls[c].pc \notin Q}

Before == {{"idle"}, {"idle", "tenant"}}   \* where the user's, the tenant's count is to come
Fits(U, Q, max) ==
    Cardinality(Held(U)) + Cardinality(Counted(U, Q)) <= max + Cardinality(Calls) - 1

LEMMA Finite ==
    ASSUME NEW U, NEW Q
    PROVE  /\ IsFiniteSet(OpenOf(U)) /\ IsFiniteSet(Held(U)) /\ IsFiniteSet(Counted(U, Q))
           /\ IsFiniteSet(Calls) /\ Cardinality(Calls) \in Nat
           /\ Cardinality(OpenOf(U)) \in Nat /\ Cardinality(Held(U)) \in Nat
           /\ Cardinality(Counted(U, Q)) \in Nat
           /\ Held(U) \subseteq OpenOf(U) /\ Counted(U, Q) \subseteq Calls
  <1>1. /\ OpenOf(U) \subseteq Tunnels /\ Held(U) \subseteq OpenOf(U)
        /\ Counted(U, Q) \subseteq Calls
    BY DEF OpenOf, Held, Counted
  <1>2. IsFiniteSet(OpenOf(U)) /\ IsFiniteSet(Counted(U, Q)) /\ IsFiniteSet(Calls)
    BY <1>1, FS_Subset, FiniteAssumption
  <1>3. IsFiniteSet(Held(U))
    BY <1>1, <1>2, FS_Subset
  <1>. QED  BY <1>1, <1>2, <1>3, FS_CardinalityType

\* An open tunnel is held by no call, or by a call that has counted.
LEMMA OpenBound ==
    ASSUME OwnInv, NEW U, NEW Q \in Before
    PROVE  Cardinality(OpenOf(U)) <= Cardinality(Held(U)) + Cardinality(Counted(U, Q))
  <1>. DEFINE f == [c \in Counted(U, Q) |-> calls[c].tunnel]
              T == {calls[c].tunnel : c \in Counted(U, Q)}
  <1>1. f \in Surjection(Counted(U, Q), T)
    BY Fun_IsSurj
  <1>2. IsFiniteSet(T) /\ Cardinality(T) <= Cardinality(Counted(U, Q))
    BY <1>1, Finite, FS_Surjection
  <1>3. /\ IsFiniteSet(Held(U) \cup T) /\ IsFiniteSet(Held(U) \cap T)
        /\ Cardinality(Held(U) \cup T)
             = Cardinality(Held(U)) + Cardinality(T) - Cardinality(Held(U) \cap T)
    <2>1. Held(U) \cap T \subseteq Held(U)
      OBVIOUS
    <2>. QED  BY <1>2, <2>1, Finite, FS_Union, FS_Subset
  <1>4. OpenOf(U) \subseteq Held(U) \cup T
    <2>1. ASSUME NEW t \in OpenOf(U), t \notin Held(U) PROVE t \in T
      <3>1. PICK c \in Calls : calls[c].tunnel = t
        BY <2>1 DEF Held
      <3>2. t \in Tunnels /\ rows[t].user \in U
        BY DEF OpenOf
      <3>3. calls[c].pc \in Late /\ calls[c].user = rows[t].user
        BY <3>1, <3>2, NoneAssumption DEF OwnInv, CallsInv
      <3>4. c \in Counted(U, Q)
        BY <3>2, <3>3 DEF Counted, Before, Late
      <3>. QED  BY <3>1, <3>4
    <2>. QED  BY <2>1
  <1>5. Cardinality(OpenOf(U)) <= Cardinality(Held(U) \cup T)
    BY <1>3, <1>4, FS_Subset
  <1>6. /\ Cardinality(T) \in Nat /\ Cardinality(Held(U) \cap T) \in Nat
        /\ Cardinality(Held(U) \cup T) \in Nat
    BY <1>2, <1>3, FS_CardinalityType
  <1>. QED  BY <1>2, <1>3, <1>5, <1>6, Finite

\* Fewer tunnels and fewer calls.
LEMMA FitsShrinks ==
    ASSUME NEW U, NEW Q, NEW max \in Nat \ {0}, Fits(U, Q, max),
           Held(U)' \subseteq Held(U), Counted(U, Q)' \subseteq Counted(U, Q)
    PROVE  Fits(U, Q, max)'
  <1>1. /\ Cardinality(Held(U)') <= Cardinality(Held(U)) /\ Cardinality(Held(U)') \in Nat
        /\ Cardinality(Counted(U, Q)') <= Cardinality(Counted(U, Q))
        /\ Cardinality(Counted(U, Q)') \in Nat
    BY Finite, FS_Subset, FS_CardinalityType
  <1>. QED  BY <1>1, Finite DEF Fits

\* A call that counts, and finds fewer than max.
LEMMA FitsCounts ==
    ASSUME NEW U, NEW Q, NEW max \in Nat \ {0}, Cardinality(OpenOf(U)) < max,
           Held(U)' \subseteq Held(U)
    PROVE  Fits(U, Q, max)'
  <1>1. Counted(U, Q)' \subseteq Calls
    BY DEF Counted
  <1>2. /\ Cardinality(Held(U)') <= Cardinality(Held(U)) /\ Cardinality(Held(U)') \in Nat
        /\ Cardinality(Held(U)) <= Cardinality(OpenOf(U))
        /\ Cardinality(Counted(U, Q)') <= Cardinality(Calls)
        /\ Cardinality(Counted(U, Q)') \in Nat
    BY <1>1, Finite, FS_Subset, FS_CardinalityType
  <1>3. /\ Cardinality(Held(U)) \in Nat /\ Cardinality(OpenOf(U)) \in Nat
        /\ Cardinality(Calls) \in Nat
    BY Finite
  <1>4. Cardinality(Held(U)') + Cardinality(Counted(U, Q)') <= max + Cardinality(Calls) - 1
    BY <1>2, <1>3
  <1>. QED  BY <1>4 DEF Fits

\* A call that ends, and leaves its tunnel open.
LEMMA FitsEnds ==
    ASSUME NEW U, NEW Q, NEW max \in Nat \ {0}, Fits(U, Q, max),
           NEW c \in Counted(U, Q), NEW t, Held(U)' \subseteq Held(U) \cup {t},
           Counted(U, Q)' \subseteq Counted(U, Q) \ {c}
    PROVE  Fits(U, Q, max)'
  <1>1. /\ IsFiniteSet(Held(U) \cup {t})
        /\ Cardinality(Held(U) \cup {t}) <= Cardinality(Held(U)) + 1
    <2>1. IsFiniteSet(Held(U)) /\ Cardinality(Held(U)) \in Nat
      BY Finite
    <2>2. /\ IsFiniteSet(Held(U) \cup {t})
          /\ Cardinality(Held(U) \cup {t})
               = IF t \in Held(U) THEN Cardinality(Held(U)) ELSE Cardinality(Held(U)) + 1
      BY <2>1, FS_AddElement, Zenon
    <2>. QED  BY <2>1, <2>2
  <1>2. Cardinality(Held(U)') \in Nat /\ Cardinality(Held(U)') <= Cardinality(Held(U)) + 1
    BY <1>1, Finite, FS_Subset, FS_CardinalityType
  <1>3. /\ IsFiniteSet(Counted(U, Q) \ {c})
        /\ Cardinality(Counted(U, Q) \ {c}) = Cardinality(Counted(U, Q)) - 1
    BY Finite, FS_RemoveElement
  <1>4. /\ Cardinality(Counted(U, Q)') \in Nat
        /\ Cardinality(Counted(U, Q)') <= Cardinality(Counted(U, Q)) - 1
    BY <1>3, FS_Subset, FS_CardinalityType
  <1>. QED  BY <1>2, <1>4, Finite DEF Fits

\* Where calls keep their tunnels, and no more tunnels are open.
LEMMA HeldShrinks ==
    ASSUME NEW U, OpenOf(U)' \subseteq OpenOf(U),
           \A d \in Calls : calls[d].tunnel = None \/ calls'[d].tunnel = calls[d].tunnel
    PROVE  Held(U)' \subseteq Held(U)
  <1>. SUFFICES ASSUME NEW t \in Held(U)', NEW d \in Calls PROVE calls[d].tunnel # t
    BY DEF Held
  <1>1. calls'[d].tunnel # t /\ t \in Tunnels
    BY DEF Held, OpenOf
  <1>. QED  BY <1>1, NoneAssumption

LEMMA OpenSame ==
    ASSUME NEW U, UNCHANGED rows
    PROVE  OpenOf(U)' \subseteq OpenOf(U)
  BY DEF OpenOf, Open

LEMMA OpenShrinks ==
    ASSUME TypeOK, NEW U, NEW S, SetStatus(S, "closed")
    PROVE  OpenOf(U)' \subseteq OpenOf(U)
  BY StatusKeeps DEF OpenOf, Open, OpenStatuses

\* A step of one call, c, that leaves the rows.
LEMMA FitsCall ==
    ASSUME OwnInv, NEW U, NEW Q \in Before, NEW max \in Nat \ {0}, Fits(U, Q, max),
           NEW c \in Calls, NEW f, calls' = [calls EXCEPT ![c] = f], UNCHANGED rows,
           calls[c].tunnel \in {None, f.tunnel},
           \/ f.pc \in Q
           \/ f.user = calls[c].user /\ calls[c].pc \notin Q
           \/ f.user \notin U
           \/ Cardinality(OpenOf(U)) < max
    PROVE  Fits(U, Q, max)'
  <1>1. calls'[c] = f /\ \A d \in Calls \ {c} : calls'[d] = calls[d]
    BY DEF OwnInv, TypeOK
  <1>2. Held(U)' \subseteq Held(U)
    BY <1>1, HeldShrinks, OpenSame
  <1>3. CASE Cardinality(OpenOf(U)) < max
    BY <1>2, <1>3, FitsCounts
  <1>4. CASE ~(Cardinality(OpenOf(U)) < max)
    <2>1. Counted(U, Q)' \subseteq Counted(U, Q)
      BY <1>1, <1>4 DEF Counted
    <2>. QED  BY <1>2, <2>1, FitsShrinks
  <1>. QED  BY <1>3, <1>4

\* A step that leaves the calls.
LEMMA FitsClose ==
    ASSUME NEW U, NEW Q, NEW max \in Nat \ {0}, Fits(U, Q, max),
           UNCHANGED calls, OpenOf(U)' \subseteq OpenOf(U)
    PROVE  Fits(U, Q, max)'
  <1>1. Held(U)' \subseteq Held(U)
    BY HeldShrinks
  <1>2. Counted(U, Q)' \subseteq Counted(U, Q)
    BY DEF Counted
  <1>. QED  BY <1>1, <1>2, FitsShrinks

LEMMA FitsInsert ==
    ASSUME OwnInv, NEW U, NEW Q \in Before, NEW max \in Nat \ {0}, Fits(U, Q, max),
           NEW c \in Calls, NEW t \in Tunnels, Insert(c, t)
    PROVE  Fits(U, Q, max)'
  <1>1. \A r \in Tunnels \ {t} : rows'[r] = rows[r]
    BY DEF Insert, OwnInv, TypeOK
  <1>2. /\ calls[c].pc = "insert" /\ calls[c].tunnel = None
        /\ calls'[c].pc = "send" /\ calls'[c].tunnel = t
        /\ calls'[c].user = calls[c].user
        /\ \A d \in Calls \ {c} : calls'[d] = calls[d]
    BY DEF Insert, At, OwnInv, TypeOK, CallStates, CallsInv, Late
  <1>3. Held(U)' \subseteq Held(U)
    <2>. SUFFICES ASSUME NEW r \in Held(U)' PROVE r \in Held(U)
      OBVIOUS
    <2>1. r \in Tunnels /\ r # t
      BY <1>2 DEF Held, OpenOf
    <2>2. r \in OpenOf(U)
      BY <1>1, <2>1 DEF Held, OpenOf, Open
    <2>3. \A d \in Calls : calls[d].tunnel # r
      BY <1>2, <2>1, NoneAssumption DEF Held
    <2>. QED  BY <2>2, <2>3 DEF Held
  <1>4. Counted(U, Q)' \subseteq Counted(U, Q)
    BY <1>2 DEF Counted, Before
  <1>. QED  BY <1>3, <1>4, FitsShrinks

\* The tunnel of a call that ends is of the call's user.
LEMMA FitsMark ==
    ASSUME OwnInv, NEW U, NEW Q \in Before, NEW max \in Nat \ {0}, Fits(U, Q, max),
           NEW c \in Calls, MarkError(c) \/ MarkActive(c)
    PROVE  Fits(U, Q, max)'
  <1>1. /\ calls[c].pc \in Late /\ calls[c].pc \notin Q
        /\ calls'[c].pc = "idle" /\ calls'[c].user = None
        /\ \A d \in Calls \ {c} : calls'[d] = calls[d]
    BY DEF MarkError, MarkActive, At, Free, IdleCall, OwnInv, TypeOK, Late, Before
  <1>2. PICK t \in Tunnels : t = calls[c].tunnel /\ rows[t].user = calls[c].user
    BY <1>1 DEF OwnInv, CallsInv
  <1>3. PICK s \in {"active", "error"} : SetStatus({t}, s)
    BY <1>2 DEF MarkError, MarkActive
  <1>4. \A r \in Tunnels : /\ rows'[r].user = rows[r].user
                           /\ r # t => rows'[r].status = rows[r].status
    BY <1>3, StatusKeeps DEF OwnInv
  <1>5. ASSUME NEW r \in Held(U)', r # t PROVE r \in Held(U)
    <2>1. r \in Tunnels
      BY DEF Held, OpenOf
    <2>2. r \in OpenOf(U)
      BY <1>4, <1>5, <2>1 DEF Held, OpenOf, Open
    <2>3. \A d \in Calls : calls[d].tunnel # r
      BY <1>1, <1>2, <1>5 DEF Held
    <2>. QED  BY <2>2, <2>3 DEF Held
  <1>6. Counted(U, Q)' \subseteq Counted(U, Q) \ {c}
    BY <1>1 DEF Counted, Before
  <1>7. CASE calls[c].user \in U
    <2>1. c \in Counted(U, Q)
      BY <1>1, <1>7 DEF Counted
    <2>. QED  BY <1>5, <1>6, <2>1, FitsEnds
  <1>8. CASE calls[c].user \notin U
    <2>1. t \notin Held(U)'
      BY <1>2, <1>4, <1>8 DEF Held, OpenOf
    <2>. QED  BY <1>5, <1>6, <2>1, FitsShrinks
  <1>. QED  BY <1>7, <1>8

LEMMA FitsRestart ==
    ASSUME OwnInv, NEW U, NEW Q \in Before, NEW max \in Nat \ {0}, Fits(U, Q, max),
           ServerRestart
    PROVE  Fits(U, Q, max)'
  <1>1. Held(U)' \subseteq OpenOf(U)
    BY OpenSame DEF ServerRestart, Held
  <1>2. Counted(U, Q)' = {}
    BY DEF ServerRestart, IdleCall, Counted, Before
  <1>3. Cardinality(Held(U)') <= Cardinality(OpenOf(U)) /\ Cardinality(Held(U)') \in Nat
    BY <1>1, Finite, FS_Subset, FS_CardinalityType
  <1>4. Cardinality(Counted(U, Q)') = 0
    BY <1>2, FS_EmptySet
  <1>5. /\ Cardinality(OpenOf(U)) <= Cardinality(Held(U)) + Cardinality(Counted(U, Q))
        /\ Cardinality(OpenOf(U)) \in Nat /\ Cardinality(Held(U)) \in Nat
        /\ Cardinality(Counted(U, Q)) \in Nat /\ Cardinality(Calls) \in Nat
    BY OpenBound, Finite
  <1>. QED  BY <1>3, <1>4, <1>5 DEF Fits

\* All steps, given that a count that lets a call go on has found fewer than
\* max open tunnels.
LEMMA FitsStep ==
    ASSUME OwnInv, [Next]_vars, NEW U, NEW Q \in Before, NEW max \in Nat \ {0},
           Fits(U, Q, max),
           \A c \in Calls, u \in Users :
              CountUser(c, u) => "tenant" \in Q \/ u \notin U \/ Cardinality(OpenOf(U)) < max,
           \A c \in Calls :
              CountTenant(c) => \/ "tenant" \notin Q \/ Free(c)
                                \/ Cardinality(OpenOf(U)) < max
    PROVE  Fits(U, Q, max)'
  <1>. DEFINE Goal == Fits(U, Q, max)'
  <1>0. TypeOK /\ {"idle"} \subseteq Q /\ Q \subseteq {"idle", "tenant"}
    BY DEF OwnInv, Before
  <1>1. ASSUME NEW c \in Calls, NEW u \in Users, CountUser(c, u) PROVE Goal
    <2>. DEFINE f == [IdleCall EXCEPT !.pc = "tenant", !.user = u]
    <2>1. f.pc = "tenant" /\ f.user = u /\ calls[c].tunnel = None
      BY <1>1 DEF CountUser, At, IdleCall, OwnInv, CallsInv, Late
    <2>2. \/ f.pc \in Q \/ f.user \notin U \/ Cardinality(OpenOf(U)) < max
      BY <1>1, <2>1
    <2>3. calls' = [calls EXCEPT ![c] = f] /\ UNCHANGED rows
      BY <1>1 DEF CountUser
    <2>. HIDE DEF f
    <2>. QED  BY <2>1, <2>2, <2>3, FitsCall
  <1>2. ASSUME NEW c \in Calls, Free(c), UNCHANGED rows, calls[c].pc \notin Late PROVE Goal
    BY <1>0, <1>2, FitsCall DEF Free, IdleCall, OwnInv, CallsInv
  <1>3. ASSUME NEW c \in Calls, NEW pc, Goto(c, pc), UNCHANGED rows, calls[c].pc \notin Q
        PROVE  Goal
    <2>. DEFINE f == [calls[c] EXCEPT !.pc = pc]
    <2>1. f.user = calls[c].user /\ f.tunnel = calls[c].tunnel
      BY <1>0 DEF TypeOK, CallStates
    <2>2. calls' = [calls EXCEPT ![c] = f]
      BY <1>3 DEF Goto
    <2>. HIDE DEF f
    <2>. QED  BY <1>3, <2>1, <2>2, FitsCall
  <1>4. ASSUME NEW c \in Calls, CountTenant(c) PROVE Goal
    <2>1. UNCHANGED rows /\ calls[c].pc = "tenant" /\ calls[c].tunnel = None
      BY <1>4 DEF CountTenant, At, OwnInv, CallsInv, Late
    <2>2. CASE Free(c)
      BY <1>2, <2>1, <2>2 DEF Late
    <2>3. CASE Goto(c, "select") /\ ~Free(c)
      <3>1. CASE "tenant" \notin Q
        BY <1>3, <2>1, <2>3, <3>1
      <3>2. CASE Cardinality(OpenOf(U)) < max
        <4>. DEFINE f == [calls[c] EXCEPT !.pc = "select"]
        <4>1. calls' = [calls EXCEPT ![c] = f]
          BY <2>3 DEF Goto
        <4>. HIDE DEF f
        <4>. QED  BY <2>1, <3>2, <4>1, FitsCall
      <3>. QED  BY <1>4, <2>3, <3>1, <3>2
    <2>. QED  BY <1>4, <2>2, <2>3 DEF CountTenant
  <1>5. ASSUME NEW c \in Calls, NEW p \in Probes \cup {None}, SelectProbe(c, p) PROVE Goal
    <2>1. UNCHANGED rows /\ calls[c].pc = "select" /\ calls[c].tunnel = None
      BY <1>5 DEF SelectProbe, At, OwnInv, CallsInv, Late
    <2>2. CASE Free(c)
      BY <1>2, <2>1, <2>2 DEF Late
    <2>3. CASE calls' = [calls EXCEPT ![c].pc = "insert", ![c].probe = p]
      <3>. DEFINE f == [calls[c] EXCEPT !.pc = "insert", !.probe = p]
      <3>1. f.user = calls[c].user
        BY <1>0 DEF TypeOK, CallStates
      <3>2. calls' = [calls EXCEPT ![c] = f]
        BY <1>0, <2>3 DEF TypeOK
      <3>. HIDE DEF f
      <3>. QED  BY <1>0, <2>1, <3>1, <3>2, FitsCall
    <2>. QED  BY <1>5, <2>2, <2>3 DEF SelectProbe
  <1>6. ASSUME NEW c \in Calls, NEW t \in Tunnels, Insert(c, t) PROVE Goal
    BY <1>6, FitsInsert
  <1>7. ASSUME NEW c \in Calls,
               Send(c) \/ TimesOut(c) \/ \E m \in {"tunnel_ready", "tunnel_error"} : Answered(c, m)
        PROVE  Goal
    BY <1>0, <1>3, <1>7 DEF Send, TimesOut, Answered, At
  <1>8. ASSUME NEW c \in Calls, MarkError(c) \/ MarkActive(c) PROVE Goal
    BY <1>8, FitsMark
  <1>9. ASSUME UNCHANGED calls, UNCHANGED rows \/ \E S : SetStatus(S, "closed") PROVE Goal
    BY <1>0, <1>9, FitsClose, OpenSame, OpenShrinks
  <1>10. ASSUME NEW t \in Tunnels, ThirtyMinutesPass(t) PROVE Goal
    <2>1. \A r \in Tunnels : rows'[r].status = rows[r].status /\ rows'[r].user = rows[r].user
      BY <1>0, <1>10 DEF ThirtyMinutesPass, TypeOK, Rows
    <2>2. OpenOf(U)' \subseteq OpenOf(U)
      BY <2>1 DEF OpenOf, Open
    <2>. QED  BY <1>10, <2>2, FitsClose DEF ThirtyMinutesPass
  <1>11. ASSUME NEW t \in Tunnels, CloseRead(t) \/ CloseUpdate(t) \/ CleanupCheck(t) PROVE Goal
    BY <1>9, <1>11 DEF CloseRead, CloseUpdate, CleanupCheck
  <1>12. ASSUME CleanupSelect \/ CleanupClose \/ CleanupExpire PROVE Goal
    BY <1>9, <1>12 DEF CleanupSelect, CleanupClose, CleanupExpire
  <1>13. ASSUME NEW p \in Probes, Connect(p) \/ Breaks(p) \/ ServerNoticesBreak(p) PROVE Goal
    BY <1>9, <1>13 DEF Connect, Breaks, ServerNoticesBreak
  <1>14. ASSUME ServerRestart PROVE Goal
    BY <1>14, FitsRestart
  <1>15. ASSUME UNCHANGED vars PROVE Goal
    BY <1>9, <1>15 DEF vars
  <1>. QED
    BY <1>1, <1>4, <1>5, <1>6, <1>7, <1>8, <1>10, <1>11, <1>12, <1>13, <1>14, <1>15
    DEF Next, Continue, Cleanup

LEMMA FitsInit == ASSUME Init, NEW U, NEW Q \in Before, NEW max \in Nat \ {0}
                  PROVE  Fits(U, Q, max)
  <1>1. Held(U) = {} /\ Counted(U, Q) = {}
    BY DEF Init, Held, OpenOf, Open, OpenStatuses, NoRow, Counted, IdleCall, Before
  <1>2. Cardinality(Calls) \in Nat
    BY FiniteAssumption, FS_CardinalityType
  <1>. QED  BY <1>1, <1>2, FS_EmptySet DEF Fits

-----------------------------------------------------------------------------

FitsUser == \A u \in Users : Fits({u}, {"idle"}, MaxPerUser)
FitsTenant == Fits(Users, {"idle", "tenant"}, MaxPerTenant)

LEMMA BoundOfFits ==
    ASSUME OwnInv, NEW U, NEW Q \in Before, NEW max \in Nat, Fits(U, Q, max)
    PROVE  Cardinality(OpenOf(U)) <= max + Cardinality(Calls) - 1
  <1>1. /\ Cardinality(Held(U)) \in Nat /\ Cardinality(Counted(U, Q)) \in Nat
        /\ Cardinality(OpenOf(U)) \in Nat /\ Cardinality(Calls) \in Nat
    BY Finite
  <1>. QED  BY <1>1, OpenBound DEF Fits

\* However openings, closings, the job and restarts interleave, a user goes
\* beyond MAX_TUNNELS_PER_USER by no more tunnels than other calls overlap.
THEOREM UserLimited == Spec => []UserLimit
  <1>. USE LimitsAssumption
  <1>1. Init => FitsUser
    BY FitsInit DEF FitsUser, Before
  <1>2. OwnInv /\ FitsUser /\ [Next]_vars => FitsUser'
    <2>. SUFFICES ASSUME OwnInv, FitsUser, [Next]_vars, NEW u \in Users
                  PROVE  Fits({u}, {"idle"}, MaxPerUser)'
      BY DEF FitsUser
    <2>1. \A c \in Calls, v \in Users :
             CountUser(c, v) => v \notin {u} \/ Cardinality(OpenOf({u})) < MaxPerUser
      BY DEF CountUser
    <2>2. {"idle"} \in Before /\ "tenant" \notin {"idle"} /\ Fits({u}, {"idle"}, MaxPerUser)
      BY DEF Before, FitsUser
    <2>. QED  BY <2>1, <2>2, FitsStep
  <1>3. OwnInv /\ FitsUser => UserLimit
    BY BoundOfFits DEF FitsUser, UserLimit, Before
  <1>. QED  BY <1>1, <1>2, <1>3, OwnCorrect, PTL DEF Spec

\* ... and so for the tenant and MAX_TUNNELS_PER_TENANT.
THEOREM TenantLimited == Spec => []TenantLimit
  <1>. USE LimitsAssumption
  <1>1. Init => FitsTenant
    BY FitsInit DEF FitsTenant, Before
  <1>2. OwnInv /\ FitsTenant /\ [Next]_vars => FitsTenant'
    <2>. SUFFICES ASSUME OwnInv, FitsTenant, [Next]_vars PROVE FitsTenant'
      OBVIOUS
    <2>1. \A c \in Calls :
             CountTenant(c) => Free(c) \/ Cardinality(OpenOf(Users)) < MaxPerTenant
      BY DEF CountTenant
    <2>2. {"idle", "tenant"} \in Before /\ Fits(Users, {"idle", "tenant"}, MaxPerTenant)
      BY DEF Before, FitsTenant
    <2>. QED  BY <2>1, <2>2, FitsStep DEF FitsTenant
  <1>3. OwnInv /\ FitsTenant => TenantLimit
    BY BoundOfFits DEF FitsTenant, TenantLimit, Before
  <1>. QED  BY <1>1, <1>2, <1>3, OwnCorrect, PTL DEF Spec

=============================================================================
