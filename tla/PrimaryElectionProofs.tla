------------------------ MODULE PrimaryElectionProofs ------------------------
(***************************************************************************)
(* Proofs about PrimaryElection, for any sets of probes, sites and calls:  *)
(* while calls come one at a time and no primary is moved, a site has one  *)
(* primary at most, and no push of an approved probe leaves it without.    *)
(***************************************************************************)
EXTENDS PrimaryElection, TLAPS

-----------------------------------------------------------------------------
(* Type correctness.                                                       *)

\* The ids that the calls under way hold are ids of probes.
PushIds ==
    \A h \in Pushes :
        /\ pushes[h].pc # "free" => pushes[h].id \in Probes
        /\ pushes[h].pc = "demote" => pushes[h].rival \in Probes
EditIds ==
    \A e \in Edits :
        edits[e].pc \in {"read", "demote", "patch"} => edits[e].id \in Probes

TypeInv == TypeOK /\ PushIds /\ EditIds

LEMMA TypeInit == Init => TypeInv
  <1>. SUFFICES ASSUME Init PROVE TypeInv
    OBVIOUS
  <1>1. probes \in [Probes -> Rows] /\ sites \subseteq Sites /\ off \subseteq Probes
    BY DEF Init
  <1>2. pushes \in [Pushes -> PushStates] /\ PushIds
    BY DEF Init, PushStates, FreeSlot, PushIds
  <1>3. edits \in [Edits -> EditStates] /\ EditIds
    BY DEF Init, EditStates, NotMade, EditIds
  <1>. QED  BY <1>1, <1>2, <1>3 DEF TypeInv, TypeOK

LEMMA UpdateTyped ==
    ASSUME TypeOK, NEW p \in Probes, NEW row \in Rows, Update(p, row)
    PROVE  probes' \in [Probes -> Rows]
  BY DEF TypeOK, Update

LEMMA TypeStep == TypeInv /\ [Next]_vars => TypeInv'
  <1>. SUFFICES ASSUME TypeInv, [Next]_vars PROVE TypeInv'
    OBVIOUS
  <1>. USE DEF TypeInv
  <1>0. \A p \in Probes :
           /\ probes[p].status \in {"unborn", "pending", "approved", "refused", "deleted"}
           /\ probes[p].site \in Sites \cup {None}
           /\ probes[p] \in Rows
    BY DEF TypeOK, Rows
  <1>1. ASSUME NEW p \in Probes, Register(p) PROVE TypeInv'
    <2>1. probes' \in [Probes -> Rows]
      BY <1>1 DEF Register, TypeOK, Rows, Unborn
    <2>. QED  BY <1>1, <2>1 DEF Register, TypeOK, PushIds, EditIds
  <1>2. ASSUME NEW p \in Probes, NEW h \in Pushes, PushLookup(h, p) PROVE TypeInv'
    <2>1. pushes' \in [Pushes -> PushStates]
      BY <1>2 DEF PushLookup, TypeOK, PushStates, FreeSlot
    <2>2. PushIds'
      BY <1>2 DEF PushLookup, TypeOK, PushIds, FreeSlot
    <2>. QED  BY <1>2, <2>1, <2>2 DEF PushLookup, TypeOK, EditIds
  <1>3. ASSUME NEW h \in Pushes, PushRefresh(h) PROVE TypeInv'
    <2>1. pushes[h].id \in Probes
      BY <1>3 DEF PushRefresh, At, PushIds
    <2>2. [probes[pushes[h].id] EXCEPT !.seen = "lately"] \in Rows
      BY <1>0, <2>1 DEF Rows
    <2>3. probes' \in [Probes -> Rows]
      BY <1>3, <2>1, <2>2, UpdateTyped DEF PushRefresh
    <2>4. pushes' \in [Pushes -> PushStates] /\ PushIds'
      BY <1>3 DEF PushRefresh, Goto, At, TypeOK, PushStates, PushIds
    <2>. QED  BY <1>3, <2>3, <2>4 DEF PushRefresh, TypeOK, EditIds
  <1>4. ASSUME NEW h \in Pushes, PushReread(h) PROVE TypeInv'
    <2>1. pushes[h].id \in Probes
      BY <1>4 DEF PushReread, At, PushIds
    <2>2. pushes' \in [Pushes -> PushStates] /\ PushIds'
      <3>1. CASE Stands(pushes[h].id)
        BY <1>0, <1>4, <2>1, <3>1 DEF PushReread, At, TypeOK, PushStates, PushIds
      <3>2. CASE ~Stands(pushes[h].id)
        BY <1>4, <3>2 DEF PushReread, At, Free, FreeSlot, TypeOK, PushStates, PushIds
      <3>. QED  BY <3>1, <3>2
    <2>. QED  BY <1>4, <2>2 DEF PushReread, TypeOK, EditIds
  <1>5. ASSUME NEW h \in Pushes, PushFindsNone(h) PROVE TypeInv'
    <2>1. pushes' \in [Pushes -> PushStates] /\ PushIds'
      BY <1>5 DEF PushFindsNone, Goto, At, TypeOK, PushStates, PushIds
    <2>. QED  BY <1>5, <2>1 DEF PushFindsNone, TypeOK, EditIds
  <1>6. ASSUME NEW h \in Pushes, NEW q \in Probes, PushFinds(h, q) PROVE TypeInv'
    <2>1. pushes' \in [Pushes -> PushStates] /\ PushIds'
      <3>. DEFINE over == [pushes EXCEPT ![h].pc = "demote", ![h].rival = q]
                  done == [pushes EXCEPT ![h] = FreeSlot]
      <3>1. pushes' = over \/ pushes' = done
        BY <1>6 DEF PushFinds, Free
      <3>2. pushes[h].id \in Probes
        BY <1>6 DEF PushFinds, At, PushIds
      <3>3. ASSUME pushes' = over PROVE pushes' \in [Pushes -> PushStates] /\ PushIds'
        <4>1. [pushes[h] EXCEPT !.pc = "demote", !.rival = q] \in PushStates
          BY DEF TypeOK, PushStates
        <4>2. pushes' = [pushes EXCEPT ![h] = [pushes[h] EXCEPT !.pc = "demote", !.rival = q]]
          BY <3>3
        <4>3. pushes' \in [Pushes -> PushStates]
          BY <4>1, <4>2 DEF TypeOK
        <4>4. pushes'[h].id = pushes[h].id /\ pushes'[h].rival = q
          BY <4>2 DEF TypeOK, PushStates
        <4>5. \A k \in Pushes \ {h} : pushes'[k] = pushes[k]
          BY <4>2 DEF TypeOK
        <4>6. PushIds'
          BY <3>2, <4>4, <4>5 DEF PushIds
        <4>. QED  BY <4>3, <4>6
      <3>4. ASSUME pushes' = done PROVE pushes' \in [Pushes -> PushStates] /\ PushIds'
        BY <3>4 DEF FreeSlot, TypeOK, PushStates, PushIds
      <3>. QED  BY <3>1, <3>3, <3>4
    <2>. QED  BY <1>6, <2>1 DEF PushFinds, TypeOK, EditIds
  <1>7. ASSUME NEW h \in Pushes, PushDemote(h) PROVE TypeInv'
    <2>1. pushes[h].rival \in Probes
      BY <1>7 DEF PushDemote, At, PushIds
    <2>2. [probes[pushes[h].rival] EXCEPT !.primary = FALSE] \in Rows
      BY <1>0, <2>1 DEF Rows
    <2>3. probes' \in [Probes -> Rows]
      BY <1>7, <2>1, <2>2, UpdateTyped DEF PushDemote
    <2>4. pushes' \in [Pushes -> PushStates] /\ PushIds'
      BY <1>7 DEF PushDemote, Goto, At, TypeOK, PushStates, PushIds
    <2>. QED  BY <1>7, <2>3, <2>4 DEF PushDemote, TypeOK, EditIds
  <1>8. ASSUME NEW h \in Pushes, PushPromote(h) PROVE TypeInv'
    <2>1. pushes[h].id \in Probes
      BY <1>8 DEF PushPromote, At, PushIds
    <2>2. [probes[pushes[h].id] EXCEPT !.primary = TRUE] \in Rows
      BY <1>0, <2>1 DEF Rows
    <2>3. probes' \in [Probes -> Rows]
      BY <1>8, <2>1, <2>2, UpdateTyped DEF PushPromote
    <2>4. pushes' \in [Pushes -> PushStates] /\ PushIds'
      BY <1>8 DEF PushPromote, Free, FreeSlot, TypeOK, PushStates, PushIds
    <2>. QED  BY <1>8, <2>3, <2>4 DEF PushPromote, TypeOK, EditIds
  <1>9. ASSUME NEW e \in Edits, NEW p \in Probes, NEW s, NEW f, UpdateProbe(e, p, s, f)
        PROVE  TypeInv'
    <2>1. edits' \in [Edits -> EditStates] /\ EditIds'
      BY <1>9 DEF UpdateProbe, TypeOK, EditStates, EditIds
    <2>. QED  BY <1>9, <2>1 DEF UpdateProbe, TypeOK, PushIds
  <1>10. ASSUME NEW e \in Edits, UpdateRead(e) PROVE TypeInv'
    <2>1. edits[e].id \in Probes
      BY <1>10 DEF UpdateRead, EditAt, EditIds
    <2>. DEFINE s == probes[edits[e].id].site
                pc == IF s = None THEN "patch" ELSE "demote"
    <2>2. s \in Sites \cup {None} /\ pc \in {"patch", "demote"}
      BY <1>0, <2>1
    <2>4. edits' = [edits EXCEPT ![e].pc = pc, ![e].old = s]
      BY <1>10 DEF UpdateRead
    <2>. HIDE DEF pc, s
    <2>3. edits' \in [Edits -> EditStates] /\ EditIds'
      <3>1. [edits[e] EXCEPT !.pc = pc, !.old = s] \in EditStates
        BY <2>2 DEF TypeOK, EditStates
      <3>2. edits' = [edits EXCEPT ![e] = [edits[e] EXCEPT !.pc = pc, !.old = s]]
        BY <2>4
      <3>3. edits' \in [Edits -> EditStates]
        BY <3>1, <3>2 DEF TypeOK
      <3>4. edits'[e].id = edits[e].id
        BY <3>2 DEF TypeOK, EditStates
      <3>5. EditIds'
        BY <2>1, <3>2, <3>4 DEF TypeOK, EditIds
      <3>. QED  BY <3>3, <3>5
    <2>. QED  BY <1>10, <2>3 DEF UpdateRead, TypeOK, PushIds
  <1>11. ASSUME NEW e \in Edits, UpdateDemoteOthers(e) PROVE TypeInv'
    <2>1. probes' \in [Probes -> Rows]
      BY <1>0, <1>11 DEF UpdateDemoteOthers, Rows
    <2>2. edits' \in [Edits -> EditStates] /\ EditIds'
      BY <1>11 DEF UpdateDemoteOthers, EditAt, TypeOK, EditStates, EditIds
    <2>. QED  BY <1>11, <2>1, <2>2 DEF UpdateDemoteOthers, TypeOK, PushIds
  <1>12. ASSUME NEW e \in Edits, UpdatePatch(e) PROVE TypeInv'
    <2>1. edits[e].id \in Probes /\ edits[e] \in EditStates
      BY <1>12 DEF UpdatePatch, EditAt, EditIds, TypeOK
    <2>2. probes' \in [Probes -> Rows]
      <3>1. CASE Refused(e)  BY <1>12, <3>1 DEF UpdatePatch, TypeOK
      <3>2. CASE ~Refused(e)
        <4>. DEFINE u == edits[e]
                    s == IF u.site = "same" THEN probes[u.id].site ELSE u.site
                    f == IF u.primary = "same" THEN probes[u.id].primary
                         ELSE u.primary = "yes"
                    row == [probes[u.id] EXCEPT !.site = s, !.primary = f]
        <4>2. Update(u.id, row)  BY <1>12, <3>2 DEF UpdatePatch
        <4>3. probes[u.id] \in Rows  BY <2>1 DEF TypeOK
        <4>4. s \in Sites \cup {None}  BY <2>1, <4>3 DEF Rows, EditStates
        <4>5. f \in BOOLEAN  BY <2>1, <4>3 DEF Rows, EditStates
        <4>. HIDE DEF s, f
        <4>1. row \in Rows  BY <4>3, <4>4, <4>5 DEF Rows
        <4>. QED  BY <2>1, <4>1, <4>2, UpdateTyped
      <3>. QED  BY <3>1, <3>2
    <2>3. edits' \in [Edits -> EditStates] /\ EditIds'
      BY <1>12 DEF UpdatePatch, Made, NotMade, TypeOK, EditStates, EditIds
    <2>. QED  BY <1>12, <2>2, <2>3 DEF UpdatePatch, TypeOK, PushIds
  <1>13. ASSUME NEW e \in Edits, edits' = [edits EXCEPT ![e] = Made],
                probes' \in [Probes -> Rows], sites' \subseteq Sites,
                UNCHANGED <<off, pushes>>
         PROVE  TypeInv'
    <2>1. edits' \in [Edits -> EditStates] /\ EditIds'
      BY <1>13 DEF Made, NotMade, TypeOK, EditStates, EditIds
    <2>. QED  BY <1>13, <2>1 DEF TypeOK, PushIds
  <1>14. ASSUME NEW e \in Edits, NEW p \in Probes, NEW status, Decide(e, p, status)
         PROVE  TypeInv'
    <2>1. probes' \in [Probes -> Rows]
      BY <1>14, <1>0 DEF Decide, TypeOK, Rows
    <2>. QED  BY <1>13, <1>14, <2>1 DEF Decide, TypeOK
  <1>15. ASSUME NEW e \in Edits, NEW p \in Probes, DeleteProbe(e, p) PROVE TypeInv'
    <2>1. probes' \in [Probes -> Rows]
      BY <1>15 DEF DeleteProbe, TypeOK, Rows, Unborn
    <2>. QED  BY <1>13, <1>15, <2>1 DEF DeleteProbe, TypeOK
  <1>16. ASSUME NEW e \in Edits, NEW s \in Sites, DeleteSite(e, s) PROVE TypeInv'
    <2>1. probes' \in [Probes -> Rows]
      BY <1>16, <1>0 DEF DeleteSite, Rows
    <2>. QED  BY <1>13, <1>16, <2>1 DEF DeleteSite, TypeOK
  <1>17. ASSUME NEW p \in Probes, FiveMinutesPass(p) PROVE TypeInv'
    <2>1. probes' \in [Probes -> Rows]
      BY <1>17, <1>0 DEF FiveMinutesPass, TypeOK, Rows
    <2>. QED  BY <1>17, <2>1 DEF FiveMinutesPass, TypeOK, PushIds, EditIds
  <1>18. ASSUME NEW p \in Probes, SwitchOff(p) PROVE TypeInv'
    BY <1>18 DEF SwitchOff, TypeOK, PushIds, EditIds
  <1>19. CASE UNCHANGED vars
    BY <1>19 DEF vars, TypeOK, PushIds, EditIds
  <1>. QED
    BY <1>1, <1>2, <1>3, <1>4, <1>5, <1>6, <1>7, <1>8, <1>9, <1>10, <1>11, <1>12,
       <1>14, <1>15, <1>16, <1>17, <1>18, <1>19
       DEF Next, HandlePush, HandleUpdate, Request, Around

\* Every variable keeps its type, whatever calls interleave.
THEOREM TypeCorrect == Spec => []TypeOK
  <1>1. TypeInv => TypeOK  BY DEF TypeInv
  <1>. QED  BY TypeInit, TypeStep, <1>1, PTL DEF Spec

-----------------------------------------------------------------------------
(* One primary, while calls come one at a time.                            *)

\* A probe that is not in the table has neither site nor role.
RowInv == \A p \in Probes : ~Listed(p) => ~probes[p].primary /\ probes[p].site = None

Quiet(e) == EditAt(e, "idle") \/ EditAt(e, "done")

\* At most one call is under way.
Alone ==
    /\ \A h, k \in Pushes : ~At(h, "free") /\ ~At(k, "free") => h = k
    /\ \A h \in Pushes, e \in Edits : ~At(h, "free") => Quiet(e)
    /\ \A e, f \in Edits : ~Quiet(e) /\ ~Quiet(f) => e = f

\* What a push has read still holds, and what is yet to come is right: a
\* takeover is from the only primary, a promotion is of the first.
PushStage(h) ==
    LET c == pushes[h]
    IN /\ c.pc \in {"free", "refresh", "reread"} => c.site = None
       /\ c.pc \in {"query", "demote", "promote"} =>
              c.site # None /\ probes[c.id].site = c.site
       /\ c.pc = "demote" => c.rival \in PrimariesOf(c.site)
       /\ c.pc = "promote" => PrimariesOf(c.site) = {}

\* So does what an update has read; once it has demoted the others, the probe
\* it promotes is alone.
EditStage(e) ==
    LET u == edits[e]
    IN /\ u.pc = "demote" => u.old # None /\ probes[u.id].site = u.old
       /\ u.pc = "patch" /\ u.primary = "yes" /\ probes[u.id].site # None =>
              PrimariesOf(probes[u.id].site) \subseteq {u.id}

CarefulInv ==
    /\ TypeInv /\ OnePrimary /\ RowInv /\ Alone
    /\ \A h \in Pushes : PushStage(h)
    /\ \A e \in Edits : EditStage(e)

LEMMA CarefulInit == Init => CarefulInv
  <1>. SUFFICES ASSUME Init PROVE CarefulInv
    OBVIOUS
  <1>1. \A p \in Probes : /\ ~probes[p].primary
                          /\ probes[p].status \in {"unborn", "deleted"} => probes[p].site = None
    BY DEF Init, Rows
  <1>2. \A h \in Pushes : pushes[h].pc = "free" /\ pushes[h].site = None
    BY DEF Init, FreeSlot
  <1>3. \A e \in Edits : edits[e].pc = "idle"
    BY DEF Init, NotMade
  <1>4. OnePrimary  BY <1>1 DEF OnePrimary
  <1>5. RowInv  BY <1>1 DEF RowInv, Listed
  <1>6. Alone  BY <1>2, <1>3 DEF Alone, At, EditAt, Quiet
  <1>7. \A h \in Pushes : PushStage(h)  BY <1>2 DEF PushStage
  <1>8. \A e \in Edits : EditStage(e)  BY <1>3 DEF EditStage
  <1>. QED  BY <1>4, <1>5, <1>6, <1>7, <1>8, TypeInit DEF CarefulInv

\* A step of the push h leaves the other calls alone, none of which is under way.
LEMMA PushAlone ==
    ASSUME TypeInv, Alone, NEW h \in Pushes, ~At(h, "free"),
           \A k \in Pushes \ {h} : pushes'[k] = pushes[k], UNCHANGED edits,
           \A k \in Pushes : PushStage(k), PushStage(h)'
    PROVE  /\ Alone'
           /\ \A k \in Pushes : PushStage(k)'
           /\ \A e \in Edits : EditStage(e)'
  <1>1. \A k \in Pushes \ {h} : pushes'[k].pc = "free" /\ pushes'[k].site = None
    BY DEF Alone, At, PushStage
  <1>2. \A e \in Edits : edits'[e].pc \in {"idle", "done"}
    BY DEF Alone, Quiet, EditAt
  <1>3. Alone'  BY <1>1, <1>2 DEF Alone, At, Quiet, EditAt
  <1>4. ASSUME NEW k \in Pushes, k # h PROVE PushStage(k)'
    BY <1>1, <1>4 DEF PushStage
  <1>5. ASSUME NEW e \in Edits PROVE EditStage(e)'
    BY <1>2, <1>5 DEF EditStage
  <1>. QED  BY <1>3, <1>4, <1>5

\* ... and so does a step of the request e.
LEMMA EditAlone ==
    ASSUME TypeInv, Alone, NEW e \in Edits, ~Quiet(e) \/ Settled,
           \A f \in Edits \ {e} : edits'[f] = edits[f], UNCHANGED pushes,
           \A k \in Pushes : PushStage(k), EditStage(e)'
    PROVE  /\ Alone'
           /\ \A k \in Pushes : PushStage(k)'
           /\ \A f \in Edits : EditStage(f)'
  <1>1. \A k \in Pushes : pushes'[k].pc = "free" /\ pushes'[k].site = None
    BY DEF Alone, At, PushStage, Settled
  <1>2. \A f \in Edits \ {e} : edits'[f].pc \in {"idle", "done"}
    BY DEF Alone, Quiet, EditAt, Settled
  <1>3. Alone'  BY <1>1, <1>2 DEF Alone, At, Quiet, EditAt
  <1>4. ASSUME NEW k \in Pushes PROVE PushStage(k)'
    BY <1>1, <1>4 DEF PushStage
  <1>5. ASSUME NEW f \in Edits, f # e PROVE EditStage(f)'
    BY <1>2, <1>5 DEF EditStage
  <1>. QED  BY <1>3, <1>4, <1>5

\* What the other steps change of a row, the stages do not read.
LEMMA RowsAlone ==
    ASSUME TypeInv, UNCHANGED <<pushes, edits>>,
           \A k \in Probes : probes'[k].primary = probes[k].primary,
           \A k \in Probes : probes'[k].site = probes[k].site,
           Alone, \A k \in Pushes : PushStage(k), \A e \in Edits : EditStage(e)
    PROVE  /\ Alone'
           /\ \A k \in Pushes : PushStage(k)'
           /\ \A e \in Edits : EditStage(e)'
  <1>1. \A s : PrimariesOf(s)' = PrimariesOf(s)
    BY DEF PrimariesOf
  <1>2. Alone'  BY DEF Alone, At, Quiet, EditAt
  <1>3. ASSUME NEW k \in Pushes PROVE PushStage(k)'
    <2>1. pushes[k].pc # "free" => pushes[k].id \in Probes
      BY DEF TypeInv, PushIds
    <2>. QED  BY <1>1, <2>1 DEF PushStage
  <1>4. ASSUME NEW e \in Edits PROVE EditStage(e)'
    <2>1. edits[e].pc \in {"demote", "patch"} => edits[e].id \in Probes
      BY DEF TypeInv, EditIds
    <2>. QED  BY <1>1, <2>1 DEF EditStage
  <1>. QED  BY <1>2, <1>3, <1>4

LEMMA RolesKept ==
    ASSUME OnePrimary, RowInv,
           \A k \in Probes : probes'[k].primary = probes[k].primary,
           \A k \in Probes : probes'[k].site = probes[k].site,
           \A k \in Probes : Listed(k) => Listed(k)'
    PROVE  OnePrimary' /\ RowInv'
  BY DEF OnePrimary, RowInv

LEMMA CarefulIsNext == [CarefulNext]_vars => [Next]_vars
  BY DEF CarefulNext, SerialNext, Next

\* The steps of a push.
LEMMA CarefulPush ==
    ASSUME CarefulInv, TypeInv', NEW h \in Pushes, HandlePush(h)
    PROVE  CarefulInv'
  <1>. USE DEF CarefulInv
  <1>0. /\ pushes \in [Pushes -> PushStates] /\ probes \in [Probes -> Rows]
        /\ PushStage(h)
    BY DEF TypeInv, TypeOK
  <1>1. CASE PushRefresh(h)
    <2>. DEFINE p == pushes[h].id
    <2>1. p \in Probes  BY <1>1 DEF PushRefresh, At, TypeInv, PushIds
    <2>2. /\ \A k \in Probes : probes'[k].primary = probes[k].primary
          /\ \A k \in Probes : probes'[k].site = probes[k].site
          /\ \A k \in Probes : probes'[k].status = probes[k].status
      BY <1>0, <1>1, <2>1 DEF PushRefresh, Update, Rows
    <2>3. OnePrimary' /\ RowInv'
      BY <2>2, RolesKept DEF Listed
    <2>4. ~At(h, "free") /\ PushStage(h)'
      BY <1>0, <1>1 DEF PushRefresh, Goto, At, PushStates, PushStage
    <2>5. \A k \in Pushes \ {h} : pushes'[k] = pushes[k]
      BY <1>0, <1>1 DEF PushRefresh, Goto
    <2>6. UNCHANGED edits  BY <1>1 DEF PushRefresh
    <2>. QED  BY <2>3, <2>4, <2>5, <2>6, PushAlone
  <1>2. CASE PushReread(h)
    <2>. DEFINE p == pushes[h].id
    <2>1. p \in Probes  BY <1>2 DEF PushReread, At, TypeInv, PushIds
    <2>2. UNCHANGED <<probes, edits>>  BY <1>2 DEF PushReread
    <2>3. OnePrimary' /\ RowInv'  BY <2>2 DEF OnePrimary, RowInv, Listed
    <2>4. PushStage(h)'
      <3>1. CASE Stands(p)
        <4>1. /\ pushes'[h].pc = "query" /\ pushes'[h].id = p
              /\ pushes'[h].site = probes[p].site
          BY <1>0, <1>2, <3>1 DEF PushReread, PushStates
        <4>. QED  BY <2>2, <3>1, <4>1 DEF PushStage, Stands
      <3>2. CASE ~Stands(p)
        BY <1>0, <1>2, <3>2 DEF PushReread, Free, FreeSlot, PushStage
      <3>. QED  BY <3>1, <3>2
    <2>5. ~At(h, "free") /\ \A k \in Pushes \ {h} : pushes'[k] = pushes[k]
      BY <1>0, <1>2 DEF PushReread, Free, At
    <2>. QED  BY <2>2, <2>3, <2>4, <2>5, PushAlone
  <1>3. CASE PushFindsNone(h)
    <2>1. UNCHANGED <<probes, edits>>  BY <1>3 DEF PushFindsNone
    <2>2. OnePrimary' /\ RowInv'  BY <2>1 DEF OnePrimary, RowInv, Listed
    <2>3. /\ pushes'[h].pc = "promote" /\ pushes'[h].id = pushes[h].id
          /\ pushes'[h].site = pushes[h].site /\ pushes[h].pc = "query"
          /\ PrimariesOf(pushes[h].site) = {}
          /\ \A k \in Pushes \ {h} : pushes'[k] = pushes[k]
      BY <1>0, <1>3 DEF PushFindsNone, Goto, At, PushStates
    <2>4. PrimariesOf(pushes[h].site)' = {}
      BY <2>1, <2>3 DEF PrimariesOf
    <2>5. PushStage(h)'
      BY <1>0, <2>1, <2>3, <2>4 DEF PushStage
    <2>6. ~At(h, "free")  BY <2>3 DEF At
    <2>. QED  BY <2>1, <2>2, <2>3, <2>5, <2>6, PushAlone
  <1>4. ASSUME NEW q \in Probes, PushFinds(h, q) PROVE CarefulInv'
    <2>1. UNCHANGED <<probes, edits>>  BY <1>4 DEF PushFinds
    <2>2. OnePrimary' /\ RowInv'  BY <2>1 DEF OnePrimary, RowInv, Listed
    <2>3. /\ pushes[h].pc = "query" /\ q \in PrimariesOf(pushes[h].site)
          /\ \A k \in Pushes \ {h} : pushes'[k] = pushes[k]
      BY <1>0, <1>4 DEF PushFinds, Free, At
    <2>4. \A s : PrimariesOf(s)' = PrimariesOf(s)
      BY <2>1 DEF PrimariesOf
    <2>5. PushStage(h)'
      <3>1. CASE q # pushes[h].id /\ probes[q].seen = "long ago"
        <4>2. pushes' = [pushes EXCEPT ![h] = [pushes[h] EXCEPT !.pc = "demote", !.rival = q]]
          BY <1>4, <3>1 DEF PushFinds
        <4>3. pushes[h] \in PushStates  BY <1>0
        <4>4. pushes'[h] = [pushes[h] EXCEPT !.pc = "demote", !.rival = q]
          BY <1>0, <4>2
        <4>1. /\ pushes'[h].pc = "demote" /\ pushes'[h].id = pushes[h].id
              /\ pushes'[h].site = pushes[h].site /\ pushes'[h].rival = q
          BY <4>3, <4>4 DEF PushStates
        <4>. QED  BY <1>0, <2>1, <2>3, <2>4, <4>1 DEF PushStage
      <3>2. CASE ~(q # pushes[h].id /\ probes[q].seen = "long ago")
        <4>1. pushes' = [pushes EXCEPT ![h] = FreeSlot]
          BY <1>4, <3>2 DEF PushFinds, Free
        <4>. QED  BY <1>0, <4>1 DEF FreeSlot, PushStage
      <3>. QED  BY <3>1, <3>2
    <2>6. ~At(h, "free")  BY <2>3 DEF At
    <2>. QED  BY <2>1, <2>2, <2>3, <2>5, <2>6, PushAlone
  <1>5. CASE PushDemote(h)
    <2>. DEFINE q == pushes[h].rival
                s == pushes[h].site
    <2>1. /\ pushes[h].pc = "demote" /\ q \in Probes
          /\ q \in PrimariesOf(s) /\ s # None /\ probes[pushes[h].id].site = s
          /\ pushes[h].id \in Probes
      BY <1>0, <1>5 DEF PushDemote, At, TypeInv, PushIds, PushStage
    <2>2. Listed(q)  BY <2>1 DEF PrimariesOf, RowInv
    <2>3. \A k \in Probes : /\ probes'[k].primary = (IF k = q THEN FALSE ELSE probes[k].primary)
                            /\ probes'[k].site = probes[k].site
                            /\ probes'[k].status = probes[k].status
      <3>1. probes' = [probes EXCEPT ![q] = [probes[q] EXCEPT !.primary = FALSE]]
        BY <1>5, <2>2 DEF PushDemote, Update
      <3>2. probes[q] \in Rows /\ probes'[q] = [probes[q] EXCEPT !.primary = FALSE]
        BY <1>0, <2>1, <3>1
      <3>3. /\ probes'[q].primary = FALSE /\ probes'[q].site = probes[q].site
            /\ probes'[q].status = probes[q].status
        BY <3>2 DEF Rows
      <3>4. \A k \in Probes \ {q} : probes'[k] = probes[k]
        BY <1>0, <3>1
      <3>. QED  BY <3>3, <3>4
    <2>10. \A k \in Probes : probes'[k].primary => probes[k].primary
      BY <2>3
    <2>11. OnePrimary'
      BY <2>3, <2>10 DEF OnePrimary
    <2>12. RowInv'
      BY <2>3, <2>10 DEF RowInv, Listed
    <2>4. OnePrimary' /\ RowInv'
      BY <2>11, <2>12
    <2>5. ASSUME NEW k \in Probes, probes'[k].primary, probes'[k].site = s PROVE FALSE
      <3>1. k # q /\ probes[k].primary /\ probes[k].site = s  BY <2>3, <2>5
      <3>2. probes[q].primary /\ probes[q].site = s  BY <2>1 DEF PrimariesOf
      <3>. QED  BY <2>1, <3>1, <3>2 DEF OnePrimary
    <2>6. /\ pushes'[h].pc = "promote" /\ pushes'[h].id = pushes[h].id
          /\ pushes'[h].site = s
          /\ \A k \in Pushes \ {h} : pushes'[k] = pushes[k]
      BY <1>0, <1>5 DEF PushDemote, Goto, PushStates
    <2>7. PrimariesOf(pushes[h].site)' = {}
      BY <2>5, <2>6 DEF PrimariesOf
    <2>8. PushStage(h)'
      BY <2>1, <2>3, <2>6, <2>7 DEF PushStage
    <2>9. ~At(h, "free") /\ UNCHANGED edits  BY <1>5, <2>1 DEF At, PushDemote
    <2>. QED  BY <2>4, <2>6, <2>8, <2>9, PushAlone
  <1>6. CASE PushPromote(h)
    <2>. DEFINE p == pushes[h].id
                s == pushes[h].site
    <2>1. /\ pushes[h].pc = "promote" /\ p \in Probes
          /\ PrimariesOf(s) = {} /\ s # None /\ probes[p].site = s
      BY <1>0, <1>6 DEF PushPromote, At, TypeInv, PushIds, PushStage
    <2>2. Listed(p)  BY <2>1 DEF RowInv
    <2>3. \A k \in Probes : /\ probes'[k].primary = (IF k = p THEN TRUE ELSE probes[k].primary)
                            /\ probes'[k].site = probes[k].site
                            /\ probes'[k].status = probes[k].status
      <3>1. probes' = [probes EXCEPT ![p] = [probes[p] EXCEPT !.primary = TRUE]]
        BY <1>6, <2>2 DEF PushPromote, Update
      <3>2. probes[p] \in Rows /\ probes'[p] = [probes[p] EXCEPT !.primary = TRUE]
        BY <1>0, <2>1, <3>1
      <3>3. /\ probes'[p].primary = TRUE /\ probes'[p].site = probes[p].site
            /\ probes'[p].status = probes[p].status
        BY <3>2 DEF Rows
      <3>4. \A k \in Probes \ {p} : probes'[k] = probes[k]
        BY <1>0, <3>1
      <3>. QED  BY <3>3, <3>4
    <2>4. \A k \in Probes : probes[k].primary => probes[k].site # s
      BY <2>1 DEF PrimariesOf
    <2>5. OnePrimary'
      <3>1. SUFFICES ASSUME NEW k \in Probes, NEW l \in Probes, k # l,
                            probes'[k].primary, probes'[l].primary,
                            probes'[k].site = probes'[l].site, probes'[k].site # None
                     PROVE  FALSE
        BY DEF OnePrimary
      <3>2. probes[k].site = probes[l].site /\ probes[k].site # None
        BY <2>3, <3>1
      <3>3. CASE k # p /\ l # p
        BY <2>3, <3>1, <3>2, <3>3 DEF OnePrimary
      <3>4. CASE k = p
        BY <2>1, <2>3, <2>4, <3>1, <3>2, <3>4
      <3>5. CASE l = p
        BY <2>1, <2>3, <2>4, <3>1, <3>2, <3>5
      <3>. QED  BY <3>3, <3>4, <3>5
    <2>6. RowInv'  BY <2>2, <2>3 DEF RowInv, Listed
    <2>7. /\ PushStage(h)' /\ ~At(h, "free") /\ UNCHANGED edits
          /\ \A k \in Pushes \ {h} : pushes'[k] = pushes[k]
      BY <1>0, <1>6, <2>1 DEF PushPromote, Free, FreeSlot, PushStage, At
    <2>. QED  BY <2>5, <2>6, <2>7, PushAlone
  <1>. QED  BY <1>1, <1>2, <1>3, <1>4, <1>5, <1>6 DEF HandlePush

\* The steps of an update that has started.
LEMMA CarefulUpdate ==
    ASSUME CarefulInv, TypeInv', NEW e \in Edits, HandleUpdate(e),
           \A p \in Probes : probes'[p].primary /\ probes'[p].site # None
                                => probes'[p].site = probes[p].site
    PROVE  CarefulInv'
  <1>. USE DEF CarefulInv
  <1>. DEFINE i == edits[e].id
  <1>0. /\ edits \in [Edits -> EditStates] /\ probes \in [Probes -> Rows]
        /\ EditStage(e)
    BY DEF TypeInv, TypeOK
  <1>1. CASE UpdateRead(e)
    <2>1. UNCHANGED <<probes, pushes>> /\ ~Quiet(e)
      BY <1>1 DEF UpdateRead, Quiet, EditAt
    <2>2. OnePrimary' /\ RowInv'  BY <2>1 DEF OnePrimary, RowInv, Listed
    <2>3. \A f \in Edits \ {e} : edits'[f] = edits[f]
      BY <1>0, <1>1 DEF UpdateRead
    <2>4. /\ edits'[e].id = i /\ edits'[e].old = probes[i].site
          /\ edits'[e].pc = IF probes[i].site = None THEN "patch" ELSE "demote"
      BY <1>0, <1>1 DEF UpdateRead, EditStates
    <2>5. EditStage(e)'
      BY <2>1, <2>4 DEF EditStage
    <2>. QED  BY <2>1, <2>2, <2>3, <2>5, EditAlone
  <1>2. CASE UpdateDemoteOthers(e)
    <2>1. /\ edits[e].pc = "demote" /\ i \in Probes /\ ~Quiet(e) /\ UNCHANGED pushes
          /\ probes[i].site = edits[e].old
      BY <1>0, <1>2 DEF UpdateDemoteOthers, EditAt, Quiet, EditStage, TypeInv, EditIds
    <2>2. \A k \in Probes :
             /\ probes'[k].primary => probes[k].primary
             /\ probes'[k].primary /\ probes[k].site = edits[e].old => k = i
             /\ probes'[k].site = probes[k].site
             /\ probes'[k].status = probes[k].status
      BY <1>0, <1>2 DEF UpdateDemoteOthers, Rows
    <2>3. OnePrimary' /\ RowInv'
      BY <2>2 DEF OnePrimary, RowInv, Listed
    <2>4. /\ edits'[e].pc = "patch" /\ edits'[e].id = i
          /\ \A f \in Edits \ {e} : edits'[f] = edits[f]
      BY <1>0, <1>2 DEF UpdateDemoteOthers, EditStates
    <2>5. PrimariesOf(probes[i].site)' \subseteq {i}
      BY <2>1, <2>2, <2>4 DEF PrimariesOf
    <2>6. EditStage(e)'
      BY <2>4, <2>5 DEF EditStage
    <2>. QED  BY <2>1, <2>3, <2>4, <2>6, EditAlone
  <1>3. CASE UpdatePatch(e)
    <2>1. /\ edits[e].pc = "patch" /\ i \in Probes /\ ~Quiet(e) /\ UNCHANGED pushes
      BY <1>3 DEF UpdatePatch, EditAt, Quiet, TypeInv, EditIds
    <2>2. edits' = [edits EXCEPT ![e] = Made]
      BY <1>3 DEF UpdatePatch
    <2>3. EditStage(e)' /\ \A f \in Edits \ {e} : edits'[f] = edits[f]
      BY <1>0, <2>2 DEF EditStage, Made, NotMade
    <2>4. CASE UNCHANGED probes
      <3>1. OnePrimary' /\ RowInv'  BY <2>4 DEF OnePrimary, RowInv, Listed
      <3>. QED  BY <2>1, <2>3, <3>1, EditAlone
    <2>5. CASE ~UNCHANGED probes
      <3>1. /\ Listed(i)
            /\ probes' = [probes EXCEPT ![i] = [probes[i] EXCEPT
                  !.site = IF edits[e].site = "same" THEN @ ELSE edits[e].site,
                  !.primary = IF edits[e].primary = "same" THEN @
                              ELSE edits[e].primary = "yes"]]
        BY <1>3, <2>5 DEF UpdatePatch, Update
      <3>2. \A k \in Probes \ {i} : probes'[k] = probes[k]
        BY <1>0, <3>1
      <3>3. /\ probes'[i].status = probes[i].status
            /\ probes'[i].primary => probes[i].primary \/ edits[e].primary = "yes"
        <4>1. probes[i] = [status |-> probes[i].status, site |-> probes[i].site,
                           primary |-> probes[i].primary, seen |-> probes[i].seen]
          BY <1>0, <2>1 DEF Rows
        <4>2. /\ probes'[i].status = probes[i].status
              /\ probes'[i].primary = IF edits[e].primary = "same" THEN probes[i].primary
                                      ELSE edits[e].primary = "yes"
          BY <1>0, <2>1, <3>1, <4>1
        <4>. QED  BY <4>2
      <3>4. ASSUME NEW k \in Probes \ {i}, probes[k].primary, probes'[i].primary,
                   probes[k].site = probes'[i].site, probes[k].site # None
            PROVE  FALSE
        <4>1. probes'[i].site = probes[i].site  BY <2>1, <3>4
        <4>2. CASE probes[i].primary
          BY <2>1, <3>4, <4>1, <4>2 DEF OnePrimary
        <4>3. CASE edits[e].primary = "yes"
          BY <1>0, <2>1, <3>4, <4>1, <4>3 DEF EditStage, PrimariesOf
        <4>. QED  BY <3>3, <3>4, <4>2, <4>3
      <3>5. OnePrimary'
        <4>1. SUFFICES ASSUME NEW k \in Probes, NEW l \in Probes, k # l,
                              probes'[k].primary, probes'[l].primary,
                              probes'[k].site = probes'[l].site, probes'[k].site # None
                       PROVE  FALSE
          BY DEF OnePrimary
        <4>2. CASE k # i /\ l # i
          BY <3>2, <4>1, <4>2 DEF OnePrimary
        <4>3. CASE k = i  BY <3>2, <3>4, <4>1, <4>3
        <4>4. CASE l = i  BY <3>2, <3>4, <4>1, <4>4
        <4>. QED  BY <4>2, <4>3, <4>4
      <3>6. RowInv'  BY <2>1, <3>1, <3>2, <3>3 DEF RowInv, Listed
      <3>. QED  BY <2>1, <2>3, <3>5, <3>6, EditAlone
    <2>. QED  BY <2>4, <2>5
  <1>. QED  BY <1>1, <1>2, <1>3 DEF HandleUpdate

\* The requests of one step, and an update's start.
LEMMA CarefulRequest ==
    ASSUME CarefulInv, TypeInv', NEW e \in Edits, Request(e), Settled
    PROVE  CarefulInv'
  <1>. USE DEF CarefulInv
  <1>0. edits \in [Edits -> EditStates] /\ probes \in [Probes -> Rows]
    BY DEF TypeInv, TypeOK
  <1>1. ASSUME NEW p \in Probes, NEW s, NEW f, UpdateProbe(e, p, s, f)
        PROVE  CarefulInv'
    <2>1. UNCHANGED <<probes, pushes>>  BY <1>1 DEF UpdateProbe
    <2>2. OnePrimary' /\ RowInv'  BY <2>1 DEF OnePrimary, RowInv, Listed
    <2>3. EditStage(e)' /\ \A k \in Edits \ {e} : edits'[k] = edits[k]
      BY <1>0, <1>1 DEF UpdateProbe, EditStage
    <2>. QED  BY <2>1, <2>2, <2>3, EditAlone
  <1>2. ASSUME edits' = [edits EXCEPT ![e] = Made], UNCHANGED pushes,
               OnePrimary', RowInv'
        PROVE  CarefulInv'
    <2>1. EditStage(e)' /\ \A k \in Edits \ {e} : edits'[k] = edits[k]
      BY <1>0, <1>2 DEF EditStage, Made, NotMade
    <2>. QED  BY <1>2, <2>1, EditAlone
  <1>3. ASSUME NEW p \in Probes, NEW status, Decide(e, p, status)
        PROVE  CarefulInv'
    <2>1. status \in {"approved", "refused"}  BY <1>3 DEF Decide
    <2>2. \A k \in Probes : /\ probes'[k].primary = probes[k].primary
                            /\ probes'[k].site = probes[k].site
                            /\ Listed(k) => Listed(k)'
      BY <1>0, <1>3, <2>1 DEF Decide, Rows, Listed
    <2>. QED  BY <1>2, <1>3, <2>2, RolesKept DEF Decide
  <1>4. ASSUME NEW p \in Probes, DeleteProbe(e, p) PROVE CarefulInv'
    <2>1. \A k \in Probes : IF k = p THEN ~probes'[k].primary /\ probes'[k].site = None
                            ELSE probes'[k] = probes[k]
      BY <1>0, <1>4 DEF DeleteProbe, Unborn
    <2>2. OnePrimary' /\ RowInv'  BY <2>1 DEF OnePrimary, RowInv, Listed
    <2>. QED  BY <1>2, <1>4, <2>2 DEF DeleteProbe
  <1>5. ASSUME NEW s \in Sites, DeleteSite(e, s) PROVE CarefulInv'
    <2>1. \A k \in Probes : /\ probes'[k].primary = probes[k].primary
                            /\ probes'[k].status = probes[k].status
                            /\ probes'[k].site \in {probes[k].site, None}
      BY <1>0, <1>5 DEF DeleteSite, Rows
    <2>2. OnePrimary' /\ RowInv'
      BY <2>1 DEF OnePrimary, RowInv, Listed
    <2>. QED  BY <1>2, <1>5, <2>2 DEF DeleteSite
  <1>. QED  BY <1>1, <1>3, <1>4, <1>5 DEF Request

LEMMA CarefulStep == CarefulInv /\ [CarefulNext]_vars => CarefulInv'
  <1>. SUFFICES ASSUME CarefulInv, [CarefulNext]_vars PROVE CarefulInv'
    OBVIOUS
  <1>0. TypeInv'  BY TypeStep, CarefulIsNext DEF CarefulInv
  <1>1. probes \in [Probes -> Rows] /\ pushes \in [Pushes -> PushStates]
    BY DEF CarefulInv, TypeInv, TypeOK
  <1>2. ASSUME UNCHANGED <<pushes, edits>>,
               \A k \in Probes : probes'[k].primary = probes[k].primary,
               \A k \in Probes : probes'[k].site = probes[k].site,
               \A k \in Probes : Listed(k) => Listed(k)'
        PROVE  CarefulInv'
    BY <1>0, <1>2, RowsAlone, RolesKept DEF CarefulInv
  <1>3. ASSUME NEW p \in Probes, Register(p) PROVE CarefulInv'
    <2>1. ~Listed(p) /\ ~probes[p].primary /\ probes[p].site = None
      BY <1>3 DEF Register, Listed, CarefulInv, RowInv
    <2>2. \A k \in Probes : IF k = p
                            THEN /\ probes'[k].primary = FALSE /\ probes'[k].site = None
                                 /\ probes'[k].status = "pending"
                            ELSE probes'[k] = probes[k]
      BY <1>1, <1>3 DEF Register, Unborn
    <2>3. probes[p].primary = FALSE
      BY <1>1, <2>1 DEF Rows
    <2>4. \A k \in Probes : probes'[k].primary = probes[k].primary
      BY <2>2, <2>3
    <2>5. \A k \in Probes : probes'[k].site = probes[k].site
      BY <2>1, <2>2
    <2>6. \A k \in Probes : Listed(k) => Listed(k)'
      BY <2>1, <2>2 DEF Listed
    <2>. QED  BY <1>2, <1>3, <2>4, <2>5, <2>6 DEF Register
  <1>4. ASSUME NEW p \in Probes, NEW h \in Pushes, Settled, PushLookup(h, p)
        PROVE  CarefulInv'
    <2>1. UNCHANGED <<probes, edits>>  BY <1>4 DEF PushLookup
    <2>2. OnePrimary' /\ RowInv'
      BY <2>1 DEF CarefulInv, OnePrimary, RowInv, Listed
    <2>3. /\ pushes'[h].pc = "refresh" /\ pushes'[h].site = None
          /\ \A k \in Pushes \ {h} : pushes'[k] = pushes[k]
      BY <1>1, <1>4 DEF PushLookup, FreeSlot
    <2>4. \A k \in Pushes \ {h} : pushes'[k].pc = "free" /\ pushes'[k].site = None
      BY <1>4, <2>3 DEF Settled, At, CarefulInv, PushStage
    <2>5. \A e \in Edits : edits'[e].pc \in {"idle", "done"}
      BY <1>4, <2>1 DEF Settled, EditAt
    <2>6. Alone'
      BY <2>4, <2>5 DEF Alone, At, Quiet, EditAt
    <2>7. \A k \in Pushes : PushStage(k)'
      BY <2>3, <2>4 DEF PushStage
    <2>8. \A e \in Edits : EditStage(e)'
      BY <2>5 DEF EditStage
    <2>. QED  BY <1>0, <2>2, <2>6, <2>7, <2>8 DEF CarefulInv
  <1>5. ASSUME NEW p \in Probes, FiveMinutesPass(p) PROVE CarefulInv'
    <2>1. \A k \in Probes : /\ probes'[k].primary = probes[k].primary
                            /\ probes'[k].site = probes[k].site
                            /\ Listed(k) => Listed(k)'
      BY <1>1, <1>5 DEF FiveMinutesPass, Rows, Listed
    <2>. QED  BY <1>2, <1>5, <2>1 DEF FiveMinutesPass
  <1>6. ASSUME NEW p \in Probes, SwitchOff(p) PROVE CarefulInv'
    BY <1>2, <1>6 DEF SwitchOff, Listed
  <1>7. CASE UNCHANGED vars
    BY <1>2, <1>7 DEF vars, Listed
  <1>8. CASE CarefulNext
    <2>1. \A p \in Probes : probes'[p].primary /\ probes'[p].site # None
                               => probes'[p].site = probes[p].site
      BY <1>8 DEF CarefulNext
    <2>2. ASSUME NEW h \in Pushes, HandlePush(h) PROVE CarefulInv'
      BY <1>0, <2>2, CarefulPush
    <2>3. ASSUME NEW e \in Edits, Settled, Request(e) PROVE CarefulInv'
      BY <1>0, <2>3, CarefulRequest
    <2>4. ASSUME NEW e \in Edits, HandleUpdate(e) PROVE CarefulInv'
      BY <1>0, <2>1, <2>4, CarefulUpdate
    <2>. QED
      BY <1>3, <1>4, <1>5, <1>6, <1>8, <2>2, <2>3, <2>4 DEF CarefulNext, SerialNext, Around
  <1>. QED  BY <1>7, <1>8

\* While calls come one at a time and no primary is moved, no site gets a
\* second primary: neither by an election nor by an update.
THEOREM SitesHaveOnePrimary == CarefulSpec => []OnePrimary
  <1>1. CarefulInv => OnePrimary  BY DEF CarefulInv
  <1>. QED  BY CarefulInit, CarefulStep, <1>1, PTL DEF CarefulSpec

\* The same invariant tells how a push ends.
LEMMA PushEnds == CarefulInv /\ [CarefulNext]_vars => [EndsServed]_vars
  <1>. SUFFICES ASSUME CarefulInv, [CarefulNext]_vars, NEW h \in Pushes,
                       pushes[h].site # None, pushes'[h].pc = "free"
                PROVE  \E p \in Probes : probes'[p].primary /\ probes'[p].site = pushes[h].site
    BY DEF EndsServed
  <1>1. /\ pushes \in [Pushes -> PushStates] /\ probes \in [Probes -> Rows]
        /\ PushStage(h)
    BY DEF CarefulInv, TypeInv, TypeOK
  <1>2. pushes[h].pc \in {"query", "demote", "promote"} /\ ~At(h, "free")
    BY <1>1 DEF PushStage, PushStates, At
  <1>3. PICK k \in Pushes : HandlePush(k)
    <2>1. ~UNCHANGED pushes  BY <1>2 DEF At
    <2>2. ~Settled  BY <1>2 DEF Settled
    <2>. QED
      BY <2>1, <2>2 DEF CarefulNext, SerialNext, vars, Register, HandleUpdate, UpdateRead,
                        UpdateDemoteOthers, UpdatePatch, Around, FiveMinutesPass, SwitchOff
  <1>4. k = h
    <2>1. ~At(k, "free")
      BY <1>3 DEF HandlePush, PushRefresh, PushReread, PushFindsNone, PushFinds, PushDemote,
                  PushPromote, At
    <2>. QED  BY <1>2, <2>1 DEF CarefulInv, Alone
  <1>5. ~PushRefresh(h) /\ ~PushReread(h)
    BY <1>2 DEF PushRefresh, PushReread, At
  <1>6. ~PushFindsNone(h) /\ ~PushDemote(h)
    <2>1. ~Goto(h, "promote")
      <3>1. SUFFICES ASSUME Goto(h, "promote") PROVE pushes'[h].pc = "promote"
        OBVIOUS
      <3>. QED  BY <1>1, <3>1 DEF Goto, PushStates
    <2>. QED  BY <2>1 DEF PushFindsNone, PushDemote
  <1>7. ASSUME NEW q \in Probes, PushFinds(h, q)
        PROVE  \E p \in Probes : probes'[p].primary /\ probes'[p].site = pushes[h].site
    BY <1>7 DEF PushFinds, PrimariesOf
  <1>8. CASE PushPromote(h)
    <2>. DEFINE p == pushes[h].id
    <2>1. p \in Probes /\ probes[p].site = pushes[h].site
      BY <1>1, <1>8 DEF PushPromote, At, CarefulInv, TypeInv, PushIds, PushStage
    <2>2. Listed(p)  BY <2>1 DEF CarefulInv, RowInv
    <2>3. probes'[p].primary /\ probes'[p].site = probes[p].site
      BY <1>1, <1>8, <2>1, <2>2 DEF PushPromote, Update, Rows
    <2>. QED  BY <2>1, <2>3
  <1>. QED  BY <1>3, <1>4, <1>5, <1>6, <1>7, <1>8 DEF HandlePush

\* ... and the push of an approved probe never ends with its site without one,
\* though its takeover first demotes the probe it finds.
THEOREM PushesLeaveAPrimary == CarefulSpec => PushLeavesPrimary
  BY CarefulInit, CarefulStep, PushEnds, PTL DEF CarefulSpec, PushLeavesPrimary
=============================================================================
