--------------------------- MODULE PrimaryElection ---------------------------
(***************************************************************************)
(* The primary probe of a site.  Nothing but the handlers keeps is_primary *)
(* to one probe of a site: a push of an approved probe of the site takes   *)
(* the role when it finds nobody in it, or takes it over from a probe that *)
(* has not been seen for five minutes, and an administrator may give the   *)
(* role, take it away, or move a probe to another site.  Each statement is *)
(* a step, and other handlers run in between.                              *)
(*                                                                         *)
(* One tenant; the commands, versions, devices and configuration that the  *)
(* same handlers deal with are left out.                                   *)
(***************************************************************************)
EXTENDS FiniteSets

CONSTANTS
    Probes,   \* the ids the table may give to probes
    Sites,    \* the sites there are at the start
    Pushes,   \* slots for push handlers that run at the same time
    Edits,    \* the administrators' requests; each is made once
    None      \* no site, no probe

ASSUME NoneAssumption == None \notin Probes \cup Sites

VARIABLES
    probes,   \* the table probes
    sites,    \* the ids in table sites
    off,      \* the probes that have stopped pushing for good
    pushes,   \* the handlePush calls
    edits     \* the updateProbe calls, and which requests were made

vars == <<probes, sites, off, pushes, edits>>

-----------------------------------------------------------------------------

Rows == [status : {"unborn", "pending", "approved", "refused", "deleted"},
         site : Sites \cup {None},
         primary : BOOLEAN,
         seen : {"lately", "long ago"}]   \* long ago: more than five minutes
PushStates == [pc : {"free", "refresh", "reread", "query", "demote", "promote"},
               id : Probes \cup {None}, site : Sites \cup {None},
               rival : Probes \cup {None}]
\* The fields of an update: what it does not set is "same".
EditStates == [pc : {"idle", "read", "demote", "patch", "done"},
               id : Probes \cup {None}, old : Sites \cup {None},
               site : Sites \cup {None, "same"},
               primary : {"yes", "no", "same"}]

TypeOK ==
    /\ probes \in [Probes -> Rows]
    /\ sites \subseteq Sites
    /\ off \subseteq Probes
    /\ pushes \in [Pushes -> PushStates]
    /\ edits \in [Edits -> EditStates]

Unborn == [status |-> "unborn", site |-> None, primary |-> FALSE, seen |-> "lately"]
FreeSlot == [pc |-> "free", id |-> None, site |-> None, rival |-> None]
NotMade == [pc |-> "idle", id |-> None, old |-> None, site |-> "same", primary |-> "same"]
Made == [NotMade EXCEPT !.pc = "done"]

\* Some probes may be approved or refused, and assigned, and the primaries not
\* be elected yet.
Init ==
    /\ probes \in [Probes -> {r \in Rows : /\ r.status \in {"unborn", "approved", "refused"}
                                           /\ ~r.primary /\ r.seen = "lately"
                                           /\ r.status = "unborn" => r.site = None}]
    /\ sites = Sites
    /\ off = {}
    /\ pushes = [h \in Pushes |-> FreeSlot]
    /\ edits = [e \in Edits |-> NotMade]

Listed(p) == probes[p].status \notin {"unborn", "deleted"}
PrimariesOf(s) == {p \in Probes : probes[p].primary /\ probes[p].site = s}

\* UPDATE probes SET ... WHERE id = p: no row, no change.
Update(p, row) == probes' = IF Listed(p) THEN [probes EXCEPT ![p] = row] ELSE probes

-----------------------------------------------------------------------------
(* handlePush.                                                             *)

At(h, pc) == pushes[h].pc = pc
Goto(h, pc) == pushes' = [pushes EXCEPT ![h].pc = pc]
Free(h) == pushes' = [pushes EXCEPT ![h] = FreeSlot]

\* First contact; the reply needs nothing more of the row.
Register(p) ==
    /\ p \notin off
    /\ probes[p].status = "unborn"
    /\ probes' = [probes EXCEPT ![p] = [Unborn EXCEPT !.status = "pending"]]
    /\ UNCHANGED <<sites, off, pushes, edits>>

PushLookup(h, p) ==
    /\ At(h, "free")
    /\ p \notin off
    /\ Listed(p)
    /\ pushes' = [pushes EXCEPT ![h] = [FreeSlot EXCEPT !.pc = "refresh", !.id = p]]
    /\ UNCHANGED <<probes, sites, off, edits>>

PushRefresh(h) ==
    /\ At(h, "refresh")
    /\ LET p == pushes[h].id IN Update(p, [probes[p] EXCEPT !.seen = "lately"])
    /\ Goto(h, "reread")
    /\ UNCHANGED <<sites, off, edits>>

\* Only an approved probe of a site stands for election, as of now.
Stands(p) == probes[p].status = "approved" /\ probes[p].site # None

PushReread(h) ==
    /\ At(h, "reread")
    /\ IF Stands(pushes[h].id)
       THEN pushes' = [pushes EXCEPT ![h].pc = "query",
                                     ![h].site = probes[pushes[h].id].site]
       ELSE Free(h)
    /\ UNCHANGED <<probes, sites, off, edits>>

PushFindsNone(h) ==
    /\ At(h, "query")
    /\ PrimariesOf(pushes[h].site) = {}
    /\ Goto(h, "promote")
    /\ UNCHANGED <<probes, sites, off, edits>>

\* Mutant: nobody is taken over from.
PushFindsAny(h, q) ==
    /\ At(h, "query")
    /\ q \in PrimariesOf(pushes[h].site)
    /\ Free(h)
    /\ UNCHANGED <<probes, sites, off, edits>>

\* ... or some primary of the site (.first() of an unordered query): itself,
\* one seen lately, or one to take over from.
PushFinds(h, q) ==
    /\ At(h, "query")
    /\ q \in PrimariesOf(pushes[h].site)
    /\ IF q # pushes[h].id /\ probes[q].seen = "long ago"
       THEN pushes' = [pushes EXCEPT ![h].pc = "demote", ![h].rival = q]
       ELSE Free(h)
    /\ UNCHANGED <<probes, sites, off, edits>>

\* Mutant: the takeover stops half-way.
PushDemoteOnly(h) ==
    /\ At(h, "demote")
    /\ LET q == pushes[h].rival IN Update(q, [probes[q] EXCEPT !.primary = FALSE])
    /\ Free(h)
    /\ UNCHANGED <<sites, off, edits>>

PushDemote(h) ==
    /\ At(h, "demote")
    /\ LET q == pushes[h].rival IN Update(q, [probes[q] EXCEPT !.primary = FALSE])
    /\ Goto(h, "promote")
    /\ UNCHANGED <<sites, off, edits>>

PushPromote(h) ==
    /\ At(h, "promote")
    /\ LET p == pushes[h].id IN Update(p, [probes[p] EXCEPT !.primary = TRUE])
    /\ Free(h)
    /\ UNCHANGED <<sites, off, edits>>

-----------------------------------------------------------------------------
(* The administrators.                                                     *)

EditAt(e, pc) == edits[e].pc = pc

\* updateProbe with the fields given; only one that promotes reads first.
UpdateProbe(e, p, s, f) ==
    /\ EditAt(e, "idle")
    /\ Listed(p)
    /\ s \in sites \cup {None, "same"}
    /\ f \in {"yes", "no", "same"}
    /\ edits' = [edits EXCEPT ![e] =
                    [pc |-> IF f = "yes" THEN "read" ELSE "patch",
                     id |-> p, old |-> None, site |-> s, primary |-> f]]
    /\ UNCHANGED <<probes, sites, off, pushes>>

\* Mutant: the others keep the role.
UpdateReadOnly(e) ==
    /\ EditAt(e, "read")
    /\ edits' = [edits EXCEPT ![e].pc = "patch"]
    /\ UNCHANGED <<probes, sites, off, pushes>>

UpdateRead(e) ==
    /\ EditAt(e, "read")
    /\ LET s == probes[edits[e].id].site
       IN edits' = [edits EXCEPT ![e].pc = IF s = None THEN "patch" ELSE "demote",
                                 ![e].old = s]
    /\ UNCHANGED <<probes, sites, off, pushes>>

UpdateDemoteOthers(e) ==
    /\ EditAt(e, "demote")
    /\ probes' = [p \in Probes |->
                     IF p # edits[e].id /\ probes[p].site = edits[e].old
                     THEN [probes[p] EXCEPT !.primary = FALSE]
                     ELSE probes[p]]
    /\ edits' = [edits EXCEPT ![e].pc = "patch"]
    /\ UNCHANGED <<sites, off, pushes>>

\* A site deleted meanwhile: the foreign key refuses the patch.
Refused(e) == edits[e].site \notin sites \cup {None, "same"}

UpdatePatch(e) ==
    /\ EditAt(e, "patch")
    /\ LET u == edits[e]
           row == probes[u.id]
       IN IF Refused(e)
          THEN UNCHANGED probes
          ELSE Update(u.id, [row EXCEPT
                  !.site = IF u.site = "same" THEN @ ELSE u.site,
                  !.primary = IF u.primary = "same" THEN @ ELSE u.primary = "yes"])
    /\ edits' = [edits EXCEPT ![e] = Made]
    /\ UNCHANGED <<sites, off, pushes>>

\* approveProbe, bulkApprove, refuseProbe.
Decide(e, p, status) ==
    /\ EditAt(e, "idle")
    /\ Listed(p)
    /\ status \in {"approved", "refused"}
    /\ probes' = [probes EXCEPT ![p].status = status]
    /\ edits' = [edits EXCEPT ![e] = Made]
    /\ UNCHANGED <<sites, off, pushes>>

\* deleteProbe, bulkDelete.
DeleteProbe(e, p) ==
    /\ EditAt(e, "idle")
    /\ Listed(p)
    /\ probes' = [probes EXCEPT ![p] = [Unborn EXCEPT !.status = "deleted"]]
    /\ edits' = [edits EXCEPT ![e] = Made]
    /\ UNCHANGED <<sites, off, pushes>>

\* deleteSite: site_id of its probes goes to null (ON DELETE SET NULL).
DeleteSite(e, s) ==
    /\ EditAt(e, "idle")
    /\ s \in sites
    /\ sites' = sites \ {s}
    /\ probes' = [p \in Probes |-> IF probes[p].site = s
                                   THEN [probes[p] EXCEPT !.site = None]
                                   ELSE probes[p]]
    /\ edits' = [edits EXCEPT ![e] = Made]
    /\ UNCHANGED <<off, pushes>>

-----------------------------------------------------------------------------
(* Around the program.                                                     *)

FiveMinutesPass(p) ==
    /\ Listed(p)
    /\ probes[p].seen = "lately"
    /\ probes' = [probes EXCEPT ![p].seen = "long ago"]
    /\ UNCHANGED <<sites, off, pushes, edits>>

SwitchOff(p) ==
    /\ p \notin off
    /\ off' = off \cup {p}
    /\ UNCHANGED <<probes, sites, pushes, edits>>

-----------------------------------------------------------------------------

HandlePush(h) ==
    \/ PushRefresh(h) \/ PushReread(h) \/ PushFindsNone(h)
    \/ \E q \in Probes : PushFinds(h, q)
    \/ PushDemote(h) \/ PushPromote(h)
HandleUpdate(e) == UpdateRead(e) \/ UpdateDemoteOthers(e) \/ UpdatePatch(e)
Request(e) ==
    \/ \E p \in Probes :
          \/ \E s \in Sites \cup {None, "same"}, f \in {"yes", "no", "same"} :
                UpdateProbe(e, p, s, f)
          \/ \E status \in {"approved", "refused"} : Decide(e, p, status)
          \/ DeleteProbe(e, p)
    \/ \E s \in Sites : DeleteSite(e, s)
Around == \E p \in Probes : FiveMinutesPass(p) \/ SwitchOff(p)

Next ==
    \/ \E p \in Probes : Register(p) \/ \E h \in Pushes : PushLookup(h, p)
    \/ \E h \in Pushes : HandlePush(h)
    \/ \E e \in Edits : Request(e) \/ HandleUpdate(e)
    \/ Around

Spec == Init /\ [][Next]_vars

\* The server finishes the calls it has started; a probe that is on pushes
\* again and again; time passes over one that is off.
Fairness ==
    /\ \A h \in Pushes : WF_vars(HandlePush(h))
    /\ \A e \in Edits : WF_vars(HandleUpdate(e))
    /\ \A p \in Probes :
          /\ SF_vars(\E h \in Pushes : PushLookup(h, p))
          /\ WF_vars(p \in off /\ FiveMinutesPass(p))

FairSpec == Spec /\ Fairness

\* One call at a time.
Settled == /\ \A h \in Pushes : At(h, "free")
           /\ \A e \in Edits : EditAt(e, "idle") \/ EditAt(e, "done")

SerialNext ==
    \/ \E p \in Probes : Register(p)
    \/ Settled /\ \E p \in Probes, h \in Pushes : PushLookup(h, p)
    \/ \E h \in Pushes : HandlePush(h)
    \/ \E e \in Edits : (Settled /\ Request(e)) \/ HandleUpdate(e)
    \/ Around

SerialSpec == Init /\ [][SerialNext]_vars

\* ... and no update brings a probe to a site that is primary already, or
\* becomes so by the same update.
CarefulNext ==
    /\ SerialNext
    /\ \A p \in Probes : probes'[p].primary /\ probes'[p].site # None
                            => probes'[p].site = probes[p].site

CarefulSpec == Init /\ [][CarefulNext]_vars

-----------------------------------------------------------------------------
(* Properties.                                                             *)

\* A site has at most one primary: what the election in handlePush and the
\* demotion in updateProbe work for, and no constraint of the table ensures.
OnePrimary ==
    \A p, q \in Probes :
        /\ probes[p].primary /\ probes[q].primary
        /\ probes[p].site = probes[q].site /\ probes[p].site # None
        => p = q

\* The push of an approved probe of a site does not end before the site has a
\* primary, though its takeover leaves it without one for a while.
EndsServed ==
    \A h \in Pushes :
        pushes[h].site # None /\ pushes'[h].pc = "free"
        => \E p \in Probes : probes'[p].primary /\ probes'[p].site = pushes[h].site
PushLeavesPrimary == [][EndsServed]_vars

\* A site with an approved probe that pushes gets a primary back that pushes,
\* whatever calls overlap, unless it loses all its approved probes.
Alive(p) == Listed(p) /\ p \notin off
Staffed(s) == \E p \in Probes : Alive(p) /\ Stands(p) /\ probes[p].site = s
Served(s) == \E p \in PrimariesOf(s) : Alive(p)
PrimaryReturns == \A s \in Sites : Staffed(s) ~> Served(s) \/ ~Staffed(s)

\* updateProbe: "If promoting to primary, demote any existing primary on the
\* same site".  So after such an update the probe is its site's only primary.
PromotionDemotesOthers ==
    [][\A e \in Edits :
          LET p == edits[e].id
          IN EditAt(e, "patch") /\ edits[e].primary = "yes" /\ edits'[e].pc = "done"
             => \A q \in Probes \ {p} :
                   ~(/\ probes'[q].primary /\ probes'[p].primary
                     /\ probes'[q].site = probes'[p].site /\ probes'[p].site # None)]_vars
=============================================================================
