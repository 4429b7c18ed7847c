---------------------------- MODULE SingleSignOn ----------------------------
(***************************************************************************)
(* How a person of Obligate, the identity provider, comes to an account    *)
(* and back to it.  A sign-in looks the account up by what Obligate says   *)
(* it is linked with, then by the server's own table, and else inserts     *)
(* one, statement by statement and without a transaction; what was made is *)
(* reported to Obligate by a call that nobody waits for.  When a person    *)
(* leaves, Obligate has the account deleted, and somebody of the same user *)
(* name may come, whose account gets the same name.                        *)
(*                                                                         *)
(* All persons here have one user name, one after the other; persons of    *)
(* other names do not meet them.  Roles, tenants, teams, preferences and   *)
(* the session itself are left out, and accounts that administrators give  *)
(* a name of this form.                                                    *)
(***************************************************************************)
EXTENDS Integers

CONSTANTS
    NumPersons,    \* the persons that have the name
    SignIns,       \* slots of sign-ins under way
    MaxMishaps     \* bound: statements that fail, calls that are lost

ASSUME PersonsAssumption == NumPersons \in Nat \ {0} /\ MaxMishaps \in Nat

VARIABLES
    person,     \* who has the name in Obligate
    users,      \* the table: what each id is
    lastUser,   \* its sequence
    links,      \* sso_foreign_users: the account of each person, 0 if there is none
    gate,       \* the account Obligate has for each person, 0 if it has none
    provisions, \* calls to Obligate under way: of a person and an account
    deletions,  \* calls from Obligate: accounts to delete, and those half-way
    signIns,
    isIn,       \* the person's last sign-in succeeded
    mishaps,
    stuck       \* history: something happened that leaves the name taken

ssoVars == <<person, users, lastUser, links, gate, provisions, deletions, signIns, isIn,
             mishaps, stuck>>

-----------------------------------------------------------------------------

Persons == 1 .. NumPersons
UserIds == 1 .. NumPersons + 2      \* bound: the local account, and one or two of each person
Nobody == 0                          \* no such account
Local == NumPersons + 1              \* an account of the server's own
Accounts == 0 .. NumPersons + 1      \* of Persons: og_<name>, made for that person
SignInStates == [pc : {"idle", "linked", "find", "own", "unlink", "insert", "link", "finish"},
                 who : Persons, user : {0} \cup UserIds]

SsoTypeOK ==
    /\ person \in Persons
    /\ users \in [UserIds -> Accounts] /\ lastUser \in UserIds
    /\ links \in [Persons -> {0} \cup UserIds] /\ gate \in [Persons -> {0} \cup UserIds]
    /\ provisions \subseteq Persons \X ({0} \cup UserIds)
    /\ deletions \in [called : SUBSET UserIds, half : SUBSET UserIds]
    /\ signIns \in [SignIns -> SignInStates]
    /\ isIn \in BOOLEAN /\ stuck \in BOOLEAN
    /\ mishaps \in 0 .. MaxMishaps

IdleSignIn == [pc |-> "idle", who |-> 1, user |-> 0]

\* A local account, which Obligate may have been told to link the first person with.
SsoInit ==
    /\ person = 1
    /\ users = [i \in UserIds |-> IF i = 1 THEN Local ELSE Nobody] /\ lastUser = 1
    /\ links = [p \in Persons |-> 0]
    /\ gate \in {[p \in Persons |-> IF p = 1 THEN i ELSE 0] : i \in {0, 1}}
    /\ provisions = {} /\ deletions = [called |-> {}, half |-> {}]
    /\ signIns = [s \in SignIns |-> IdleSignIn]
    /\ isIn = FALSE /\ mishaps = 0 /\ stuck = FALSE

Exists(i) == users[i] # Nobody
Taken == \E i \in UserIds : users[i] \in Persons

-----------------------------------------------------------------------------
(* GET /callback.                                                          *)

Go(s, pc, i) == signIns' = [signIns EXCEPT ![s].pc = pc, ![s].user = i]
\* The answer to the browser; it is about the person only if they are still there.
End(s, ok) ==
    /\ signIns' = [signIns EXCEPT ![s] = IdleSignIn]
    /\ isIn' = IF signIns[s].who = person THEN ok ELSE isIn

\* exchangeCode: what Obligate has at that time.
Exchange(s) ==
    /\ signIns[s].pc = "idle"
    /\ signIns' = [signIns EXCEPT ![s] = [pc |-> IF gate[person] = 0 THEN "find" ELSE "linked",
                                          who |-> person, user |-> gate[person]]]
    /\ UNCHANGED <<person, users, lastUser, links, gate, provisions, deletions, isIn, mishaps, stuck>>

\* Mutant of FindLinked: Obligate is not told that its account is gone.
FindLinkedSilent(s) ==
    /\ signIns[s].pc = "linked"
    /\ LET i == signIns[s].user IN Go(s, IF Exists(i) THEN "finish" ELSE "insert", i)
    /\ UNCHANGED <<person, users, lastUser, links, gate, provisions, deletions, isIn, mishaps, stuck>>

FindLinked(s) ==
    /\ signIns[s].pc = "linked"
    /\ LET i == signIns[s].user
       IN IF Exists(i) THEN Go(s, "finish", i) /\ UNCHANGED provisions
          ELSE Go(s, "insert", 0) /\ provisions' = provisions \cup {<<signIns[s].who, 0>>}
    /\ UNCHANGED <<person, users, lastUser, links, gate, deletions, isIn, mishaps, stuck>>

FindLink(s) ==
    /\ signIns[s].pc = "find"
    /\ LET i == links[signIns[s].who] IN Go(s, IF i = 0 THEN "insert" ELSE "own", i)
    /\ UNCHANGED <<person, users, lastUser, links, gate, provisions, deletions, isIn, mishaps, stuck>>

\* The account may have gone since its link was read.
FindOwn(s) ==
    /\ signIns[s].pc = "own"
    /\ LET i == signIns[s].user IN Go(s, IF Exists(i) THEN "finish" ELSE "unlink", i)
    /\ UNCHANGED <<person, users, lastUser, links, gate, provisions, deletions, isIn, mishaps, stuck>>

Unlink(s) ==
    /\ signIns[s].pc = "unlink"
    /\ links' = [links EXCEPT ![signIns[s].who] = 0]
    /\ Go(s, "insert", 0)
    /\ UNCHANGED <<person, users, lastUser, gate, provisions, deletions, isIn, mishaps, stuck>>

\* Mutant of Insert: an account of that name is taken for the person's.
InsertOrFind(s) ==
    /\ signIns[s].pc = "insert"
    /\ \/ /\ Taken
          /\ Go(s, "link", CHOOSE i \in UserIds : users[i] \in Persons)
          /\ UNCHANGED <<users, lastUser>>
       \/ /\ ~Taken /\ lastUser + 1 \in UserIds
          /\ lastUser' = lastUser + 1
          /\ users' = [users EXCEPT ![lastUser + 1] = signIns[s].who]
          /\ Go(s, "link", lastUser + 1)
    /\ UNCHANGED <<person, links, gate, provisions, deletions, isIn, mishaps, stuck>>

\* The name is unique.
Insert(s) ==
    /\ signIns[s].pc = "insert"
    /\ \/ Taken /\ End(s, FALSE) /\ UNCHANGED <<users, lastUser>>
       \/ /\ ~Taken /\ lastUser + 1 \in UserIds
          /\ lastUser' = lastUser + 1
          /\ users' = [users EXCEPT ![lastUser + 1] = signIns[s].who]
          /\ Go(s, "link", lastUser + 1)
          /\ UNCHANGED isIn
    /\ UNCHANGED <<person, links, gate, provisions, deletions, mishaps, stuck>>

\* Nobody else knows the new row yet, so that it is still there.
Link(s) ==
    /\ signIns[s].pc = "link"
    /\ links' = [links EXCEPT ![signIns[s].who] = signIns[s].user]
    /\ provisions' = provisions \cup {<<signIns[s].who, signIns[s].user>>}
    /\ Go(s, "finish", signIns[s].user)
    /\ UNCHANGED <<person, users, lastUser, gate, deletions, isIn, mishaps, stuck>>

\* A session of an account that has gone meanwhile is of no use.
Finish(s) ==
    /\ signIns[s].pc = "finish"
    /\ End(s, Exists(signIns[s].user))
    /\ UNCHANGED <<person, users, lastUser, links, gate, provisions, deletions, mishaps, stuck>>

-----------------------------------------------------------------------------
(* Administrators and Obligate.                                            *)

DropUser(i) ==
    /\ users' = [users EXCEPT ![i] = Nobody]
    /\ links' = [p \in Persons |-> IF links[p] = i THEN 0 ELSE links[p]]

\* usersController.delete; accounts of Obligate are refused.
DeleteUser(i) ==
    /\ users[i] = Local
    /\ DropUser(i)
    /\ UNCHANGED <<person, lastUser, gate, provisions, deletions, signIns, isIn, mishaps, stuck>>

\* A report reaches Obligate, in any order.
Deliver(r) ==
    /\ r \in provisions
    /\ provisions' = provisions \ {r}
    /\ gate' = [gate EXCEPT ![r[1]] = r[2]]
    /\ UNCHANGED <<person, users, lastUser, links, deletions, signIns, isIn, mishaps, stuck>>

\* Obligate can only have an account deleted that it has been told of: this says
\* that the person who leaves has another one, or is about to.
Unknown == \/ \E i \in UserIds : users[i] = person /\ gate[person] # i
           \/ \E s \in SignIns : signIns[s].who = person /\ signIns[s].pc \notin {"idle", "finish"}
Leave ==
    /\ person < NumPersons
    /\ person' = person + 1
    /\ deletions' = [deletions EXCEPT !.called = @ \cup ({gate[person]} \ {0})]
    /\ isIn' = FALSE
    /\ stuck' = (stuck \/ Unknown)
    /\ UNCHANGED <<users, lastUser, links, gate, provisions, signIns, mishaps>>

\* /sso-user-sync: the links first ...
SyncDeleteLinks(i) ==
    /\ i \in deletions.called
    /\ deletions' = [called |-> deletions.called \ {i},
                     half |-> IF Exists(i) THEN deletions.half \cup {i} ELSE deletions.half]
    /\ links' = [p \in Persons |-> IF links[p] = i THEN 0 ELSE links[p]]
    /\ UNCHANGED <<person, users, lastUser, gate, provisions, signIns, isIn, mishaps, stuck>>

\* ... and then the account.
SyncDeleteUser(i) ==
    /\ i \in deletions.half
    /\ deletions' = [deletions EXCEPT !.half = @ \ {i}]
    /\ DropUser(i)
    /\ UNCHANGED <<person, lastUser, gate, provisions, signIns, isIn, mishaps, stuck>>

-----------------------------------------------------------------------------
(* What fails; a restart of the server is all of it at once.               *)

Mishap == mishaps < MaxMishaps /\ mishaps' = mishaps + 1

\* A sign-in that ends between its two inserts leaves an account that nobody finds.
SignInFails(s) ==
    /\ Mishap
    /\ signIns[s].pc # "idle"
    /\ End(s, FALSE)
    /\ stuck' = (stuck \/ signIns[s].pc = "link")
    /\ UNCHANGED <<person, users, lastUser, links, gate, provisions, deletions>>

LoseProvision(r) ==
    /\ Mishap
    /\ r \in provisions
    /\ provisions' = provisions \ {r}
    /\ UNCHANGED <<person, users, lastUser, links, gate, deletions, signIns, isIn, stuck>>

LoseDeletion(i) ==
    /\ Mishap
    /\ i \in deletions.called \cup deletions.half
    /\ deletions' = [called |-> deletions.called \ {i}, half |-> deletions.half \ {i}]
    /\ stuck' = TRUE
    /\ UNCHANGED <<person, users, lastUser, links, gate, provisions, signIns, isIn>>

-----------------------------------------------------------------------------

Callback(s) ==
    \/ FindLinked(s) \/ FindLink(s) \/ FindOwn(s) \/ Unlink(s)
    \/ Insert(s) \/ Link(s) \/ Finish(s)
SyncUser == \E i \in UserIds : SyncDeleteLinks(i) \/ SyncDeleteUser(i)
Provision == \E r \in provisions : Deliver(r)
SsoNext ==
    \/ \E s \in SignIns : Exchange(s) \/ Callback(s) \/ SignInFails(s)
    \/ \E i \in UserIds : DeleteUser(i) \/ LoseDeletion(i)
    \/ \E r \in provisions : LoseProvision(r)
    \/ SyncUser \/ Provision \/ Leave

SsoSpec == SsoInit /\ [][SsoNext]_ssoVars

\* The person tries again and again; what was started goes on.
SsoFairness ==
    /\ WF_ssoVars(\E s \in SignIns : Exchange(s))
    /\ \A s \in SignIns : WF_ssoVars(Callback(s))
    /\ WF_ssoVars(SyncUser) /\ WF_ssoVars(Provision)

SsoFairSpec == SsoSpec /\ SsoFairness

-----------------------------------------------------------------------------
(* Properties.                                                             *)

\* Nobody signs in to the account of somebody who had the same name before, and
\* to the local account only the person it was linked with.
OwnAccount ==
    \A s \in SignIns : signIns[s].pc = "finish" =>
        \/ users[signIns[s].user] \in {signIns[s].who, Nobody}
        \/ users[signIns[s].user] = Local /\ signIns[s].who = 1

\* Whoever tries again gets in: past accounts that are gone, sign-ins that
\* overlap or fail, a predecessor that is being deleted, and reports that are
\* lost or come in the wrong order.  The exception is a name that stays taken:
\* by a sign-in that ended between its two inserts, or by the account of a
\* predecessor that Obligate did not know or whose deletion was lost.
GetsIn == <>[](isIn \/ stuck)
=============================================================================
