--------------------------- MODULE Harness_proofs ---------------------------
(***************************************************************************)
(* Theorems about services of the harness: TargetRegistry, for any number  *)
(* of invites, paired targets, users and starts of the service, SessionCapture,*)
(* for any number of chats, turns, domains and flows, and RunbookAuthoring, for*)
(* any number of definitions, drafts and requests.                         *)
(***************************************************************************)
EXTENDS Harness, TLAPS

-----------------------------------------------------------------------------
(* TargetRegistry.                                                          *)

(* Which request is where, and what it has relied on so far.                *)
Roles ==
    \A c \in Caller :
       /\ doing[c] \in {"select", "insert"} => c \in Inviting \cup Registering
       /\ doing[c] = "sign" => c \in Inviting
       /\ doing[c] = "check" => c \in Registering
       /\ doing[c] \in {"get", "put"} => c \notin Inviting
       /\ c = Local => doing[c] \in {"get", "put", "over"}
       /\ c \in Inviting /\ invites[c] # Unsaid => doing[c] = "over"
       /\ c \in Registering /\ doing[c] # "idle" => invites[With[c]] # Unsaid

(* There is one secret: who knows a key knows it, and invites carry it.     *)
OneSecret ==
    /\ \A c \in Caller : doing[c] \in {"sign", "check"} => secret # Unsaid /\ keyOf[c] = secret
    /\ \A i \in Inviting : invites[i] # Unsaid => secret # Unsaid /\ invites[i].key = secret

RefusedIsLate == \A c \in Registering : doing[c] = "refused" => time > invites[With[c]].until

\* The row r of target t is as the last edit of t left it.
Kept(r, t) == r # Unsaid /\ r.name = wish[t] /\ (t = Local => r.allowed = wish[t])

(* A row a request holds is as good as the one that is stored.              *)
Wishes ==
    /\ \A t \in Target \ mixed : wish[t] # Unsaid => Kept(targets[t], t)
    /\ \A c \in Caller :
          /\ doing[c] = "put" /\ TargetOf(c) \notin mixed /\ wish[TargetOf(c)] # Unsaid
                => Kept(seenRow[c], TargetOf(c))
          /\ doing[c] = "put" /\ c \in Updating => seenRow[c] # Unsaid

RInv == RegistryTypeOK /\ Roles /\ OneSecret /\ RefusedIsLate /\ Wishes

-----------------------------------------------------------------------------
LEMMA Targets == \A c \in Caller : TargetOf(c) \in Target
  BY RegistryAssumption DEF TargetOf, Target, Caller

LEMMA Rows ==
  ASSUME RegistryTypeOK, NEW c \in Caller
  PROVE  /\ Registered(c) \in Row
         /\ c \in Updating /\ seenRow[c] # Unsaid => Edited(c) \in Row
<1>1. TargetOf(c) \in Names
  BY Targets DEF Names
<1>2. seenRow[c] # Unsaid => seenRow[c] \in Row
  BY DEF RegistryTypeOK
<1>3. Registered(c) \in Row
  BY <1>1, <1>2 DEF Registered, Row
<1>4. c \in Updating /\ seenRow[c] # Unsaid => Edited(c) \in Row
  BY <1>2 DEF Edited, Row, Names
<1> QED BY <1>3, <1>4

LEMMA NotUnsaid ==
  /\ \A r \in Row : r # Unsaid
  /\ \A i \in Invite : i # Unsaid
  /\ \A c \in Caller : c # Unsaid
  BY RegistryAssumption

LEMMA InitRInv == RegistryInit => RInv
<1> SUFFICES ASSUME RegistryInit PROVE RInv
  OBVIOUS
<1> USE RegistryAssumption DEF RegistryInit
<1>1. RegistryTypeOK
  BY DEF RegistryTypeOK
<1>2. Roles
  BY DEF Roles, Caller
<1>3. OneSecret /\ RefusedIsLate
  BY DEF OneSecret, RefusedIsLate, Caller
<1>4. Wishes
  BY DEF Wishes, Caller, TargetOf
<1> QED BY <1>1, <1>2, <1>3, <1>4 DEF RInv

LEMMA RegistryTyped ==
  ASSUME RInv, [RegistryNext]_registryVars PROVE RegistryTypeOK'
<1> USE RegistryAssumption DEF Caller
<1>1. ASSUME NEW c \in Caller, Call(c) PROVE RegistryTypeOK'
  BY <1>1 DEF Call, Does, RInv, RegistryTypeOK
<1>2. ASSUME NEW c \in Caller, SelectSecret(c) PROVE RegistryTypeOK'
  BY <1>2 DEF SelectSecret, KeyKnown, Does, RInv, RegistryTypeOK
<1>3. ASSUME NEW c \in Caller, InsertSecret(c) PROVE RegistryTypeOK'
  BY <1>3 DEF InsertSecret, KeyKnown, Does, RInv, RegistryTypeOK, Roles
<1>4. ASSUME NEW c \in Caller, Sign(c) PROVE RegistryTypeOK'
  BY <1>4 DEF Sign, Does, RInv, RegistryTypeOK, Invite, Roles, OneSecret
<1>5. ASSUME NEW c \in Caller, CheckInvite(c) PROVE RegistryTypeOK'
  BY <1>5 DEF CheckInvite, Does, RInv, RegistryTypeOK
<1>6. ASSUME NEW c \in Caller, Get(c) PROVE RegistryTypeOK'
  BY <1>6, Targets DEF Get, Does, RInv, RegistryTypeOK
<1>7. ASSUME NEW c \in Caller, Put(c) PROVE RegistryTypeOK'
  <2>1. Registered(c) \in Row /\ (c \in Updating => Edited(c) \in Row)
    BY <1>7, Rows DEF RInv, Wishes, Put
  <2>2. targets' \in [Target -> Row \cup {Unsaid}]
    BY <1>7, <2>1, Targets DEF Put, RInv, RegistryTypeOK
  <2>3. wish' \in [Target -> Updating \cup {Unsaid}] /\ mixed' \subseteq Target
    BY <1>7, Targets DEF Put, RInv, RegistryTypeOK
  <2> QED BY <1>7, <2>2, <2>3 DEF Put, Does, RInv, RegistryTypeOK
<1>8. CASE Pass
  BY <1>8 DEF Pass, RInv, RegistryTypeOK
<1>9. CASE Reopen
  BY <1>9 DEF Reopen, RInv, RegistryTypeOK
<1>10. CASE UNCHANGED registryVars
  BY <1>10 DEF registryVars, RInv, RegistryTypeOK
<1> QED BY <1>1, <1>2, <1>3, <1>4, <1>5, <1>6, <1>7, <1>8, <1>9, <1>10 DEF RegistryNext

LEMMA RolesKept ==
  ASSUME RInv, [RegistryNext]_registryVars PROVE Roles'
<1> USE RegistryAssumption, NotUnsaid
<1>1. ASSUME NEW c \in Caller, Call(c) PROVE Roles'
  <2>1. doing' = [doing EXCEPT ![c] = IF c \in Updating THEN "get" ELSE "select"]
    BY <1>1 DEF Call, Does
  <2>2. /\ c # Local /\ c \in Inviting \cup Registering \cup Updating
        /\ c \in Inviting => invites[c] = Unsaid
        /\ c \in Registering => invites[With[c]] # Unsaid
        /\ invites' = invites
    BY <1>1 DEF Call, RInv, RegistryTypeOK, Roles, Caller
  <2> QED BY <2>1, <2>2 DEF RInv, RegistryTypeOK, Roles
<1>2. ASSUME NEW c \in Caller, SelectSecret(c) PROVE Roles'
  BY <1>2 DEF SelectSecret, KeyKnown, Does, RInv, RegistryTypeOK, Roles
<1>3. ASSUME NEW c \in Caller, InsertSecret(c) PROVE Roles'
  BY <1>3 DEF InsertSecret, KeyKnown, Does, RInv, RegistryTypeOK, Roles
<1>4. ASSUME NEW c \in Caller, Sign(c) PROVE Roles'
  BY <1>4 DEF Sign, Does, RInv, RegistryTypeOK, Roles
<1>5. ASSUME NEW c \in Caller, CheckInvite(c) PROVE Roles'
  BY <1>5 DEF CheckInvite, Does, RInv, RegistryTypeOK, Roles
<1>6. ASSUME NEW c \in Caller, Get(c) PROVE Roles'
  BY <1>6 DEF Get, Does, RInv, RegistryTypeOK, Roles
<1>7. ASSUME NEW c \in Caller, Put(c) PROVE Roles'
  BY <1>7 DEF Put, Does, RInv, RegistryTypeOK, Roles
<1>8. CASE Pass
  BY <1>8 DEF Pass, RInv, RegistryTypeOK, Roles
<1>9. CASE Reopen
  BY <1>9 DEF Reopen, RInv, RegistryTypeOK, Roles
<1>10. CASE UNCHANGED registryVars
  BY <1>10 DEF registryVars, RInv, RegistryTypeOK, Roles
<1> QED BY <1>1, <1>2, <1>3, <1>4, <1>5, <1>6, <1>7, <1>8, <1>9, <1>10 DEF RegistryNext

LEMMA SecretKept ==
  ASSUME RInv, [RegistryNext]_registryVars PROVE OneSecret'
<1> USE RegistryAssumption, NotUnsaid
<1>1. ASSUME NEW c \in Caller, Call(c) PROVE OneSecret'
  BY <1>1 DEF Call, Does, RInv, RegistryTypeOK, Roles, OneSecret
<1>2. ASSUME NEW c \in Caller, SelectSecret(c) PROVE OneSecret'
  BY <1>2 DEF SelectSecret, KeyKnown, Does, RInv, RegistryTypeOK, Roles, OneSecret
<1>3. ASSUME NEW c \in Caller, InsertSecret(c) PROVE OneSecret'
  BY <1>3 DEF InsertSecret, KeyKnown, Does, RInv, RegistryTypeOK, Roles, OneSecret
<1>4. ASSUME NEW c \in Caller, Sign(c) PROVE OneSecret'
  BY <1>4 DEF Sign, Does, RInv, RegistryTypeOK, Roles, OneSecret
<1>5. ASSUME NEW c \in Caller, CheckInvite(c) PROVE OneSecret'
  BY <1>5 DEF CheckInvite, Does, RInv, RegistryTypeOK, Roles, OneSecret
<1>6. ASSUME NEW c \in Caller, Get(c) PROVE OneSecret'
  BY <1>6 DEF Get, Does, RInv, RegistryTypeOK, Roles, OneSecret
<1>7. ASSUME NEW c \in Caller, Put(c) PROVE OneSecret'
  BY <1>7 DEF Put, Does, RInv, RegistryTypeOK, Roles, OneSecret
<1>8. CASE Pass
  BY <1>8 DEF Pass, RInv, RegistryTypeOK, Roles, OneSecret
<1>9. CASE Reopen
  BY <1>9 DEF Reopen, RInv, RegistryTypeOK, Roles, OneSecret
<1>10. CASE UNCHANGED registryVars
  BY <1>10 DEF registryVars, RInv, RegistryTypeOK, Roles, OneSecret
<1> QED BY <1>1, <1>2, <1>3, <1>4, <1>5, <1>6, <1>7, <1>8, <1>9, <1>10 DEF RegistryNext

LEMMA LatenessKept ==
  ASSUME RInv, [RegistryNext]_registryVars PROVE RefusedIsLate'
<1> USE RegistryAssumption, NotUnsaid DEF Caller, Invite, Valid
<1>1. ASSUME NEW c \in Caller, Call(c) PROVE RefusedIsLate'
  BY <1>1 DEF Call, Does, RInv, RegistryTypeOK, Roles, OneSecret, RefusedIsLate
<1>2. ASSUME NEW c \in Caller, SelectSecret(c) PROVE RefusedIsLate'
  BY <1>2 DEF SelectSecret, KeyKnown, Does, RInv, RegistryTypeOK, Roles, OneSecret, RefusedIsLate
<1>3. ASSUME NEW c \in Caller, InsertSecret(c) PROVE RefusedIsLate'
  BY <1>3 DEF InsertSecret, KeyKnown, Does, RInv, RegistryTypeOK, Roles, OneSecret, RefusedIsLate
<1>4. ASSUME NEW c \in Caller, Sign(c) PROVE RefusedIsLate'
  BY <1>4 DEF Sign, Does, RInv, RegistryTypeOK, Roles, OneSecret, RefusedIsLate
<1>5. ASSUME NEW c \in Caller, CheckInvite(c) PROVE RefusedIsLate'
  BY <1>5 DEF CheckInvite, Does, RInv, RegistryTypeOK, Roles, OneSecret, RefusedIsLate
<1>6. ASSUME NEW c \in Caller, Get(c) PROVE RefusedIsLate'
  BY <1>6 DEF Get, Does, RInv, RegistryTypeOK, Roles, OneSecret, RefusedIsLate
<1>7. ASSUME NEW c \in Caller, Put(c) PROVE RefusedIsLate'
  BY <1>7 DEF Put, Does, RInv, RegistryTypeOK, Roles, OneSecret, RefusedIsLate
<1>8. CASE Pass
  BY <1>8 DEF Pass, RInv, RegistryTypeOK, Roles, OneSecret, RefusedIsLate
<1>9. CASE Reopen
  BY <1>9 DEF Reopen, RInv, RegistryTypeOK, Roles, OneSecret, RefusedIsLate
<1>10. CASE UNCHANGED registryVars
  BY <1>10 DEF registryVars, RInv, RegistryTypeOK, Roles, OneSecret, RefusedIsLate
<1> QED BY <1>1, <1>2, <1>3, <1>4, <1>5, <1>6, <1>7, <1>8, <1>9, <1>10 DEF RegistryNext

LEMMA WishesKept ==
  ASSUME RInv, [RegistryNext]_registryVars PROVE Wishes'
<1> USE RegistryAssumption, NotUnsaid, Targets, Rows
<1>1. ASSUME NEW c \in Caller, Call(c) PROVE Wishes'
  BY <1>1 DEF Call, Does, RInv, RegistryTypeOK, Roles, Wishes, Kept
<1>2. ASSUME NEW c \in Caller, SelectSecret(c) PROVE Wishes'
  BY <1>2 DEF SelectSecret, KeyKnown, Does, RInv, RegistryTypeOK, Roles, Wishes, Kept
<1>3. ASSUME NEW c \in Caller, InsertSecret(c) PROVE Wishes'
  BY <1>3 DEF InsertSecret, KeyKnown, Does, RInv, RegistryTypeOK, Roles, Wishes, Kept
<1>4. ASSUME NEW c \in Caller, Sign(c) PROVE Wishes'
  BY <1>4 DEF Sign, Does, RInv, RegistryTypeOK, Roles, Wishes, Kept
<1>5. ASSUME NEW c \in Caller, CheckInvite(c) PROVE Wishes'
  BY <1>5 DEF CheckInvite, Does, RInv, RegistryTypeOK, Roles, Wishes, Kept
<1>6. ASSUME NEW c \in Caller, Get(c) PROVE Wishes'
  BY <1>6 DEF Get, Does, RInv, RegistryTypeOK, Roles, Wishes, Kept
<1>7. ASSUME NEW c \in Caller, Put(c) PROVE Wishes'
  <2> DEFINE t == TargetOf(c)
  <2>1. /\ t \in Target
        /\ targets' = [targets EXCEPT ![t] = IF c \in Updating THEN Edited(c) ELSE Registered(c)]
        /\ doing' = [doing EXCEPT ![c] = "over"] /\ seenRow' = [seenRow EXCEPT ![c] = Unsaid]
        /\ doing[c] = "put"
    BY <1>7 DEF Put, Does
  <2>2. CASE c \in Updating
    <3>1. /\ wish' = [wish EXCEPT ![t] = c]
          /\ mixed' = IF Holding(t) = {c} THEN mixed ELSE mixed \cup {t}
      BY <1>7, <2>2 DEF Put
    <3>2. targets'[t] = Edited(c) /\ Edited(c) # Unsaid /\ wish'[t] = c
      BY <2>1, <2>2, <3>1 DEF RInv, Wishes, RegistryTypeOK
    <3>3. Kept(targets[t], t)'
      BY <3>2 DEF Kept, Edited
    <3>4. \A u \in Target \ mixed' : wish'[u] # Unsaid => Kept(targets[u], u)'
      <4> TAKE u \in Target \ mixed'
      <4>1. u # t => targets'[u] = targets[u] /\ wish'[u] = wish[u] /\ u \notin mixed
        BY <2>1, <3>1 DEF RInv, RegistryTypeOK
      <4> QED BY <3>3, <4>1 DEF RInv, Wishes, Kept
    <3>5. ASSUME NEW d \in Caller, doing'[d] = "put"
          PROVE  /\ d # c /\ doing[d] = "put" /\ seenRow'[d] = seenRow[d]
                 /\ TargetOf(d) \notin mixed' =>
                       TargetOf(d) # t /\ TargetOf(d) \notin mixed /\ wish'[TargetOf(d)] = wish[TargetOf(d)]
      <4>1. d # c /\ doing[d] = "put" /\ seenRow'[d] = seenRow[d]
        BY <2>1, <3>5 DEF RInv, RegistryTypeOK
      <4>2. TargetOf(d) = t => t \in mixed'
        BY <3>1, <4>1 DEF Holding
      <4> QED BY <3>1, <4>1, <4>2 DEF RInv, RegistryTypeOK
    <3> QED BY <3>4, <3>5 DEF RInv, Wishes, Kept
  <2>3. CASE c \notin Updating
    <3>1. wish' = wish /\ mixed' = mixed
      BY <1>7, <2>3 DEF Put
    <3>2. t = Local => c = Local
      BY <2>3 DEF TargetOf, Caller
    <3>3. t \notin mixed /\ wish[t] # Unsaid => Kept(Registered(c), t)
      BY <2>1, <3>2 DEF RInv, Wishes, Kept, Registered
    <3>4. \A u \in Target \ mixed' : wish'[u] # Unsaid => Kept(targets[u], u)'
      <4> TAKE u \in Target \ mixed'
      <4>1. targets'[u] = IF u = t THEN Registered(c) ELSE targets[u]
        BY <2>1, <2>3 DEF RInv, RegistryTypeOK
      <4> QED BY <3>1, <3>3, <4>1 DEF RInv, Wishes, Kept
    <3>5. ASSUME NEW d \in Caller, doing'[d] = "put"
          PROVE  d # c /\ doing[d] = "put" /\ seenRow'[d] = seenRow[d]
      BY <2>1, <3>5 DEF RInv, RegistryTypeOK
    <3> QED BY <3>1, <3>4, <3>5 DEF RInv, Wishes, Kept
  <2> QED BY <2>2, <2>3
<1>8. CASE Pass
  BY <1>8 DEF Pass, RInv, RegistryTypeOK, Roles, Wishes, Kept
<1>9. CASE Reopen
  BY <1>9 DEF Reopen, RInv, RegistryTypeOK, Roles, Wishes, Kept
<1>10. CASE UNCHANGED registryVars
  BY <1>10 DEF registryVars, RInv, RegistryTypeOK, Roles, Wishes, Kept
<1> QED BY <1>1, <1>2, <1>3, <1>4, <1>5, <1>6, <1>7, <1>8, <1>9, <1>10 DEF RegistryNext

-----------------------------------------------------------------------------
\* What RegisterTarget, UpdateTarget, PairingSecret and validatePairingToken keep between
\* any two of their statements.
LEMMA RInvStep == ASSUME RInv, [RegistryNext]_registryVars PROVE RInv'
  BY RegistryTyped, RolesKept, SecretKept, LatenessKept, WishesKept DEF RInv

LEMMA RInvInductive == RegistrySpec => []RInv
  BY InitRInv, RInvStep, PTL DEF RegistrySpec

\* Every statement of a request leaves rows, invites and requests well typed, in
\* particular the row that RegisterTarget and UpdateTarget assemble from the one they read.
THEOREM RegistryTypeCorrect == RegistrySpec => []RegistryTypeOK
<1>1. RInv => RegistryTypeOK
  BY DEF RInv
<1> QED BY RInvInductive, <1>1, PTL

\* PairingSecret, however many first requests race and whenever the service is opened
\* again, gives all of them one secret: validatePairingToken refuses an expired invite only.
THEOREM OneSecretForAll == RegistrySpec => []InvitesAreAccepted
<1>1. RInv => InvitesAreAccepted
  BY DEF RInv, OneSecret, RefusedIsLate, InvitesAreAccepted
<1> QED BY RInvInductive, <1>1, PTL

\* RegisterLocalTarget and RegisterPairedTarget keep the name UpdateTarget gave a target, at
\* any start and at any heartbeat that did not read the row before that edit.
THEOREM EditsStay == RegistrySpec => []EditsOutliveHeartbeats
<1>1. RInv => EditsOutliveHeartbeats
  BY DEF RInv, Wishes, Kept, EditsOutliveHeartbeats
<1> QED BY RInvInductive, <1>1, PTL

-----------------------------------------------------------------------------
(* SessionCapture.                                                          *)

Judged(e) == judge[e] # Unjudged

(* As long as the turns of a session follow one another, a turn that adds   *)
(* sees all of it, and one that captures a prefix, judged as far as it got. *)
Copies ==
    \A t \in Turn : SessionOf[t] \notin crossed =>
       /\ phase[t] = "run" => view[t] = stored[SessionOf[t]]
       /\ phase[t] \in {"answered", "capture"} =>
             /\ Len(view[t]) <= Len(stored[SessionOf[t]])
             /\ \A i \in 1..Len(view[t]) : view[t][i] = stored[SessionOf[t]][i]
       /\ phase[t] = "capture" => \A i \in 1..at[t] : Judged(stored[SessionOf[t]][i])

OneAdds ==
    \A t, u \in Turn :
       phase[t] = "run" /\ phase[u] = "run" /\ SessionOf[t] = SessionOf[u] /\ t # u
          => SessionOf[t] \in crossed

Counted ==
    /\ \A t \in Turn : phase[t] = "capture" => at[t] <= Len(view[t])
    /\ \A e \in saved : Judged(e)
    /\ NoEventSkipped

(* The sources of a turn are marked until its capture is over, and an answer *)
(* is seen only once it was given.                                          *)
SourcesMarked ==
    /\ \A t \in OpenTurns \ unmarked : reads[t] \subseteq marked
    /\ \A t \in Turn : phase[t] = "idle" => reads[t] = {}

Given(e) == e.kind = "answer" => phase[e.turn] \in {"answered", "capture", "over"}

AnswersGiven ==
    /\ \A e \in saved : Given(e)
    /\ \A t \in Turn : \A i \in 1..Len(view[t]) : Given(view[t][i])
    /\ \A s \in Session : \A i \in 1..Len(stored[s]) : Given(stored[s][i])

CInv == /\ SessionTypeOK /\ Copies /\ OneAdds /\ Counted
        /\ SourcesMarked /\ AnswersGiven /\ AnswersKeepToFlows

-----------------------------------------------------------------------------
LEMMA Kinds == \A t \in Turn : \A k \in Kind : [turn |-> t, kind |-> k] \in Event
  BY DEF Event

LEMMA NextIsEvent ==
  ASSUME CInv, NEW t \in Turn, Capturing(t)
  PROVE  /\ NextEvent(t) \in Event
         /\ at[t] \in Nat /\ at[t] + 1 \in 1..Len(view[t])
         /\ SessionOf[t] \notin crossed =>
               /\ at[t] + 1 <= Len(stored[SessionOf[t]])
               /\ stored[SessionOf[t]][at[t] + 1] = NextEvent(t)
  BY SessionAssumption DEF Capturing, NextEvent, CInv, SessionTypeOK, Copies

LEMMA StoredEvents ==
  ASSUME CInv, NEW s \in Session, NEW i \in 1..Len(stored[s])
  PROVE  stored[s][i] \in Event
<1>1. stored[s] \in Seq(Event)
  BY DEF CInv, SessionTypeOK
<1> QED BY <1>1

LEMMA EmptyView == <<>> \in Seq(Event)
  OBVIOUS

(* One event dealt with: the cursor of the session may move past it.        *)
LEMMA CountedStep ==
  ASSUME CInv, NEW t \in Turn, Capturing(t),
         at' = [at EXCEPT ![t] = @ + 1],
         cursor' = [cursor EXCEPT ![SessionOf[t]] = IF at[t] + 1 > @ THEN at[t] + 1 ELSE @],
         saved' \subseteq saved \cup {NextEvent(t)},
         judge'[NextEvent(t)] # Unjudged,
         \A f \in Event : Judged(f) => judge'[f] # Unjudged,
         UNCHANGED <<stored, view, phase, crossed>>
  PROVE  Counted'
<1> USE SessionAssumption
<1> DEFINE s == SessionOf[t]
<1>1. \A u \in Turn : phase'[u] = "capture" => at'[u] <= Len(view'[u])
  BY NextIsEvent DEF CInv, SessionTypeOK, Counted
<1>2. \A e \in saved' : judge'[e] # Unjudged
  BY NextIsEvent DEF CInv, SessionTypeOK, Counted
<1>3. ASSUME NEW r \in Session \ crossed, NEW i \in 1..cursor'[r]
      PROVE  i <= Len(stored[r]) /\ judge'[stored[r][i]] # Unjudged
  <2>1. CASE i <= cursor[r]
    <3>1. i \in 1..cursor[r] /\ i <= Len(stored[r]) /\ Judged(stored[r][i])
      BY <1>3, <2>1 DEF CInv, SessionTypeOK, Counted, NoEventSkipped, Judged
    <3>2. stored[r][i] \in Event
      BY <3>1 DEF CInv, SessionTypeOK
    <3> QED BY <3>1, <3>2
  <2>2. CASE i > cursor[r]
    <3>1. r = s /\ i \in 1..(at[t] + 1) /\ phase[t] = "capture" /\ s \notin crossed
      BY <1>3, <2>2 DEF CInv, SessionTypeOK, Capturing
    <3>2. at[t] \in Nat /\ at[t] + 1 <= Len(stored[s]) /\ stored[s][at[t] + 1] = NextEvent(t)
      BY <3>1, NextIsEvent
    <3>3. CASE i = at[t] + 1
      BY <3>1, <3>2, <3>3
    <3>4. CASE i # at[t] + 1
      <4>1. i \in 1..at[t] /\ Judged(stored[s][i])
        BY <3>1, <3>2, <3>4 DEF CInv, Copies
      <4>2. stored[s][i] \in Event /\ i <= Len(stored[s])
        BY <3>1, <3>2, <4>1 DEF CInv, SessionTypeOK
      <4> QED BY <3>1, <4>1, <4>2
    <3> QED BY <3>3, <3>4
  <2> QED BY <1>3, <2>1, <2>2 DEF CInv, SessionTypeOK
<1> QED BY <1>1, <1>2, <1>3 DEF Counted, Judged, NoEventSkipped

(* One event dealt with: what the turn has passed is judged.                *)
LEMMA CopiesStep ==
  ASSUME CInv, NEW t \in Turn, Capturing(t),
         at' = [at EXCEPT ![t] = @ + 1],
         judge'[NextEvent(t)] # Unjudged,
         \A f \in Event : Judged(f) => judge'[f] # Unjudged,
         UNCHANGED <<stored, view, phase, crossed>>
  PROVE  Copies'
<1> USE SessionAssumption
<1>1. SUFFICES ASSUME NEW u \in Turn, SessionOf[u] \notin crossed, phase[u] = "capture",
                      NEW i \in 1..at'[u]
               PROVE  judge'[stored[SessionOf[u]][i]] # Unjudged
  BY DEF CInv, Copies, Judged
<1>2. CASE u = t
  <2>1. at'[t] = at[t] + 1 /\ at[t] \in Nat
    BY NextIsEvent DEF CInv, SessionTypeOK
  <2>2. CASE i = at[t] + 1
    BY <1>1, <1>2, <2>2, NextIsEvent
  <2>3. CASE i # at[t] + 1
    <3>1. i \in 1..at[t] /\ i \in 1..Len(stored[SessionOf[t]])
      BY <1>1, <1>2, <2>1, <2>3, NextIsEvent
    <3>2. Judged(stored[SessionOf[t]][i])
      BY <1>1, <1>2, <3>1 DEF CInv, Copies
    <3>3. stored[SessionOf[t]][i] \in Event
      BY <3>1, StoredEvents
    <3> QED BY <1>2, <3>2, <3>3
  <2> QED BY <2>2, <2>3
<1>3. CASE u # t
  <2>1. at'[u] = at[u] /\ at[u] \in Nat /\ at[u] <= Len(view[u])
    BY <1>1, <1>3 DEF CInv, SessionTypeOK, Counted
  <2>2. i \in 1..Len(stored[SessionOf[u]]) /\ Judged(stored[SessionOf[u]][i])
    BY <1>1, <2>1 DEF CInv, Copies, SessionTypeOK
  <2>3. stored[SessionOf[u]][i] \in Event
    BY <2>2, StoredEvents
  <2> QED BY <2>2, <2>3
<1> QED BY <1>2, <1>3

(* What a turn saves of its own answers was informed by what is marked.     *)
LEMMA FlowsStep ==
  ASSUME CInv, NEW t \in Turn, Capturing(t), MayBeSaved(NextEvent(t)),
         saved' = saved \cup {NextEvent(t)},
         judge' = [judge EXCEPT ![NextEvent(t)] = IF NextEvent(t) \in saved THEN @ ELSE t],
         UNCHANGED <<reads, unmarked>>
  PROVE  AnswersKeepToFlows'
<1> USE SessionAssumption
<1>1. SUFFICES ASSUME NEW u \in Turn \ unmarked, [turn |-> u, kind |-> "answer"] \in saved',
                      judge'[[turn |-> u, kind |-> "answer"]] = u
               PROVE  reads[u] \subseteq Flows \cup {WriteDomain}
  BY DEF AnswersKeepToFlows
<1> DEFINE e == [turn |-> u, kind |-> "answer"]
<1>2. CASE e \in saved
  BY <1>1, <1>2 DEF CInv, SessionTypeOK, AnswersKeepToFlows
<1>3. CASE e \notin saved
  <2>1. e = NextEvent(t) /\ u = t
    BY <1>1, <1>3, NextIsEvent DEF CInv, SessionTypeOK
  <2>2. reads[t] \subseteq marked
    BY <1>1, <2>1 DEF CInv, SourcesMarked, OpenTurns, Capturing
  <2>3. marked # {} => marked \subseteq Flows \cup {WriteDomain}
    BY <2>1 DEF MayBeSaved, SourcesOf, CanWriteFromSources
  <2> QED BY <2>1, <2>2, <2>3
<1> QED BY <1>2, <1>3

LEMMA InitCInv == SessionInit => CInv
<1> SUFFICES ASSUME SessionInit PROVE CInv
  OBVIOUS
<1> USE SessionAssumption DEF SessionInit
<1>1. SessionTypeOK
  BY DEF SessionTypeOK
<1>2. Copies /\ OneAdds
  BY DEF Copies, OneAdds
<1>3. Counted
  BY DEF Counted, NoEventSkipped
<1>4. SourcesMarked /\ AnswersGiven /\ AnswersKeepToFlows
  BY DEF SourcesMarked, OpenTurns, AnswersGiven, AnswersKeepToFlows
<1> QED BY <1>1, <1>2, <1>3, <1>4 DEF CInv

LEMMA SessionTyped == ASSUME CInv, [SessionNext]_sessionVars PROVE SessionTypeOK'
<1> USE SessionAssumption, Kinds DEF Kind
<1>1. ASSUME NEW t \in Turn, Begin(t) PROVE SessionTypeOK'
  <2> DEFINE e == [turn |-> t, kind |-> "user"]
  <2>1. e \in Event
    BY Kinds DEF Kind
  <2>2. stored[SessionOf[t]] \in Seq(Event)
    BY DEF CInv, SessionTypeOK
  <2>3. Append(stored[SessionOf[t]], e) \in Seq(Event)
    BY <2>1, <2>2
  <2>4. /\ view' = [view EXCEPT ![t] = Append(stored[SessionOf[t]], e)]
        /\ stored' = [stored EXCEPT ![SessionOf[t]] = Append(@, e)]
        /\ crossed' \subseteq crossed \cup {SessionOf[t]}
        /\ phase' = [phase EXCEPT ![t] = "run"]
        /\ UNCHANGED <<at, cursor, marked, saved, failures, reboots, reads, judge, unmarked>>
    BY <1>1 DEF Begin, Enters
  <2>5. stored' \in [Session -> Seq(Event)] /\ view' \in [Turn -> Seq(Event)]
    BY <2>3, <2>4 DEF CInv, SessionTypeOK
  <2> QED BY <2>4, <2>5 DEF CInv, SessionTypeOK
<1>2. ASSUME NEW t \in Turn, SearchMemory(t) PROVE SessionTypeOK'
  BY <1>2 DEF SearchMemory, CInv, SessionTypeOK
<1>3. ASSUME NEW t \in Turn, Answer(t) PROVE SessionTypeOK'
  <2> DEFINE k == IF t \in Confirming THEN "call" ELSE "answer"
             e == [turn |-> t, kind |-> k]
  <2>1. e \in Event
    BY Kinds DEF Kind
  <2>2. stored[SessionOf[t]] \in Seq(Event) /\ view[t] \in Seq(Event)
    BY DEF CInv, SessionTypeOK
  <2>3. Append(stored[SessionOf[t]], e) \in Seq(Event) /\ Append(view[t], e) \in Seq(Event)
    BY <2>1, <2>2
  <2>4. /\ view' = [view EXCEPT ![t] = Append(@, e)]
        /\ stored' = [stored EXCEPT ![SessionOf[t]] = Append(@, e)]
        /\ phase' = [phase EXCEPT ![t] = "answered"]
        /\ UNCHANGED <<at, cursor, marked, saved, failures, reboots, reads, judge, crossed, unmarked>>
    BY <1>3 DEF Answer, Add, Enters
  <2>5. stored' \in [Session -> Seq(Event)] /\ view' \in [Turn -> Seq(Event)]
    BY <2>3, <2>4 DEF CInv, SessionTypeOK
  <2> QED BY <2>4, <2>5 DEF CInv, SessionTypeOK
<1>4. ASSUME NEW t \in Turn, NextCaptureStart(t) PROVE SessionTypeOK'
  BY <1>4 DEF NextCaptureStart, Enters, CInv, SessionTypeOK
<1>5. ASSUME NEW t \in Turn, PassOver(t) PROVE SessionTypeOK'
  BY <1>5, NextIsEvent DEF PassOver, MarkCaptured, CInv, SessionTypeOK
<1>6. ASSUME NEW t \in Turn, SaveEvent(t) PROVE SessionTypeOK'
  BY <1>6, NextIsEvent DEF SaveEvent, MarkCaptured, CInv, SessionTypeOK
<1>7. ASSUME NEW t \in Turn, Fail(t) PROVE SessionTypeOK'
  <2>1. view' \in [Turn -> Seq(Event)] /\ at' \in [Turn -> Nat]
    BY <1>7, EmptyView DEF Fail, Over, CInv, SessionTypeOK
  <2>2. saved' \subseteq Event /\ judge' \in [Event -> Turn \cup {Unjudged}]
    <3>1. NextEvent(t) \in Event
      BY <1>7, NextIsEvent DEF Fail
    <3>2. CASE UNCHANGED <<saved, judge>>
      BY <3>2 DEF CInv, SessionTypeOK
    <3>3. CASE /\ saved' = saved \cup {NextEvent(t)}
               /\ judge' = [judge EXCEPT ![NextEvent(t)] = IF NextEvent(t) \in saved THEN @ ELSE t]
      BY <3>1, <3>3 DEF CInv, SessionTypeOK
    <3> QED BY <1>7, <3>2, <3>3 DEF Fail
  <2>3. failures' \in 0..MaxFailures
    BY <1>7 DEF Fail, CInv, SessionTypeOK
  <2>4. phase' \in [Turn -> {"idle", "run", "answered", "capture", "over"}]
    BY <1>7 DEF Fail, Over, Enters, CInv, SessionTypeOK
  <2>5. UNCHANGED <<stored, cursor, marked, reboots, reads, crossed, unmarked>>
    BY <1>7 DEF Fail
  <2> QED BY <2>1, <2>2, <2>3, <2>4, <2>5 DEF CInv, SessionTypeOK
<1>8. ASSUME NEW t \in Turn, Finish(t) PROVE SessionTypeOK'
  <2>1. view' \in [Turn -> Seq(Event)] /\ at' \in [Turn -> Nat]
    BY <1>8, EmptyView DEF Finish, Over, CInv, SessionTypeOK
  <2>2. phase' \in [Turn -> {"idle", "run", "answered", "capture", "over"}]
    BY <1>8 DEF Finish, Over, Enters, CInv, SessionTypeOK
  <2>3. unmarked' \subseteq Turn /\ marked' = {}
    BY <1>8 DEF Finish, OpenTurns, CInv, SessionTypeOK
  <2>4. UNCHANGED <<stored, cursor, saved, failures, reboots, reads, judge, crossed>>
    BY <1>8 DEF Finish
  <2> QED BY <2>1, <2>2, <2>3, <2>4 DEF CInv, SessionTypeOK
<1>9. CASE Reboot
  BY <1>9 DEF Reboot, CInv, SessionTypeOK
<1>10. CASE UNCHANGED sessionVars
  BY <1>10 DEF sessionVars, CInv, SessionTypeOK
<1> QED BY <1>1, <1>2, <1>3, <1>4, <1>5, <1>6, <1>7, <1>8, <1>9, <1>10 DEF SessionNext

LEMMA OneAddsKept == ASSUME CInv, [SessionNext]_sessionVars PROVE OneAdds'
<1> USE SessionAssumption
<1>1. ASSUME NEW t \in Turn, Begin(t) PROVE OneAdds'
  BY <1>1 DEF Begin, Enters, CInv, SessionTypeOK, OneAdds, Adding
<1>2. ASSUME NEW t \in Turn, SearchMemory(t) PROVE OneAdds'
  BY <1>2 DEF SearchMemory, CInv, SessionTypeOK, OneAdds, Adding
<1>3. ASSUME NEW t \in Turn, Answer(t) PROVE OneAdds'
  BY <1>3 DEF Answer, Add, Enters, CInv, SessionTypeOK, OneAdds, Adding
<1>4. ASSUME NEW t \in Turn, NextCaptureStart(t) PROVE OneAdds'
  BY <1>4 DEF NextCaptureStart, Enters, CInv, SessionTypeOK, OneAdds, Adding
<1>5. ASSUME NEW t \in Turn, PassOver(t) PROVE OneAdds'
  BY <1>5, NextIsEvent DEF PassOver, MarkCaptured, CInv, SessionTypeOK, OneAdds, Adding
<1>6. ASSUME NEW t \in Turn, SaveEvent(t) PROVE OneAdds'
  BY <1>6, NextIsEvent DEF SaveEvent, MarkCaptured, CInv, SessionTypeOK, OneAdds, Adding
<1>7. ASSUME NEW t \in Turn, Fail(t) PROVE OneAdds'
  BY <1>7, NextIsEvent DEF Fail, Over, Enters, CInv, SessionTypeOK, OneAdds, Adding
<1>8. ASSUME NEW t \in Turn, Finish(t) PROVE OneAdds'
  BY <1>8 DEF Finish, Over, Enters, CInv, SessionTypeOK, OneAdds, Adding
<1>9. CASE Reboot
  BY <1>9 DEF Reboot, CInv, SessionTypeOK, OneAdds, Adding
<1>10. CASE UNCHANGED sessionVars
  BY <1>10 DEF sessionVars, CInv, SessionTypeOK, OneAdds, Adding
<1> QED BY <1>1, <1>2, <1>3, <1>4, <1>5, <1>6, <1>7, <1>8, <1>9, <1>10 DEF SessionNext

LEMMA CopiesKept == ASSUME CInv, [SessionNext]_sessionVars PROVE Copies'
<1> USE SessionAssumption
<1>1. ASSUME NEW t \in Turn, Begin(t) PROVE Copies'
  BY <1>1, SMTT(30) DEF Begin, Enters, CInv, SessionTypeOK, OneAdds, Copies, Judged, Adding, Counted
<1>2. ASSUME NEW t \in Turn, SearchMemory(t) PROVE Copies'
  BY <1>2 DEF SearchMemory, CInv, SessionTypeOK, OneAdds, Copies, Judged, Adding, Counted
<1>3. ASSUME NEW t \in Turn, Answer(t) PROVE Copies'
  BY <1>3 DEF Answer, Add, Enters, CInv, SessionTypeOK, OneAdds, Copies, Judged, Adding, Counted
<1>4. ASSUME NEW t \in Turn, NextCaptureStart(t) PROVE Copies'
  <2> DEFINE start == IF cursor[SessionOf[t]] > Len(view[t]) THEN 0 ELSE cursor[SessionOf[t]]
  <2>1. /\ at' = [at EXCEPT ![t] = start] /\ phase' = [phase EXCEPT ![t] = "capture"]
        /\ UNCHANGED <<stored, view, judge, crossed>> /\ phase[t] = "answered"
    BY <1>4 DEF NextCaptureStart, Enters
  <2>2. SessionOf[t] \notin crossed => \A i \in 1..start : Judged(stored[SessionOf[t]][i])
    BY DEF CInv, Counted, NoEventSkipped, Judged, SessionTypeOK
  <2> HIDE DEF start
  <2>3. at'[t] = start /\ phase'[t] = "capture"
    BY <2>1 DEF CInv, SessionTypeOK
  <2>4. \A u \in Turn : u # t => phase'[u] = phase[u] /\ at'[u] = at[u]
    BY <2>1 DEF CInv, SessionTypeOK
  <2>5. SUFFICES ASSUME NEW u \in Turn, SessionOf[u] \notin crossed
        PROVE  /\ phase'[u] = "run" => view[u] = stored[SessionOf[u]]
               /\ phase'[u] \in {"answered", "capture"} =>
                     /\ Len(view[u]) <= Len(stored[SessionOf[u]])
                     /\ \A i \in 1..Len(view[u]) : view[u][i] = stored[SessionOf[u]][i]
               /\ phase'[u] = "capture" => \A i \in 1..at'[u] : Judged(stored[SessionOf[u]][i])
    BY <2>1 DEF Copies, Judged
  <2>6. CASE u = t
    BY <2>1, <2>2, <2>3, <2>5, <2>6 DEF CInv, Copies
  <2>7. CASE u # t
    BY <2>4, <2>5, <2>7 DEF CInv, Copies
  <2> QED BY <2>6, <2>7
<1>5. ASSUME NEW t \in Turn, PassOver(t) PROVE Copies'
  <2>1. /\ at' = [at EXCEPT ![t] = @ + 1] /\ Capturing(t)
        /\ judge' = [judge EXCEPT ![NextEvent(t)] = IF @ = Unjudged THEN t ELSE @]
        /\ UNCHANGED <<stored, view, phase, crossed>>
    BY <1>5 DEF PassOver, MarkCaptured
  <2>2. /\ judge'[NextEvent(t)] # Unjudged
        /\ \A f \in Event : Judged(f) => judge'[f] # Unjudged
    BY <2>1, NextIsEvent DEF CInv, SessionTypeOK, Judged
  <2> QED BY <2>1, <2>2, CopiesStep
<1>6. ASSUME NEW t \in Turn, SaveEvent(t) PROVE Copies'
  <2>1. /\ at' = [at EXCEPT ![t] = @ + 1] /\ Capturing(t)
        /\ judge' = [judge EXCEPT ![NextEvent(t)] = IF NextEvent(t) \in saved THEN @ ELSE t]
        /\ UNCHANGED <<stored, view, phase, crossed>>
    BY <1>6 DEF SaveEvent, MarkCaptured
  <2>2. /\ judge'[NextEvent(t)] # Unjudged
        /\ \A f \in Event : Judged(f) => judge'[f] # Unjudged
    BY <2>1, NextIsEvent DEF CInv, SessionTypeOK, Judged, Counted
  <2> QED BY <2>1, <2>2, CopiesStep
<1>7. ASSUME NEW t \in Turn, Fail(t) PROVE Copies'
  BY <1>7, NextIsEvent, SMTT(30) DEF Fail, Over, Enters, CInv, SessionTypeOK, OneAdds, Copies, Judged,
     Adding, Counted
<1>8. ASSUME NEW t \in Turn, Finish(t) PROVE Copies'
  BY <1>8 DEF Finish, Over, Enters, CInv, SessionTypeOK, OneAdds, Copies, Judged, Adding, Counted
<1>9. CASE Reboot
  BY <1>9 DEF Reboot, CInv, SessionTypeOK, OneAdds, Copies, Judged, Adding, Counted
<1>10. CASE UNCHANGED sessionVars
  BY <1>10 DEF sessionVars, CInv, SessionTypeOK, OneAdds, Copies, Judged, Adding, Counted
<1> QED BY <1>1, <1>2, <1>3, <1>4, <1>5, <1>6, <1>7, <1>8, <1>9, <1>10 DEF SessionNext

LEMMA CountedKept == ASSUME CInv, [SessionNext]_sessionVars PROVE Counted'
<1> USE SessionAssumption
<1>1. ASSUME NEW t \in Turn, Begin(t) PROVE Counted'
  BY <1>1, SMTT(30) DEF Begin, Enters, CInv, SessionTypeOK, Copies, Judged, Counted, NoEventSkipped
<1>2. ASSUME NEW t \in Turn, SearchMemory(t) PROVE Counted'
  BY <1>2 DEF SearchMemory, CInv, SessionTypeOK, Copies, Judged, Counted, NoEventSkipped
<1>3. ASSUME NEW t \in Turn, Answer(t) PROVE Counted'
  BY <1>3 DEF Answer, Add, Enters, CInv, SessionTypeOK, Copies, Judged, Counted, NoEventSkipped
<1>4. ASSUME NEW t \in Turn, NextCaptureStart(t) PROVE Counted'
  BY <1>4 DEF NextCaptureStart, Enters, CInv, SessionTypeOK, Copies, Judged, Counted, NoEventSkipped
<1>5. ASSUME NEW t \in Turn, PassOver(t) PROVE Counted'
  <2> DEFINE e == NextEvent(t)
             s == SessionOf[t]
  <2>1. /\ at' = [at EXCEPT ![t] = @ + 1]
        /\ cursor' = [cursor EXCEPT ![s] = IF at[t] + 1 > @ THEN at[t] + 1 ELSE @]
        /\ judge' = [judge EXCEPT ![e] = IF @ = Unjudged THEN t ELSE @]
        /\ UNCHANGED <<stored, view, phase, saved, crossed>> /\ Capturing(t)
    BY <1>5 DEF PassOver, MarkCaptured
  <2>2. e \in Event /\ judge'[e] # Unjudged /\ \A f \in Event : Judged(f) => judge'[f] # Unjudged
    BY <2>1, NextIsEvent DEF CInv, SessionTypeOK, Judged
  <2> QED BY <2>1, <2>2, CountedStep
<1>6. ASSUME NEW t \in Turn, SaveEvent(t) PROVE Counted'
  <2> DEFINE e == NextEvent(t)
             s == SessionOf[t]
  <2>1. /\ at' = [at EXCEPT ![t] = @ + 1]
        /\ cursor' = [cursor EXCEPT ![s] = IF at[t] + 1 > @ THEN at[t] + 1 ELSE @]
        /\ judge' = [judge EXCEPT ![e] = IF e \in saved THEN @ ELSE t]
        /\ saved' = saved \cup {e}
        /\ UNCHANGED <<stored, view, phase, crossed>> /\ Capturing(t)
    BY <1>6 DEF SaveEvent, MarkCaptured
  <2>2. e \in Event /\ judge'[e] # Unjudged /\ \A f \in Event : Judged(f) => judge'[f] # Unjudged
    BY <2>1, NextIsEvent DEF CInv, SessionTypeOK, Judged, Counted
  <2> QED BY <2>1, <2>2, CountedStep
<1>7. ASSUME NEW t \in Turn, Fail(t) PROVE Counted'
  BY <1>7, NextIsEvent DEF Fail, Over, Enters, CInv, SessionTypeOK, Copies, Judged, Counted, NoEventSkipped
<1>8. ASSUME NEW t \in Turn, Finish(t) PROVE Counted'
  BY <1>8 DEF Finish, Over, Enters, CInv, SessionTypeOK, Copies, Judged, Counted, NoEventSkipped
<1>9. CASE Reboot
  BY <1>9 DEF Reboot, CInv, SessionTypeOK, Copies, Judged, Counted, NoEventSkipped
<1>10. CASE UNCHANGED sessionVars
  BY <1>10 DEF sessionVars, CInv, SessionTypeOK, Copies, Judged, Counted, NoEventSkipped
<1> QED BY <1>1, <1>2, <1>3, <1>4, <1>5, <1>6, <1>7, <1>8, <1>9, <1>10 DEF SessionNext

LEMMA MarkedKept == ASSUME CInv, [SessionNext]_sessionVars PROVE SourcesMarked'
<1> USE SessionAssumption
<1>1. ASSUME NEW t \in Turn, Begin(t) PROVE SourcesMarked'
  BY <1>1 DEF Begin, Enters, CInv, SessionTypeOK, SourcesMarked, OpenTurns
<1>2. ASSUME NEW t \in Turn, SearchMemory(t) PROVE SourcesMarked'
  BY <1>2 DEF SearchMemory, CInv, SessionTypeOK, SourcesMarked, OpenTurns
<1>3. ASSUME NEW t \in Turn, Answer(t) PROVE SourcesMarked'
  BY <1>3 DEF Answer, Add, Enters, CInv, SessionTypeOK, SourcesMarked, OpenTurns
<1>4. ASSUME NEW t \in Turn, NextCaptureStart(t) PROVE SourcesMarked'
  BY <1>4 DEF NextCaptureStart, Enters, CInv, SessionTypeOK, SourcesMarked, OpenTurns
<1>5. ASSUME NEW t \in Turn, PassOver(t) PROVE SourcesMarked'
  BY <1>5, NextIsEvent DEF PassOver, MarkCaptured, CInv, SessionTypeOK, SourcesMarked, OpenTurns
<1>6. ASSUME NEW t \in Turn, SaveEvent(t) PROVE SourcesMarked'
  BY <1>6, NextIsEvent DEF SaveEvent, MarkCaptured, CInv, SessionTypeOK, SourcesMarked, OpenTurns
<1>7. ASSUME NEW t \in Turn, Fail(t) PROVE SourcesMarked'
  BY <1>7, NextIsEvent DEF Fail, Over, Enters, CInv, SessionTypeOK, SourcesMarked, OpenTurns
<1>8. ASSUME NEW t \in Turn, Finish(t) PROVE SourcesMarked'
  BY <1>8 DEF Finish, Over, Enters, CInv, SessionTypeOK, SourcesMarked, OpenTurns
<1>9. CASE Reboot
  BY <1>9 DEF Reboot, CInv, SessionTypeOK, SourcesMarked, OpenTurns
<1>10. CASE UNCHANGED sessionVars
  BY <1>10 DEF sessionVars, CInv, SessionTypeOK, SourcesMarked, OpenTurns
<1> QED BY <1>1, <1>2, <1>3, <1>4, <1>5, <1>6, <1>7, <1>8, <1>9, <1>10 DEF SessionNext

LEMMA GivenKept == ASSUME CInv, [SessionNext]_sessionVars PROVE AnswersGiven'
<1> USE SessionAssumption
<1>1. ASSUME NEW t \in Turn, Begin(t) PROVE AnswersGiven'
  <2> DEFINE e == [turn |-> t, kind |-> "user"]
  <2>1. /\ view' = [view EXCEPT ![t] = Append(stored[SessionOf[t]], e)]
        /\ stored' = [stored EXCEPT ![SessionOf[t]] = Append(@, e)]
        /\ phase[t] = "idle" /\ phase' = [phase EXCEPT ![t] = "run"] /\ saved' = saved
    BY <1>1 DEF Begin, Enters
  <2>2. e \in Event /\ Given(e)'
    BY Kinds DEF Kind, Given
  <2>3. \A f \in Event : Given(f) => Given(f)'
    BY <2>1 DEF Given, CInv, SessionTypeOK, Event
  <2>4. Given(e)
    BY DEF Given
  <2>5. \A i \in 1..Len(Append(stored[SessionOf[t]], e)) :
           Append(stored[SessionOf[t]], e)[i] \in Event /\ Given(Append(stored[SessionOf[t]], e)[i])
    <3> DEFINE q == stored[SessionOf[t]]
    <3>1. q \in Seq(Event) /\ \A i \in 1..Len(q) : q[i] \in Event /\ Given(q[i])
      BY DEF CInv, SessionTypeOK, AnswersGiven
    <3> HIDE DEF q, e
    <3>2. Len(Append(q, e)) = Len(q) + 1 /\ Append(q, e)[Len(q) + 1] = e
          /\ \A i \in 1..Len(q) : Append(q, e)[i] = q[i]
      BY <3>1, <2>2
    <3> QED BY <3>1, <3>2, <2>2, <2>4 DEF q
  <2>6. ASSUME NEW u \in Turn, NEW i \in 1..Len(view'[u])
        PROVE  view'[u][i] \in Event /\ Given(view'[u][i])
    <3>1. CASE u = t
      <4>1. view'[u] = Append(stored[SessionOf[t]], e)
        BY <2>1, <3>1 DEF CInv, SessionTypeOK
      <4> HIDE DEF e
      <4> QED BY <2>5, <4>1
    <3>2. CASE u # t
      <4>1. view'[u] = view[u]
        BY <2>1, <3>2 DEF CInv, SessionTypeOK
      <4> QED BY <4>1 DEF CInv, AnswersGiven, SessionTypeOK
    <3> QED BY <3>1, <3>2
  <2>7. ASSUME NEW s \in Session, NEW i \in 1..Len(stored'[s])
        PROVE  stored'[s][i] \in Event /\ Given(stored'[s][i])
    <3>1. CASE s = SessionOf[t]
      <4>1. stored'[s] = Append(stored[SessionOf[t]], e)
        BY <2>1, <3>1 DEF CInv, SessionTypeOK
      <4> HIDE DEF e
      <4> QED BY <2>5, <4>1
    <3>2. CASE s # SessionOf[t]
      <4>1. stored'[s] = stored[s]
        BY <2>1, <3>2 DEF CInv, SessionTypeOK
      <4> QED BY <4>1 DEF CInv, AnswersGiven, SessionTypeOK
    <3> QED BY <3>1, <3>2
  <2>8. \A f \in saved : Given(f)'
    BY <2>3 DEF CInv, SessionTypeOK, AnswersGiven
  <2>9. \A u \in Turn : \A i \in 1..Len(view'[u]) : Given(view[u][i])'
    BY <2>3, <2>6 DEF Given
  <2>10. \A s \in Session : \A i \in 1..Len(stored'[s]) : Given(stored[s][i])'
    BY <2>3, <2>7 DEF Given
  <2> QED BY <2>1, <2>8, <2>9, <2>10 DEF AnswersGiven, Given
<1>2. ASSUME NEW t \in Turn, SearchMemory(t) PROVE AnswersGiven'
  BY <1>2 DEF SearchMemory, CInv, SessionTypeOK, AnswersGiven, Given
<1>3. ASSUME NEW t \in Turn, Answer(t) PROVE AnswersGiven'
  BY <1>3, SMTT(30) DEF Answer, Add, Enters, CInv, SessionTypeOK, AnswersGiven, Given
<1>4. ASSUME NEW t \in Turn, NextCaptureStart(t) PROVE AnswersGiven'
  BY <1>4 DEF NextCaptureStart, Enters, CInv, SessionTypeOK, AnswersGiven, Given
<1>5. ASSUME NEW t \in Turn, PassOver(t) PROVE AnswersGiven'
  BY <1>5, NextIsEvent DEF PassOver, MarkCaptured, CInv, SessionTypeOK, AnswersGiven, Given
<1>6. ASSUME NEW t \in Turn, SaveEvent(t) PROVE AnswersGiven'
  <2>1. Given(NextEvent(t)) /\ NextEvent(t) \in Event
    BY <1>6, NextIsEvent DEF SaveEvent, Capturing, NextEvent, CInv, AnswersGiven
  <2>2. saved' = saved \cup {NextEvent(t)} /\ UNCHANGED <<stored, view, phase>>
    BY <1>6 DEF SaveEvent
  <2> QED BY <2>1, <2>2 DEF CInv, AnswersGiven, Given
<1>7. ASSUME NEW t \in Turn, Fail(t) PROVE AnswersGiven'
  <2>1. Given(NextEvent(t)) /\ NextEvent(t) \in Event
    BY <1>7, NextIsEvent DEF Fail, Capturing, NextEvent, CInv, AnswersGiven
  <2>2. /\ saved' \subseteq saved \cup {NextEvent(t)} /\ stored' = stored
        /\ phase' = [phase EXCEPT ![t] = "over"] /\ view' = [view EXCEPT ![t] = <<>>]
    BY <1>7 DEF Fail, Over, Enters
  <2>3. \A f \in Event : Given(f) => Given(f)'
    BY <2>2 DEF Given, CInv, SessionTypeOK, Event
  <2>4. \A f \in saved' : Given(f)'
    BY <2>1, <2>2, <2>3 DEF CInv, SessionTypeOK, AnswersGiven
  <2>5. \A u \in Turn : \A i \in 1..Len(view'[u]) : view'[u][i] \in Event /\ Given(view'[u][i])
    BY <2>2 DEF CInv, SessionTypeOK, AnswersGiven
  <2>6. \A s \in Session : \A i \in 1..Len(stored[s]) : stored[s][i] \in Event /\ Given(stored[s][i])
    BY DEF CInv, SessionTypeOK, AnswersGiven
  <2>7. \A u \in Turn : \A i \in 1..Len(view'[u]) : Given(view[u][i])'
    BY <2>3, <2>5 DEF Given
  <2>8. \A s \in Session : \A i \in 1..Len(stored'[s]) : Given(stored[s][i])'
    BY <2>2, <2>3, <2>6 DEF Given
  <2> QED BY <2>4, <2>7, <2>8 DEF AnswersGiven
<1>8. ASSUME NEW t \in Turn, Finish(t) PROVE AnswersGiven'
  BY <1>8 DEF Finish, Over, Enters, CInv, SessionTypeOK, AnswersGiven, Given
<1>9. CASE Reboot
  <2>1. /\ phase' = [u \in Turn |-> IF phase[u] = "idle" THEN "idle" ELSE "over"]
        /\ view' = [u \in Turn |-> <<>>] /\ UNCHANGED <<stored, saved>>
    BY <1>9 DEF Reboot
  <2>2. \A f \in Event : Given(f) => Given(f)'
    BY <2>1 DEF Given, CInv, SessionTypeOK, Event
  <2>3. \A s \in Session : \A i \in 1..Len(stored[s]) : stored[s][i] \in Event /\ Given(stored[s][i])
    BY DEF CInv, SessionTypeOK, AnswersGiven
  <2>4. \A s \in Session : \A i \in 1..Len(stored'[s]) : Given(stored[s][i])'
    BY <2>1, <2>2, <2>3 DEF Given
  <2>5. \A f \in saved' : Given(f)'
    BY <2>1, <2>2 DEF CInv, SessionTypeOK, AnswersGiven
  <2>6. \A u \in Turn : \A i \in 1..Len(view'[u]) : Given(view[u][i])'
    BY <2>1
  <2> QED BY <2>4, <2>5, <2>6 DEF AnswersGiven
<1>10. CASE UNCHANGED sessionVars
  BY <1>10 DEF sessionVars, CInv, SessionTypeOK, AnswersGiven, Given
<1> QED BY <1>1, <1>2, <1>3, <1>4, <1>5, <1>6, <1>7, <1>8, <1>9, <1>10 DEF SessionNext

LEMMA FlowsKept == ASSUME CInv, [SessionNext]_sessionVars PROVE AnswersKeepToFlows'
<1> USE SessionAssumption
<1>1. ASSUME NEW t \in Turn, Begin(t) PROVE AnswersKeepToFlows'
  BY <1>1 DEF Begin, Enters, CInv, SessionTypeOK, AnswersKeepToFlows
<1>2. ASSUME NEW t \in Turn, SearchMemory(t) PROVE AnswersKeepToFlows'
  <2>1. /\ phase[t] = "run" /\ UNCHANGED <<saved, judge, unmarked>>
        /\ \E d \in Domain : reads' = [reads EXCEPT ![t] = @ \cup {d}]
    BY <1>2 DEF SearchMemory
  <2>2. [turn |-> t, kind |-> "answer"] \notin saved
    BY <2>1 DEF CInv, AnswersGiven, Given
  <2>3. \A u \in Turn : u # t => reads'[u] = reads[u]
    BY <2>1 DEF CInv, SessionTypeOK
  <2> QED BY <2>1, <2>2, <2>3 DEF CInv, AnswersKeepToFlows
<1>3. ASSUME NEW t \in Turn, Answer(t) PROVE AnswersKeepToFlows'
  BY <1>3 DEF Answer, Add, Enters, CInv, SessionTypeOK, AnswersKeepToFlows
<1>4. ASSUME NEW t \in Turn, NextCaptureStart(t) PROVE AnswersKeepToFlows'
  BY <1>4 DEF NextCaptureStart, Enters, CInv, SessionTypeOK, AnswersKeepToFlows
<1>5. ASSUME NEW t \in Turn, PassOver(t) PROVE AnswersKeepToFlows'
  <2>1. /\ judge' = [judge EXCEPT ![NextEvent(t)] = IF @ = Unjudged THEN t ELSE @]
        /\ UNCHANGED <<saved, reads, unmarked>>
    BY <1>5 DEF PassOver
  <2>2. \A e \in saved : judge'[e] = judge[e]
    BY <2>1 DEF CInv, SessionTypeOK, Counted, Judged
  <2> QED BY <2>1, <2>2 DEF CInv, AnswersKeepToFlows
<1>6. ASSUME NEW t \in Turn, SaveEvent(t) PROVE AnswersKeepToFlows'
  <2>1. saved' = saved \cup {NextEvent(t)} /\ UNCHANGED <<reads, unmarked>>
        /\ judge' = [judge EXCEPT ![NextEvent(t)] = IF NextEvent(t) \in saved THEN @ ELSE t]
        /\ Capturing(t) /\ MayBeSaved(NextEvent(t))
    BY <1>6 DEF SaveEvent
  <2> QED BY <2>1, FlowsStep
<1>7. ASSUME NEW t \in Turn, Fail(t) PROVE AnswersKeepToFlows'
  <2>1. UNCHANGED <<reads, unmarked>> /\ Capturing(t) /\ MayBeSaved(NextEvent(t))
    BY <1>7 DEF Fail
  <2>2. CASE UNCHANGED <<saved, judge>>
    BY <2>1, <2>2 DEF CInv, AnswersKeepToFlows
  <2>3. CASE /\ saved' = saved \cup {NextEvent(t)}
             /\ judge' = [judge EXCEPT ![NextEvent(t)] = IF NextEvent(t) \in saved THEN @ ELSE t]
    BY <2>1, <2>3, FlowsStep
  <2> QED BY <1>7, <2>2, <2>3 DEF Fail
<1>8. ASSUME NEW t \in Turn, Finish(t) PROVE AnswersKeepToFlows'
  BY <1>8 DEF Finish, Over, Enters, CInv, SessionTypeOK, AnswersKeepToFlows
<1>9. CASE Reboot
  BY <1>9 DEF Reboot, CInv, SessionTypeOK, AnswersKeepToFlows
<1>10. CASE UNCHANGED sessionVars
  BY <1>10 DEF sessionVars, CInv, SessionTypeOK, AnswersKeepToFlows
<1> QED BY <1>1, <1>2, <1>3, <1>4, <1>5, <1>6, <1>7, <1>8, <1>9, <1>10 DEF SessionNext

-----------------------------------------------------------------------------
\* What AddSessionToMemory, SearchMemory and a restart keep between any two of their steps.
LEMMA CInvStep == ASSUME CInv, [SessionNext]_sessionVars PROVE CInv'
  BY SessionTyped, OneAddsKept, CopiesKept, CountedKept, MarkedKept, GivenKept, FlowsKept DEF CInv

LEMMA CInvInductive == SessionSpec => []CInv
  BY InitCInv, CInvStep, PTL DEF SessionSpec

\* Turns and captures leave sessions, cursors and sources well typed, whatever fails.
THEOREM SessionTypeCorrect == SessionSpec => []SessionTypeOK
<1>1. CInv => SessionTypeOK
  BY DEF CInv
<1> QED BY CInvInductive, <1>1, PTL

\* nextCaptureStart and markCapturedThrough never move the cursor of a session whose turns
\* follow one another over an event no capture decided on, for any number of failed captures
\* and restarts.
THEOREM CursorSkipsNothing == SessionSpec => []NoEventSkipped
<1>1. CInv => NoEventSkipped
  BY DEF CInv, Counted
<1> QED BY CInvInductive, <1>1, PTL

\* canWriteFromSources decides on all domains a turn has read: those that
\* markTurnSourceDomain recorded are still there when the turn's answer is captured, unless
\* another turn of the user has cleared them.
THEOREM AnswersAreAllowed == SessionSpec => []AnswersKeepToFlows
<1>1. CInv => AnswersKeepToFlows
  BY DEF CInv
<1> QED BY CInvInductive, <1>1, PTL

-----------------------------------------------------------------------------
(* RunbookAuthoring.                                                        *)

Loading(w) == pc[w] \in {"load", "store", "drafts", "mirror"}

\* Which request comes where, and what it has read.
Duties ==
    \A w \in Worker :
       /\ pc[w] = "compare" => w \in Listing
       /\ pc[w] = "read" => w \in Request \ Listing
       /\ pc[w] \in {"truncate", "write", "record"} => w \in Publishing
       /\ pc[w] = "save" => w \in Publishing \cup Validating \cup Editing /\ row[w] # None
       /\ pc[w] \in {"source", "delete", "forget"} => w \in Deleting
       /\ w = Boot => pc[w] \in {"snapshot", "load", "store", "drafts", "mirror", "over"}
       /\ w \in Publishing /\ pc[w] \notin {"idle", "read", "over"} => row[w] # None
       /\ pc[w] = "mirror" => todo[w] \subseteq Sources(w)
       /\ image[w] # None => Loading(w)
       /\ pc[w] \in {"load", "store"} => image[w] # None

\* What was loaded is what the files say if they are as they were read before.
Readouts ==
    ~cameBack =>
       /\ loadedFrom = deployed => defs = Loadable(deployed)
       /\ \A w \in Worker : pc[w] # "load" /\ image[w] = deployed => found[w] = Loadable(deployed)

\* The table follows a reload step by step.
Tables ==
    /\ ~cut /\ pc[Boot] # "snapshot" => table = defs
    /\ \A w \in Worker :
          /\ image[w] # None => cut
          /\ pc[w] = "store" => \A d \in Sources(w) \ todo[w] : table[d] = found[w][d]
          /\ pc[w] \in {"drafts", "mirror"} /\ image[w] # None => table = found[w]

\* As long as no file changes, what a request found stays so.
Calms ==
    \A r \in calm :
       /\ image[r] # None => image[r] = deployed
       /\ pc[r] \in {"drafts", "mirror"} /\ image[r] = None => loadedFrom = deployed
       /\ pc[r] = "over" =>
             /\ ~cameBack => defs = Loadable(deployed)
             /\ \A w \in Worker : image[w] # None => image[w] = deployed

\* Whoever will write a draft, or delete it, has read the last edit.
EditsHeld ==
    \A q \in Draft \ overlapped : edited[q] # None =>
       /\ drafts[q] # None /\ drafts[q].content = edited[q] /\ drafts[q].status = "draft"
       /\ \A r \in Publishing \cup Validating :
             About[r] = q /\ row[r] # None /\ pc[r] # "over" =>
                row[r].content = edited[q] /\ row[r].status = "draft"
       /\ \A w \in Worker : q \notin doomed[w] /\ (pc[w] = "mirror" => q \notin todo[w])

AInv == AuthoringTypeOK /\ Duties /\ Readouts /\ Tables /\ Calms /\ EditsHeld

LEMMA NoneIsNone ==
  /\ None \notin Files /\ None \notin Drafts /\ None \notin Editing /\ None \notin Contents
  BY AuthoringAssumption, NoneAssumption DEF Contents, Worker, Request

LEMMA LoadableIs ==
  \A files \in Files : Loadable(files) \in Loaded
  BY DEF Loadable, Loaded, Files

\* A file put in place changes what is deployed; unless it came back, no reading is like it.
LEMMA FileStep ==
  ASSUME AuthoringTypeOK, NEW d \in Definition, NEW c \in Contents \cup {None, "torn"},
         PutFile(d, c)
  PROVE  /\ deployed' \in Files /\ calm' = {} /\ cameBack' \in BOOLEAN
         /\ past' \in [Definition -> SUBSET (Contents \cup {None, "torn"})]
         /\ ~cameBack' => /\ ~cameBack
                          /\ loadedFrom = deployed' => loadedFrom = deployed
                          /\ \A w \in Worker : image[w] = deployed' => image[w] = deployed
         /\ ~cameBack' => \A files \in Readings : files = deployed' => files = deployed
<1>1. deployed' \in Files /\ deployed'[d] = c
  BY DEF PutFile, AuthoringTypeOK, Files
<1>2. past' \in [Definition -> SUBSET (Contents \cup {None, "torn"})]
  BY DEF PutFile, AuthoringTypeOK
<1>3. ASSUME ~cameBack', NEW files \in Readings, files = deployed' PROVE files = deployed
  <2>1. deployed[d] = c
    BY <1>1, <1>3 DEF PutFile
  <2> QED BY <1>3, <2>1 DEF PutFile, AuthoringTypeOK, Files
<1>4. ~cameBack' => ~cameBack
  BY DEF PutFile
<1>5. deployed' # None
  BY <1>1, NoneIsNone
<1>6. calm' = {} /\ cameBack' \in BOOLEAN
  BY DEF PutFile, AuthoringTypeOK
<1> QED BY <1>1, <1>2, <1>3, <1>4, <1>5, <1>6 DEF Readings

LEMMA InitAInv == AuthoringInit => AInv
<1> SUFFICES ASSUME AuthoringInit PROVE AInv
  OBVIOUS
<1> USE AuthoringAssumption DEF AuthoringInit
<1>1. AuthoringTypeOK
  <2>1. deployed \in Files /\ past \in [Definition -> SUBSET (Contents \cup {None, "torn"})]
    BY DEF Files, Contents
  <2>2. Nothing \in Loaded
    BY DEF Nothing, Loaded
  <2>3. drafts \in [Draft -> Drafts \cup {None}]
    <3>1. (CHOOSE d \in Definition : TRUE) \in Definition
      OBVIOUS
    <3> QED BY <3>1 DEF Drafts, Contents
  <2>4. pc \in [Worker -> Steps] /\ reloading \in Worker \cup {None} /\ Boot \in Worker
    BY DEF Steps, Worker
  <2>5. /\ row \in [Worker -> Drafts \cup {None}] /\ image \in [Worker -> Files \cup {None}]
        /\ found \in [Worker -> Loaded] /\ todo \in [Worker -> SUBSET Definition]
        /\ doomed \in [Worker -> SUBSET Draft]
    BY <2>2
  <2>6. published \in [Definition -> Draft \cup {None}] /\ edited \in [Draft -> Editing \cup {None}]
    BY DEF Nothing
  <2>7. \A w \in Worker : pc[w] \in {"compare", "snapshot", "load", "store", "drafts", "mirror"} => reloading = w
    OBVIOUS
  <2>8. restarts \in 0..MaxRestarts /\ cut \in BOOLEAN /\ cameBack \in BOOLEAN
    <3>1. restarts = 0 /\ cut = FALSE /\ cameBack = FALSE /\ MaxRestarts \in Nat
      OBVIOUS
    <3> HIDE DEF AuthoringInit
    <3>2. restarts \in 0..MaxRestarts
      BY <3>1
    <3>3. cut \in BOOLEAN /\ cameBack \in BOOLEAN
      BY <3>1, Zenon
    <3> QED BY <3>2, <3>3
  <2>9. calm \subseteq Listing /\ overlapped \subseteq Draft /\ defs = Nothing /\ table = Nothing
    OBVIOUS
  <2>10. loadedFrom = None
    OBVIOUS
  <2> HIDE DEF AuthoringInit
  <2> QED BY <2>1, <2>2, <2>3, <2>4, <2>5, <2>6, <2>7, <2>8, <2>9, <2>10 DEF AuthoringTypeOK
<1>2. Duties
  <2>1. ASSUME NEW w \in Worker PROVE pc[w] = IF w = Boot THEN "snapshot" ELSE "idle"
    OBVIOUS
  <2>2. ASSUME NEW w \in Worker PROVE row[w] = None /\ image[w] = None /\ todo[w] = {}
    OBVIOUS
  <2>3. Publishing \subseteq Request /\ Boot \notin Request
    BY DEF Request
  <2>4. \A w \in Worker : pc[w] \in {"idle", "snapshot"} /\ (w \in Publishing => pc[w] = "idle")
    BY <2>1, <2>3
  <2> HIDE DEF AuthoringInit
  <2> QED BY <2>1, <2>2, <2>4 DEF Duties, Loading
<1>3. Readouts /\ Tables /\ Calms /\ EditsHeld
  BY NoneIsNone, <1>1 DEF Readouts, Tables, Calms, EditsHeld, AuthoringTypeOK, Worker
<1> QED BY <1>1, <1>2, <1>3 DEF AInv

LEMMA AuthoringTyped == ASSUME AInv, [AuthoringNext]_authoringVars PROVE AuthoringTypeOK'
<1> USE AuthoringAssumption DEF AInv, Request, Worker, AuthoringTypeOK, Duties, Steps, Goes,
       deployVars, loadedVars, localVars
<1>1. ASSUME NEW w \in Worker, Snapshot(w) PROVE AuthoringTypeOK'
  BY <1>1 DEF Snapshot
<1>2. ASSUME NEW w \in Worker, Load(w) PROVE AuthoringTypeOK'
  <2>1. Loadable(deployed) \in Loaded
    BY LoadableIs
  <2>2. found' \in [Worker -> Loaded] /\ todo' \in [Worker -> SUBSET Definition]
    BY <1>2, <2>1 DEF Load
  <2> QED BY <1>2, <2>2 DEF Load
<1>3. ASSUME NEW w \in Worker, Store(w) PROVE AuthoringTypeOK'
  <2>1. PICK d \in Definition :
           /\ table' = [table EXCEPT ![d] = found[w][d]]
           /\ published' = [published EXCEPT ![d] = IF published[d] = None THEN d ELSE published[d]]
           /\ todo' = [todo EXCEPT ![w] = todo[w] \ {d}]
    BY <1>3 DEF Store, Mirror
  <2>2. table' \in Loaded /\ todo' \in [Worker -> SUBSET Definition]
    BY <2>1 DEF Loaded
  <2>3. published' \in [Definition -> Draft \cup {None}]
    BY <2>1
  <2> QED BY <1>3, <2>2, <2>3 DEF Store
<1>4. ASSUME NEW w \in Worker, Prune(w) PROVE AuthoringTypeOK'
  <2>1. table' \in Loaded /\ published' \in [Definition -> Draft \cup {None}]
    BY <1>4 DEF Prune, Loaded
  <2> QED BY <1>4, <2>1 DEF Prune
<1>5. ASSUME NEW w \in Worker, ListRows(w) PROVE AuthoringTypeOK'
  <2>1. /\ doomed' \in [Worker -> SUBSET Draft]
        /\ todo' \in [Worker -> SUBSET Definition]
    BY <1>5 DEF ListRows, Sources
  <2> QED BY <1>5, <2>1 DEF ListRows
<1>6. ASSUME NEW w \in Worker, DropMirror(w) PROVE AuthoringTypeOK'
  BY <1>6 DEF DropMirror, PutDraft
<1>7. ASSUME NEW w \in Worker, AddMirror(w) PROVE AuthoringTypeOK'
  <2>1. PICK d \in todo[w] :
           /\ drafts' = [drafts EXCEPT ![d] = [def |-> d, content |-> found[w][d], status |-> "published"]]
           /\ todo' = [todo EXCEPT ![w] = todo[w] \ {d}]
    BY <1>7 DEF AddMirror, PutDraft, Mirror
  <2>2. d \in Definition /\ found[w][d] \in Contents
    BY <1>7, <2>1 DEF AddMirror, Sources, Loaded
  <2>3. drafts' \in [Draft -> Drafts \cup {None}] /\ todo' \in [Worker -> SUBSET Definition]
    BY <2>1, <2>2 DEF Drafts
  <2> QED BY <1>7, <2>3 DEF AddMirror
<1>8. ASSUME NEW w \in Worker, Install(w) PROVE AuthoringTypeOK'
  <2>1. /\ defs' \in Loaded /\ loadedFrom' \in Files \cup {None} /\ cut' \in BOOLEAN
        /\ reloading' = None
    <3>1. CASE image[w] = None
      BY <1>8, <3>1 DEF Install
    <3>2. CASE image[w] # None
      <4>1. defs' = found[w] /\ loadedFrom' = image[w] /\ cut' = FALSE /\ reloading' = None
        BY <1>8, <3>2 DEF Install
      <4> QED BY <4>1
    <3> QED BY <3>1, <3>2
  <2>2. image' \in [Worker -> Files \cup {None}] /\ found' \in [Worker -> Loaded]
    <3>1. Nothing \in Loaded
      BY DEF Nothing, Loaded
    <3> QED BY <1>8, <3>1 DEF Install, Forget
  <2>3. pc' \in [Worker -> Steps] /\ pc'[w] \in {"record", "over"}
    BY <1>8 DEF Install, AfterReload
  <2>4. \A v \in Worker : pc[v] \in {"compare", "snapshot", "load", "store", "drafts", "mirror"} => v = w
    BY <1>8 DEF Install
  <2> QED BY <1>8, <2>1, <2>2, <2>3, <2>4 DEF Install
<1>9. ASSUME NEW r \in Request, Arrive(r) PROVE AuthoringTypeOK'
  BY <1>9 DEF Arrive
<1>10. ASSUME NEW r \in Request, Lock(r) PROVE AuthoringTypeOK'
  BY <1>10 DEF Lock
<1>11. ASSUME NEW r \in Request, Compare(r) PROVE AuthoringTypeOK'
  BY <1>11 DEF Compare
<1>12. ASSUME NEW r \in Request, ReadDraft(r) PROVE AuthoringTypeOK'
  BY <1>12 DEF ReadDraft
<1>13. ASSUME NEW r \in Request, Truncate(r) PROVE AuthoringTypeOK'
  <2>1. /\ row[r].def \in Definition /\ "torn" \in Contents \cup {None, "torn"}
        /\ PutFile(row[r].def, "torn")
    BY <1>13, NoneIsNone DEF Truncate, Drafts
  <2> QED BY <1>13, <2>1, FileStep DEF Truncate
<1>14. ASSUME NEW r \in Request, WriteFile(r) PROVE AuthoringTypeOK'
  <2>1. /\ row[r].def \in Definition /\ row[r].content \in Contents \cup {None, "torn"}
        /\ PutFile(row[r].def, row[r].content)
    BY <1>14, NoneIsNone DEF WriteFile, Drafts
  <2> QED BY <1>14, <2>1, FileStep DEF WriteFile
<1>15. ASSUME NEW r \in Request, Record(r) PROVE AuthoringTypeOK'
  BY <1>15 DEF Record
<1>16. ASSUME NEW r \in Request, Save(r) PROVE AuthoringTypeOK'
  <2> DEFINE q == About[r]
             new == CASE r \in Publishing -> [row[r] EXCEPT !.status = "published"]
                      [] r \in Validating -> row[r]
                      [] r \in Editing -> [def |-> BodyId[r], content |-> r, status |-> "draft"]
  <2>1. r \in Publishing \cup Validating \cup Editing /\ row[r] \in Drafts /\ q \in Draft
    BY <1>16, NoneIsNone DEF Save
  <2>2. new \in Drafts
    BY <2>1 DEF Drafts, Contents
  <2>3. drafts' = [drafts EXCEPT ![q] = new]
    BY <1>16 DEF Save, PutDraft
  <2>4. drafts' \in [Draft -> Drafts \cup {None}]
    <3> HIDE DEF new
    <3> QED BY <2>1, <2>2, <2>3
  <2>5. edited' \in [Draft -> Editing \cup {None}] /\ overlapped' \subseteq Draft
    BY <1>16, <2>1 DEF Save
  <2>6. row' \in [Worker -> Drafts \cup {None}]
    BY <1>16 DEF Save, Drop
  <2> HIDE DEF new, q
  <2> QED BY <1>16, <2>4, <2>5, <2>6 DEF Save
<1>17. ASSUME NEW r \in Request, RemoveFile(r) PROVE AuthoringTypeOK'
  <2>1. todo' \in [Worker -> SUBSET Definition]
    BY <1>17 DEF RemoveFile
  <2>2. UNCHANGED deployVars \/ \E d \in Definition : PutFile(d, None)
    BY <1>17 DEF RemoveFile
  <2> QED BY <1>17, <2>1, <2>2, FileStep DEF RemoveFile
<1>18. ASSUME NEW r \in Request, DeleteRow(r) PROVE AuthoringTypeOK'
  BY <1>18 DEF DeleteRow, PutDraft, Drop
<1>19. ASSUME NEW r \in Request, ForgetSource(r) PROVE AuthoringTypeOK'
  BY <1>19 DEF ForgetSource
<1>20. ASSUME NEW r \in Request, Break(r) PROVE AuthoringTypeOK'
  <2>1. r \in Worker /\ reloading' \in Worker \cup {None}
    BY <1>20 DEF Break
  <2>2. /\ image' \in [Worker -> Files \cup {None}] /\ found' \in [Worker -> Loaded]
        /\ row' \in [Worker -> Drafts \cup {None}]
    <3>1. Nothing \in Loaded
      BY DEF Nothing, Loaded
    <3> QED BY <1>20, <3>1 DEF Break, Forget, Drop
  <2>3. todo' \in [Worker -> SUBSET Definition] /\ doomed' \in [Worker -> SUBSET Draft]
    BY <1>20 DEF Break
  <2>4. pc' = [pc EXCEPT ![r] = "over"] /\ reloading' = (IF reloading = r THEN None ELSE reloading)
    BY <1>20 DEF Break
  <2>5. \A v \in Worker : pc'[v] \in {"compare", "snapshot", "load", "store", "drafts", "mirror"} => reloading' = v
    BY <2>1, <2>4
  <2> QED BY <1>20, <2>1, <2>2, <2>3, <2>4, <2>5 DEF Break
<1>21. ASSUME NEW x \in Deploying, Deploy(x) PROVE AuthoringTypeOK'
  <2>1. \E c \in Contents \cup {None} : PutFile(About[x], c)
    BY <1>21 DEF Deploy, Contents
  <2> QED BY <1>21, <2>1, FileStep DEF Deploy
<1>22. CASE Restart
  <2>1. Nothing \in Loaded
    BY DEF Nothing, Loaded
  <2>2. pc' \in [Worker -> Steps] /\ restarts' \in 0..MaxRestarts
    BY <1>22 DEF Restart
  <2>3. /\ row' \in [Worker -> Drafts \cup {None}] /\ image' \in [Worker -> Files \cup {None}]
        /\ found' \in [Worker -> Loaded] /\ todo' \in [Worker -> SUBSET Definition]
        /\ doomed' \in [Worker -> SUBSET Draft]
    BY <1>22, <2>1 DEF Restart
  <2>4. \A v \in Worker : pc'[v] \in {"compare", "snapshot", "load", "store", "drafts", "mirror"} => reloading' = v
    BY <1>22 DEF Restart
  <2>5. reloading' = Boot /\ defs' \in Loaded /\ loadedFrom' = None /\ calm' = {}
    BY <1>22, <2>1 DEF Restart
  <2> QED BY <1>22, <2>2, <2>3, <2>4, <2>5 DEF Restart
<1>23. CASE UNCHANGED authoringVars
  BY <1>23 DEF authoringVars
<1> QED
  BY <1>1, <1>2, <1>3, <1>4, <1>5, <1>6, <1>7, <1>8, <1>9, <1>10, <1>11, <1>12, <1>13,
     <1>14, <1>15, <1>16, <1>17, <1>18, <1>19, <1>20, <1>21, <1>22, <1>23
  DEF AuthoringNext, Reload, DraftStep

LEMMA DutiesKept == ASSUME AInv, [AuthoringNext]_authoringVars PROVE Duties'
<1> USE AuthoringAssumption DEF AInv, Request, Worker, AuthoringTypeOK, Duties, Loading,
       Sources, Goes, deployVars, loadedVars, localVars
<1>1. ASSUME NEW w \in Worker, Snapshot(w) PROVE Duties'
  BY <1>1, NoneIsNone DEF Snapshot
<1>2. ASSUME NEW w \in Worker, Load(w) PROVE Duties'
  BY <1>2 DEF Load
<1>3. ASSUME NEW w \in Worker, Store(w) PROVE Duties'
  BY <1>3 DEF Store, Mirror
<1>4. ASSUME NEW w \in Worker, Prune(w) PROVE Duties'
  BY <1>4 DEF Prune
<1>5. ASSUME NEW w \in Worker, ListRows(w) PROVE Duties'
  BY <1>5 DEF ListRows
<1>6. ASSUME NEW w \in Worker, DropMirror(w) PROVE Duties'
  BY <1>6 DEF DropMirror, PutDraft
<1>7. ASSUME NEW w \in Worker, AddMirror(w) PROVE Duties'
  BY <1>7 DEF AddMirror, PutDraft, Mirror
<1>8. ASSUME NEW w \in Worker, Install(w) PROVE Duties'
  BY <1>8 DEF Install, Forget, AfterReload
<1>9. ASSUME NEW r \in Request, Arrive(r) PROVE Duties'
  BY <1>9 DEF Arrive
<1>10. ASSUME NEW r \in Request, Lock(r) PROVE Duties'
  BY <1>10 DEF Lock
<1>11. ASSUME NEW r \in Request, Compare(r) PROVE Duties'
  BY <1>11 DEF Compare
<1>12. ASSUME NEW r \in Request, ReadDraft(r) PROVE Duties'
  BY <1>12 DEF ReadDraft
<1>13. ASSUME NEW r \in Request, Truncate(r) PROVE Duties'
  BY <1>13 DEF Truncate
<1>14. ASSUME NEW r \in Request, WriteFile(r) PROVE Duties'
  BY <1>14 DEF WriteFile
<1>15. ASSUME NEW r \in Request, Record(r) PROVE Duties'
  BY <1>15 DEF Record
<1>16. ASSUME NEW r \in Request, Save(r) PROVE Duties'
  BY <1>16 DEF Save, PutDraft, Drop
<1>17. ASSUME NEW r \in Request, RemoveFile(r) PROVE Duties'
  BY <1>17 DEF RemoveFile
<1>18. ASSUME NEW r \in Request, DeleteRow(r) PROVE Duties'
  BY <1>18 DEF DeleteRow, PutDraft, Drop
<1>19. ASSUME NEW r \in Request, ForgetSource(r) PROVE Duties'
  BY <1>19 DEF ForgetSource
<1>20. ASSUME NEW r \in Request, Break(r) PROVE Duties'
  BY <1>20 DEF Break, UnderWay, Forget, Drop
<1>21. ASSUME NEW x \in Deploying, Deploy(x) PROVE Duties'
  BY <1>21 DEF Deploy
<1>22. CASE Restart
  BY <1>22 DEF Restart
<1>23. CASE UNCHANGED authoringVars
  BY <1>23 DEF authoringVars
<1> QED
  BY <1>1, <1>2, <1>3, <1>4, <1>5, <1>6, <1>7, <1>8, <1>9, <1>10, <1>11, <1>12, <1>13,
     <1>14, <1>15, <1>16, <1>17, <1>18, <1>19, <1>20, <1>21, <1>22, <1>23
  DEF AuthoringNext, Reload, DraftStep

LEMMA ReadoutsKept == ASSUME AInv, [AuthoringNext]_authoringVars PROVE Readouts'
<1> USE AuthoringAssumption DEF AInv, Request, Worker, AuthoringTypeOK, Duties, Loading,
       Readouts, Goes, deployVars, loadedVars, localVars
<1>1. ASSUME NEW w \in Worker, Snapshot(w) PROVE Readouts'
  BY <1>1 DEF Snapshot
<1>2. ASSUME NEW w \in Worker, Load(w) PROVE Readouts'
  BY <1>2 DEF Load
<1>3. ASSUME NEW w \in Worker, Store(w) PROVE Readouts'
  BY <1>3 DEF Store, Mirror
<1>4. ASSUME NEW w \in Worker, Prune(w) PROVE Readouts'
  BY <1>4 DEF Prune
<1>5. ASSUME NEW w \in Worker, ListRows(w) PROVE Readouts'
  BY <1>5 DEF ListRows
<1>6. ASSUME NEW w \in Worker, DropMirror(w) PROVE Readouts'
  BY <1>6 DEF DropMirror, PutDraft
<1>7. ASSUME NEW w \in Worker, AddMirror(w) PROVE Readouts'
  BY <1>7 DEF AddMirror, PutDraft, Mirror
<1>8. ASSUME NEW w \in Worker, Install(w) PROVE Readouts'
  <2>1. pc[w] = "mirror" /\ \A v \in Worker : v # w => image'[v] = image[v] /\ found'[v] = found[v] /\ pc'[v] = pc[v]
    BY <1>8 DEF Install, Forget
  <2>2. image'[w] = None /\ deployed # None
    BY <1>8, NoneIsNone DEF Install, Forget
  <2>3. cameBack' = cameBack /\ deployed' = deployed
    BY <1>8 DEF Install
  <2>4. ~cameBack /\ loadedFrom' = deployed => defs' = Loadable(deployed)
    BY <1>8, <2>1 DEF Install
  <2> QED BY <2>1, <2>2, <2>3, <2>4 DEF Loadable
<1>9. ASSUME NEW r \in Request, Arrive(r) PROVE Readouts'
  BY <1>9 DEF Arrive
<1>10. ASSUME NEW r \in Request, Lock(r) PROVE Readouts'
  BY <1>10 DEF Lock
<1>11. ASSUME NEW r \in Request, Compare(r) PROVE Readouts'
  BY <1>11, NoneIsNone DEF Compare
<1>12. ASSUME NEW r \in Request, ReadDraft(r) PROVE Readouts'
  BY <1>12 DEF ReadDraft
<1>13. ASSUME NEW r \in Request, Truncate(r) PROVE Readouts'
  <2>1. /\ row[r].def \in Definition /\ "torn" \in Contents \cup {None, "torn"}
        /\ PutFile(row[r].def, "torn")
    BY <1>13, NoneIsNone DEF Truncate, Drafts
  <2>2. ~cameBack' => /\ ~cameBack /\ (loadedFrom' = deployed' => loadedFrom = deployed /\ deployed' = deployed)
                      /\ \A w \in Worker : image'[w] = deployed' => image[w] = deployed /\ deployed' = deployed
    BY <1>13, <2>1, FileStep DEF Truncate
  <2>3. UNCHANGED <<defs, loadedFrom, image, found>> /\ \A w \in Worker : image[w] # None /\ pc'[w] # "load" => pc[w] # "load"
    BY <1>13 DEF Truncate
  <2> QED BY <2>2, <2>3 DEF Loadable
<1>14. ASSUME NEW r \in Request, WriteFile(r) PROVE Readouts'
  <2>1. /\ row[r].def \in Definition /\ row[r].content \in Contents \cup {None, "torn"}
        /\ PutFile(row[r].def, row[r].content)
    BY <1>14, NoneIsNone DEF WriteFile, Drafts
  <2>2. ~cameBack' => /\ ~cameBack /\ (loadedFrom' = deployed' => loadedFrom = deployed /\ deployed' = deployed)
                      /\ \A w \in Worker : image'[w] = deployed' => image[w] = deployed /\ deployed' = deployed
    BY <1>14, <2>1, FileStep DEF WriteFile
  <2>3. UNCHANGED <<defs, loadedFrom, image, found>> /\ \A w \in Worker : image[w] # None /\ pc'[w] # "load" => pc[w] # "load"
    BY <1>14 DEF WriteFile
  <2> QED BY <2>2, <2>3 DEF Loadable
<1>15. ASSUME NEW r \in Request, Record(r) PROVE Readouts'
  BY <1>15 DEF Record
<1>16. ASSUME NEW r \in Request, Save(r) PROVE Readouts'
  BY <1>16 DEF Save, PutDraft, Drop
<1>17. ASSUME NEW r \in Request, RemoveFile(r) PROVE Readouts'
  <2>1. UNCHANGED deployVars \/ \E d \in Definition : PutFile(d, None)
    BY <1>17 DEF RemoveFile
  <2>2. ~cameBack' => /\ ~cameBack /\ (loadedFrom' = deployed' => loadedFrom = deployed /\ deployed' = deployed)
                      /\ \A w \in Worker : image'[w] = deployed' => image[w] = deployed /\ deployed' = deployed
    BY <1>17, <2>1, FileStep DEF RemoveFile
  <2>3. UNCHANGED <<defs, loadedFrom, image, found>> /\ \A w \in Worker : image[w] # None /\ pc'[w] # "load" => pc[w] # "load"
    BY <1>17 DEF RemoveFile
  <2> QED BY <2>2, <2>3 DEF Loadable
<1>18. ASSUME NEW r \in Request, DeleteRow(r) PROVE Readouts'
  BY <1>18 DEF DeleteRow, PutDraft, Drop
<1>19. ASSUME NEW r \in Request, ForgetSource(r) PROVE Readouts'
  BY <1>19 DEF ForgetSource
<1>20. ASSUME NEW r \in Request, Break(r) PROVE Readouts'
  <2>1. /\ image'[r] = None /\ deployed # None
        /\ \A v \in Worker : v # r => image'[v] = image[v] /\ found'[v] = found[v] /\ pc'[v] = pc[v]
    BY <1>20, NoneIsNone DEF Break, Forget
  <2>2. UNCHANGED <<cameBack, deployed, loadedFrom, defs>>
    BY <1>20 DEF Break
  <2> QED BY <2>1, <2>2 DEF Loadable
<1>21. ASSUME NEW x \in Deploying, Deploy(x) PROVE Readouts'
  <2>1. \E c \in Contents \cup {None} : PutFile(About[x], c)
    BY <1>21 DEF Deploy, Contents
  <2>2. ~cameBack' => /\ ~cameBack /\ (loadedFrom' = deployed' => loadedFrom = deployed /\ deployed' = deployed)
                      /\ \A w \in Worker : image'[w] = deployed' => image[w] = deployed /\ deployed' = deployed
    BY <1>21, <2>1, FileStep DEF Deploy
  <2>3. UNCHANGED <<defs, loadedFrom, image, found>> /\ \A w \in Worker : image[w] # None /\ pc'[w] # "load" => pc[w] # "load"
    BY <1>21 DEF Deploy
  <2> QED BY <2>2, <2>3 DEF Loadable
<1>22. CASE Restart
  <2>1. /\ \A w \in Worker : image'[w] = None /\ image'[w] # deployed
        /\ loadedFrom' = None /\ deployed # None /\ UNCHANGED deployed
    BY <1>22, NoneIsNone DEF Restart
  <2> QED BY <2>1
<1>23. CASE UNCHANGED authoringVars
  BY <1>23 DEF authoringVars
<1> QED
  BY <1>1, <1>2, <1>3, <1>4, <1>5, <1>6, <1>7, <1>8, <1>9, <1>10, <1>11, <1>12, <1>13,
     <1>14, <1>15, <1>16, <1>17, <1>18, <1>19, <1>20, <1>21, <1>22, <1>23
  DEF AuthoringNext, Reload, DraftStep

LEMMA TablesKept == ASSUME AInv, [AuthoringNext]_authoringVars PROVE Tables'
<1> USE AuthoringAssumption DEF AInv, Request, Worker, AuthoringTypeOK, Duties, Loading,
       Tables, Sources, Goes, deployVars, loadedVars, localVars
<1>1. ASSUME NEW w \in Worker, Snapshot(w) PROVE Tables'
  BY <1>1 DEF Snapshot
<1>2. ASSUME NEW w \in Worker, Load(w) PROVE Tables'
  BY <1>2 DEF Load
<1>3. ASSUME NEW w \in Worker, Store(w) PROVE Tables'
  <2>1. pc[w] = "store" /\ image[w] # None /\ reloading = w /\ pc' = pc /\ cut
    BY <1>3 DEF Store
  <2>2. PICK d \in todo[w] : table' = [table EXCEPT ![d] = found[w][d]] /\ todo' = [todo EXCEPT ![w] = todo[w] \ {d}]
    BY <1>3 DEF Store
  <2>3. \A v \in Worker : pc[v] \in {"store", "drafts", "mirror"} => v = w
    BY <2>1
  <2>4. d \in Definition /\ table'[d] = found[w][d] /\ \A c \in Definition \ {d} : table'[c] = table[c]
    BY <2>2 DEF Loaded
  <2>5. UNCHANGED <<found, image, cut>>
    BY <1>3 DEF Store
  <2> QED BY <2>1, <2>2, <2>3, <2>4, <2>5
<1>4. ASSUME NEW w \in Worker, Prune(w) PROVE Tables'
  <2>1. pc[w] = "store" /\ image[w] # None /\ reloading = w /\ todo[w] = {} /\ cut
    BY <1>4 DEF Prune
  <2>2. \A v \in Worker : pc[v] \in {"store", "drafts", "mirror"} => v = w
    BY <2>1
  <2>3. table' = found[w]
    <3>1. \A d \in Definition : table'[d] = found[w][d]
      BY <1>4, <2>1 DEF Prune, Loaded
    <3>2. DOMAIN table' = Definition /\ table' = [d \in Definition |-> table'[d]]
      BY <1>4 DEF Prune
    <3>3. DOMAIN found[w] = Definition /\ found[w] = [d \in Definition |-> found[w][d]]
      BY DEF Loaded
    <3> QED BY <3>1, <3>2, <3>3
  <2>4. UNCHANGED <<found, image, cut, defs>> /\ pc' = [pc EXCEPT ![w] = "drafts"]
    BY <1>4 DEF Prune
  <2> QED BY <2>1, <2>2, <2>3, <2>4
<1>5. ASSUME NEW w \in Worker, ListRows(w) PROVE Tables'
  BY <1>5 DEF ListRows
<1>6. ASSUME NEW w \in Worker, DropMirror(w) PROVE Tables'
  BY <1>6 DEF DropMirror, PutDraft
<1>7. ASSUME NEW w \in Worker, AddMirror(w) PROVE Tables'
  BY <1>7 DEF AddMirror, PutDraft, Mirror
<1>8. ASSUME NEW w \in Worker, Install(w) PROVE Tables'
  BY <1>8 DEF Install, Forget, AfterReload
<1>9. ASSUME NEW r \in Request, Arrive(r) PROVE Tables'
  BY <1>9 DEF Arrive
<1>10. ASSUME NEW r \in Request, Lock(r) PROVE Tables'
  BY <1>10 DEF Lock
<1>11. ASSUME NEW r \in Request, Compare(r) PROVE Tables'
  BY <1>11 DEF Compare
<1>12. ASSUME NEW r \in Request, ReadDraft(r) PROVE Tables'
  BY <1>12 DEF ReadDraft
<1>13. ASSUME NEW r \in Request, Truncate(r) PROVE Tables'
  BY <1>13 DEF Truncate
<1>14. ASSUME NEW r \in Request, WriteFile(r) PROVE Tables'
  BY <1>14 DEF WriteFile
<1>15. ASSUME NEW r \in Request, Record(r) PROVE Tables'
  BY <1>15 DEF Record
<1>16. ASSUME NEW r \in Request, Save(r) PROVE Tables'
  BY <1>16 DEF Save, PutDraft, Drop
<1>17. ASSUME NEW r \in Request, RemoveFile(r) PROVE Tables'
  BY <1>17 DEF RemoveFile
<1>18. ASSUME NEW r \in Request, DeleteRow(r) PROVE Tables'
  BY <1>18 DEF DeleteRow, PutDraft, Drop
<1>19. ASSUME NEW r \in Request, ForgetSource(r) PROVE Tables'
  BY <1>19 DEF ForgetSource
<1>20. ASSUME NEW r \in Request, Break(r) PROVE Tables'
  BY <1>20 DEF Break, UnderWay, Forget, Drop
<1>21. ASSUME NEW x \in Deploying, Deploy(x) PROVE Tables'
  BY <1>21 DEF Deploy
<1>22. CASE Restart
  BY <1>22 DEF Restart
<1>23. CASE UNCHANGED authoringVars
  BY <1>23 DEF authoringVars
<1> QED
  BY <1>1, <1>2, <1>3, <1>4, <1>5, <1>6, <1>7, <1>8, <1>9, <1>10, <1>11, <1>12, <1>13,
     <1>14, <1>15, <1>16, <1>17, <1>18, <1>19, <1>20, <1>21, <1>22, <1>23
  DEF AuthoringNext, Reload, DraftStep

LEMMA CalmsKept == ASSUME AInv, [AuthoringNext]_authoringVars PROVE Calms'
<1> USE AuthoringAssumption DEF AInv, Request, Worker, AuthoringTypeOK, Duties, Loading,
       Readouts, Calms, Goes, deployVars, loadedVars, localVars
<1>1. ASSUME NEW w \in Worker, Snapshot(w) PROVE Calms'
  BY <1>1 DEF Snapshot
<1>2. ASSUME NEW w \in Worker, Load(w) PROVE Calms'
  BY <1>2 DEF Load
<1>3. ASSUME NEW w \in Worker, Store(w) PROVE Calms'
  BY <1>3 DEF Store, Mirror
<1>4. ASSUME NEW w \in Worker, Prune(w) PROVE Calms'
  BY <1>4 DEF Prune
<1>5. ASSUME NEW w \in Worker, ListRows(w) PROVE Calms'
  BY <1>5 DEF ListRows
<1>6. ASSUME NEW w \in Worker, DropMirror(w) PROVE Calms'
  BY <1>6 DEF DropMirror, PutDraft
<1>7. ASSUME NEW w \in Worker, AddMirror(w) PROVE Calms'
  BY <1>7 DEF AddMirror, PutDraft, Mirror
<1>8. ASSUME NEW w \in Worker, Install(w) PROVE Calms'
  BY <1>8 DEF Install, Forget, AfterReload
<1>9. ASSUME NEW r \in Request, Arrive(r) PROVE Calms'
  BY <1>9 DEF Arrive
<1>10. ASSUME NEW r \in Request, Lock(r) PROVE Calms'
  BY <1>10 DEF Lock
<1>11. ASSUME NEW r \in Request, Compare(r) PROVE Calms'
  BY <1>11 DEF Compare
<1>12. ASSUME NEW r \in Request, ReadDraft(r) PROVE Calms'
  BY <1>12 DEF ReadDraft
<1>13. ASSUME NEW r \in Request, Truncate(r) PROVE Calms'
  <2>1. /\ row[r].def \in Definition /\ "torn" \in Contents \cup {None, "torn"}
        /\ PutFile(row[r].def, "torn")
    BY <1>13, NoneIsNone DEF Truncate, Drafts
  <2>2. calm' = {}
    BY <1>13, <2>1, FileStep DEF Truncate
  <2> QED BY <2>2
<1>14. ASSUME NEW r \in Request, WriteFile(r) PROVE Calms'
  <2>1. /\ row[r].def \in Definition /\ row[r].content \in Contents \cup {None, "torn"}
        /\ PutFile(row[r].def, row[r].content)
    BY <1>14, NoneIsNone DEF WriteFile, Drafts
  <2>2. calm' = {}
    BY <1>14, <2>1, FileStep DEF WriteFile
  <2> QED BY <2>2
<1>15. ASSUME NEW r \in Request, Record(r) PROVE Calms'
  BY <1>15 DEF Record
<1>16. ASSUME NEW r \in Request, Save(r) PROVE Calms'
  BY <1>16 DEF Save, PutDraft, Drop
<1>17. ASSUME NEW r \in Request, RemoveFile(r) PROVE Calms'
  <2>1. CASE UNCHANGED deployVars
    BY <1>17, <2>1 DEF RemoveFile
  <2>2. CASE \E d \in Definition : PutFile(d, None)
    BY <2>2, FileStep
  <2> QED BY <1>17, <2>1, <2>2 DEF RemoveFile
<1>18. ASSUME NEW r \in Request, DeleteRow(r) PROVE Calms'
  BY <1>18 DEF DeleteRow, PutDraft, Drop
<1>19. ASSUME NEW r \in Request, ForgetSource(r) PROVE Calms'
  BY <1>19 DEF ForgetSource
<1>20. ASSUME NEW r \in Request, Break(r) PROVE Calms'
  BY <1>20 DEF Break, UnderWay, Forget, Drop
<1>21. ASSUME NEW x \in Deploying, Deploy(x) PROVE Calms'
  <2>1. \E c \in Contents \cup {None} : PutFile(About[x], c)
    BY <1>21 DEF Deploy, Contents
  <2>2. calm' = {}
    BY <1>21, <2>1, FileStep DEF Deploy
  <2> QED BY <2>2
<1>22. CASE Restart
  BY <1>22 DEF Restart
<1>23. CASE UNCHANGED authoringVars
  BY <1>23 DEF authoringVars
<1> QED
  BY <1>1, <1>2, <1>3, <1>4, <1>5, <1>6, <1>7, <1>8, <1>9, <1>10, <1>11, <1>12, <1>13,
     <1>14, <1>15, <1>16, <1>17, <1>18, <1>19, <1>20, <1>21, <1>22, <1>23
  DEF AuthoringNext, Reload, DraftStep

LEMMA EditsKept == ASSUME AInv, [AuthoringNext]_authoringVars PROVE EditsHeld'
<1> USE AuthoringAssumption DEF AInv, Request, Worker, AuthoringTypeOK, Duties, EditsHeld, Goes,
       deployVars, loadedVars, localVars
<1>1. ASSUME NEW w \in Worker, Snapshot(w) PROVE EditsHeld'
  BY <1>1 DEF Snapshot
<1>2. ASSUME NEW w \in Worker, Load(w) PROVE EditsHeld'
  BY <1>2 DEF Load
<1>3. ASSUME NEW w \in Worker, Store(w) PROVE EditsHeld'
  BY <1>3 DEF Store, Mirror
<1>4. ASSUME NEW w \in Worker, Prune(w) PROVE EditsHeld'
  BY <1>4 DEF Prune
<1>5. ASSUME NEW w \in Worker, ListRows(w) PROVE EditsHeld'
  <2>1. /\ \A q \in doomed'[w] : drafts[q].status = "published"
        /\ \A q \in todo'[w] : drafts[q] = None
        /\ \A v \in Worker : v # w => doomed'[v] = doomed[v] /\ todo'[v] = todo[v] /\ pc'[v] = pc[v]
    BY <1>5 DEF ListRows, Orphan, Mirrored, Mirror, Sources
  <2>2. UNCHANGED <<drafts, edited, overlapped, row>> /\ pc' = [pc EXCEPT ![w] = "mirror"]
    BY <1>5 DEF ListRows
  <2> SUFFICES ASSUME NEW q \in Draft \ overlapped', edited'[q] # None PROVE
           /\ drafts'[q] # None /\ drafts'[q].content = edited'[q] /\ drafts'[q].status = "draft"
           /\ \A r \in Publishing \cup Validating :
                 About[r] = q /\ row'[r] # None /\ pc'[r] # "over" =>
                    row'[r].content = edited'[q] /\ row'[r].status = "draft"
           /\ \A v \in Worker : q \notin doomed'[v] /\ (pc'[v] = "mirror" => q \notin todo'[v])
    BY DEF EditsHeld
  <2>3. drafts[q] # None /\ drafts[q].content = edited[q] /\ drafts[q].status = "draft"
    BY <2>2
  <2>4. \A v \in Worker : q \notin doomed'[v] /\ (pc'[v] = "mirror" => q \notin todo'[v])
    <3>1. q \notin doomed'[w] /\ q \notin todo'[w]
      BY <2>1, <2>3
    <3>2. ASSUME NEW v \in Worker, v # w
          PROVE q \notin doomed'[v] /\ (pc'[v] = "mirror" => q \notin todo'[v])
      BY <2>1, <2>2, <3>2
    <3> QED BY <3>1, <3>2
  <2>5. \A r \in Publishing \cup Validating :
           About[r] = q /\ row'[r] # None /\ pc'[r] # "over" =>
              row'[r].content = edited'[q] /\ row'[r].status = "draft"
    <3> SUFFICES ASSUME NEW r \in Publishing \cup Validating,
                        About[r] = q, row'[r] # None, pc'[r] # "over"
                 PROVE  row'[r].content = edited'[q] /\ row'[r].status = "draft"
      OBVIOUS
    <3>1. pc[r] # "over"
      BY <1>5, <2>2 DEF ListRows
    <3> QED BY <2>2, <3>1
  <2> QED BY <2>2, <2>3, <2>4, <2>5
<1>6. ASSUME NEW w \in Worker, DropMirror(w) PROVE EditsHeld'
  BY <1>6 DEF DropMirror, PutDraft
<1>7. ASSUME NEW w \in Worker, AddMirror(w) PROVE EditsHeld'
  BY <1>7 DEF AddMirror, PutDraft, Mirror
<1>8. ASSUME NEW w \in Worker, Install(w) PROVE EditsHeld'
  BY <1>8 DEF Install, Forget, AfterReload
<1>9. ASSUME NEW r \in Request, Arrive(r) PROVE EditsHeld'
  BY <1>9 DEF Arrive
<1>10. ASSUME NEW r \in Request, Lock(r) PROVE EditsHeld'
  BY <1>10 DEF Lock
<1>11. ASSUME NEW r \in Request, Compare(r) PROVE EditsHeld'
  BY <1>11 DEF Compare
<1>12. ASSUME NEW r \in Request, ReadDraft(r) PROVE EditsHeld'
  BY <1>12 DEF ReadDraft
<1>13. ASSUME NEW r \in Request, Truncate(r) PROVE EditsHeld'
  BY <1>13 DEF Truncate
<1>14. ASSUME NEW r \in Request, WriteFile(r) PROVE EditsHeld'
  BY <1>14 DEF WriteFile
<1>15. ASSUME NEW r \in Request, Record(r) PROVE EditsHeld'
  BY <1>15 DEF Record
<1>16. ASSUME NEW r \in Request, Save(r) PROVE EditsHeld'
  <2> DEFINE p == About[r]
  <2>1. /\ r \in Publishing \cup Validating \cup Editing /\ row[r] # None /\ p \in Draft
        /\ pc' = [pc EXCEPT ![r] = "over"] /\ row' = [row EXCEPT ![r] = None]
        /\ UNCHANGED <<doomed, todo>> /\ \A q \in Draft \ {p} : drafts'[q] = drafts[q]
    BY <1>16 DEF Save, PutDraft, Drop
  <2>2. CASE r \in Publishing
    <3>1. edited' = [edited EXCEPT ![p] = None] /\ overlapped' = overlapped
      BY <1>16, <2>2 DEF Save
    <3> HIDE DEF p
    <3> QED BY <2>1, <3>1
  <2>3. CASE r \in Validating
    <3>1. edited' = edited /\ overlapped' = overlapped /\ drafts'[p] = row[r]
      BY <1>16, <2>1, <2>3 DEF Save, PutDraft
    <3>2. p \notin overlapped /\ edited[p] # None => row[r].content = edited[p] /\ row[r].status = "draft"
      BY <1>16, <2>1, <2>3 DEF Save
    <3> HIDE DEF p
    <3> QED BY <2>1, <3>1, <3>2
  <2>4. CASE r \in Editing
    <3>1. /\ edited' = [edited EXCEPT ![p] = r] /\ drafts'[p] = [def |-> BodyId[r], content |-> r, status |-> "draft"]
          /\ overlapped' = IF Readers(p) # {} THEN overlapped \cup {p} ELSE overlapped
      BY <1>16, <2>1, <2>4 DEF Save, PutDraft
    <3>2. p \notin overlapped' =>
             /\ \A v \in Publishing \cup Validating : About[v] = p /\ row[v] # None => pc[v] = "over"
             /\ \A w \in Worker : p \notin doomed[w] /\ p \notin todo[w]
      BY <3>1 DEF Readers
    <3>3. drafts'[p] # None
      <4>1. drafts'[p] \in Drafts
        BY <2>4, <3>1 DEF Drafts, Contents
      <4> QED BY <4>1, NoneIsNone
    <3>4. overlapped \subseteq overlapped'
      BY <3>1
    <3> HIDE DEF p
    <3> QED BY <2>1, <3>1, <3>2, <3>3, <3>4
  <2> QED BY <2>1, <2>2, <2>3, <2>4
<1>17. ASSUME NEW r \in Request, RemoveFile(r) PROVE EditsHeld'
  BY <1>17 DEF RemoveFile
<1>18. ASSUME NEW r \in Request, DeleteRow(r) PROVE EditsHeld'
  BY <1>18 DEF DeleteRow, PutDraft, Drop
<1>19. ASSUME NEW r \in Request, ForgetSource(r) PROVE EditsHeld'
  BY <1>19 DEF ForgetSource
<1>20. ASSUME NEW r \in Request, Break(r) PROVE EditsHeld'
  BY <1>20 DEF Break, UnderWay, Forget, Drop
<1>21. ASSUME NEW x \in Deploying, Deploy(x) PROVE EditsHeld'
  BY <1>21 DEF Deploy
<1>22. CASE Restart
  BY <1>22 DEF Restart
<1>23. CASE UNCHANGED authoringVars
  BY <1>23 DEF authoringVars
<1> QED
  BY <1>1, <1>2, <1>3, <1>4, <1>5, <1>6, <1>7, <1>8, <1>9, <1>10, <1>11, <1>12, <1>13,
     <1>14, <1>15, <1>16, <1>17, <1>18, <1>19, <1>20, <1>21, <1>22, <1>23
  DEF AuthoringNext, Reload, DraftStep

LEMMA AInvStep == ASSUME AInv, [AuthoringNext]_authoringVars PROVE AInv'
  BY AuthoringTyped, DutiesKept, ReadoutsKept, TablesKept, CalmsKept, EditsKept DEF AInv

LEMMA AInvInductive == AuthoringSpec => []AInv
  BY InitAInv, AInvStep, PTL DEF AuthoringSpec

\* Reloads, requests on drafts, writers of files and restarts keep the state well typed, and
\* one reload at a time is under way.
THEOREM AuthoringTypeCorrect == AuthoringSpec => []AuthoringTypeOK
<1>1. AInv => AuthoringTypeOK
  BY DEF AInv
<1> QED BY AInvInductive, <1>1, PTL

\* What a request of syncDefinitionsFromDisk goes by is what is deployed, and the stored
\* definitions are the loaded ones.
THEOREM DefinitionsAgree == AuthoringSpec => []DefinitionsInStep
<1>1. ASSUME AInv PROVE DefinitionsInStep
  BY <1>1 DEF AInv, Calms, Tables, Up, DefinitionsInStep
<1> QED BY AInvInductive, <1>1, PTL

\* The last edit of a draft that nobody held an older reading of is what the draft holds.
THEOREM EditsAreKept == AuthoringSpec => []EditIsKept
<1>1. ASSUME AInv PROVE EditIsKept
  BY <1>1 DEF AInv, EditsHeld, EditIsKept
<1> QED BY AInvInductive, <1>1, PTL

-----------------------------------------------------------------------------
(* The services together.                                                   *)

LEMMA HarnessStarts == HarnessInit => AInv /\ RInv /\ CInv
  BY InitAInv, InitRInv, InitCInv DEF HarnessInit

LEMMA HarnessSteps ==
  ASSUME [HarnessNext]_harnessVars
  PROVE  [AuthoringNext]_authoringVars /\ [RegistryNext]_registryVars /\ [SessionNext]_sessionVars
  BY DEF HarnessNext, harnessVars

\* Each step of the harness is one of a service, and leaves the state of all well typed.
THEOREM HarnessTypeCorrect == HarnessSpec => []HarnessTypeOK
<1>1. ASSUME AInv, [AuthoringNext]_authoringVars PROVE AInv'
  BY <1>1, AInvStep
<1>2. ASSUME RInv, [RegistryNext]_registryVars PROVE RInv'
  BY <1>2, RInvStep
<1>3. ASSUME CInv, [SessionNext]_sessionVars PROVE CInv'
  BY <1>3, CInvStep
<1> DEFINE All == AInv /\ RInv /\ CInv
<1>4. ASSUME All, [HarnessNext]_harnessVars PROVE All'
  BY <1>1, <1>2, <1>3, <1>4, HarnessSteps
<1>5. All => HarnessTypeOK
  BY DEF AInv, RInv, CInv, HarnessTypeOK
<1> QED BY <1>4, <1>5, HarnessStarts, PTL DEF HarnessSpec
=============================================================================
