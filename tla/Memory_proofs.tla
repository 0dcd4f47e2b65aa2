--------------------------- MODULE Memory_proofs ----------------------------
(***************************************************************************)
(* Theorems about the parts of memoryd: MemoryCapture, for any number of   *)
(* captures and corrections under any keys, MemoryPool, for any number of  *)
(* requests and removals, TaskGraph, for any number of tasks and requests, *)
(* MemoryDaemon, for any number of writes, ends of the process and lives of*)
(* the host, and GraphQuery, for any graph, statement and mutations.       *)
(***************************************************************************)
EXTENDS Memory, FiniteSetTheorems, SequenceTheorems, TLAPS

\* The node the attempt of a caller makes.
Own(c) == <<c, tries[c]>>

(* Where a handler is tells what is stored of its capture.                  *)
Stages ==
    \A c \in Caller :
       /\ stage[c] # "idle" => tries[c] >= 1
       /\ InTransaction(c) => ~Captured(c)
       /\ stage[c] = "committed" => Captured(c) /\ rows[Asked[c].key] = path[c]
       /\ stage[c] = "link" => Captured(c)
       /\ superseded[c] = {}
       /\ c \in made => stage[c] \in {"published", "cleanup", "committed"}

(* An attempt writes a file of its own, which nobody else has or names.     *)
OwnFiles ==
    /\ \A c \in Caller :
          /\ stage[c] \in {"staged", "written", "published"} \/ c \in made =>
                path[c] # NoRow /\ path[c].node = Own(c)
          /\ stage[c] \in {"staged", "written"} => c \in temps
          /\ stage[c] = "published" => path[c] \in files
    /\ \A f \in files : \E c \in Caller :
          /\ f.node[1] = c /\ f.node[2] <= tries[c]
          /\ f.node = Own(c) => stage[c] \notin {"lookup", "begin", "begun", "staged", "written"}
    /\ \A k \in Key : rows[k] # NoRow => \E c \in Caller :
          /\ rows[k].node[1] = c /\ rows[k].node[2] <= tries[c]
          /\ rows[k].node = Own(c) => stage[c] \in {"committed", "link", "answered", "failed"}

FInv == CaptureTypeOK /\ Stages /\ OwnFiles /\ FilesMatchRows /\ AnsweredIsStored
-----------------------------------------------------------------------------
(* The file an attempt stages is its own, and nobody has one like it.       *)
LEMMA FreshFile ==
  ASSUME FInv, NEW c \in Caller, Stage(c)
  PROVE  LET p == [node |-> Own(c), content |-> Asked[c].content] IN
         /\ path' = [path EXCEPT ![c] = p] /\ path'[c] = p
         /\ p \in Source /\ p \notin files /\ p # NoRow
         /\ temps' = temps \cup {c} /\ c \notin made
         /\ stage' = [stage EXCEPT ![c] = "staged"] /\ stage[c] = "begun"
         /\ UNCHANGED <<tries, rows, links, files, made, superseded, captureKills, littered>>
<1> DEFINE p == [node |-> Own(c), content |-> Asked[c].content]
<1> USE CaptureAssumption
<1>1. stage[c] = "begun" /\ ~Captured(c) /\ c \notin made
  BY DEF Stage, FInv, Stages, InTransaction
<1>2. path' = [path EXCEPT ![c] = p] /\ path'[c] = p
  BY <1>1 DEF Stage, Node, Own, FInv, CaptureTypeOK
<1>3. tries[c] \in 1..MaxTries
  BY <1>1 DEF FInv, CaptureTypeOK, Stages
<1>4. p \in Source
  BY <1>3 DEF Source, Own
<1>5. p \notin files
  BY <1>1 DEF FInv, OwnFiles, Own
<1> QED BY <1>1, <1>2, <1>4, <1>5 DEF Stage, Goes

LEMMA InitFInv == CaptureInit => FInv
<1> SUFFICES ASSUME CaptureInit PROVE FInv
  OBVIOUS
<1> USE CaptureAssumption DEF CaptureInit, InTransaction, Key
<1>1. CaptureTypeOK
  BY DEF CaptureTypeOK, CaptureStages
<1>2. Stages /\ OwnFiles
  BY DEF Stages, OwnFiles
<1>3. FilesMatchRows /\ AnsweredIsStored
  BY DEF FilesMatchRows, AnsweredIsStored
<1> QED BY <1>1, <1>2, <1>3 DEF FInv

LEMMA TypeKept == ASSUME FInv, [CaptureNext]_captureVars PROVE CaptureTypeOK'
<1> USE CaptureAssumption DEF CaptureStages, InTransaction
<1>1. ASSUME NEW c \in Caller, Ask(c) PROVE CaptureTypeOK'
  BY <1>1 DEF Ask, Goes, FInv, CaptureTypeOK, Stages
<1>2. ASSUME NEW c \in Caller, LookUp(c) PROVE CaptureTypeOK'
  BY <1>2 DEF LookUp, Goes, Result, FInv, CaptureTypeOK, Stages
<1>3. ASSUME NEW c \in Caller, Begin(c) PROVE CaptureTypeOK'
  BY <1>3 DEF Begin, Goes, Result, FInv, CaptureTypeOK, Stages
<1>4. ASSUME NEW c \in Caller, Stage(c) PROVE CaptureTypeOK'
  BY <1>4, FreshFile, ZenonT(40) DEF Stage, Goes, FInv, CaptureTypeOK, Stages
<1>5. ASSUME NEW c \in Caller, WriteRows(c) PROVE CaptureTypeOK'
  BY <1>5 DEF WriteRows, Goes, FInv, CaptureTypeOK, Stages
<1>6. ASSUME NEW c \in Caller, Publish(c) PROVE CaptureTypeOK'
  <2>1. path[c] \in Source
    BY <1>6 DEF Publish, FInv, CaptureTypeOK, OwnFiles
  <2> QED BY <1>6, <2>1 DEF Publish, Goes, FInv, CaptureTypeOK
<1>7. ASSUME NEW c \in Caller, Commit(c) PROVE CaptureTypeOK'
  BY <1>7 DEF Commit, Goes, FInv, CaptureTypeOK, Stages
<1>8. ASSUME NEW c \in Caller, RemoveSuperseded(c) PROVE CaptureTypeOK'
  BY <1>8 DEF RemoveSuperseded, Removes, Goes, Result, FInv, CaptureTypeOK, Stages
<1>9. ASSUME NEW c \in Caller, GiveUp(c) PROVE CaptureTypeOK'
  BY <1>9 DEF GiveUp, Goes, FInv, CaptureTypeOK, Stages
<1>10. ASSUME NEW c \in Caller, CleanUp(c) PROVE CaptureTypeOK'
  <2>1. c \in made => path[c] \in Source
    BY DEF FInv, CaptureTypeOK, OwnFiles
  <2> QED BY <1>10, <2>1 DEF CleanUp, Removes, Goes, FInv, CaptureTypeOK, Stages
<1>11. ASSUME NEW c \in Caller, Link(c) PROVE CaptureTypeOK'
  <2>1. Asked[c].key \in Key
    BY DEF Key
  <2>2. \E s \in {"answered", "failed"} : stage' = [stage EXCEPT ![c] = s]
    BY <1>11 DEF Link, Goes
  <2>3. links' \in {links, links \cup {Asked[c].key}}
    BY <1>11 DEF Link
  <2>4. UNCHANGED <<tries, path, rows, files, temps, made, superseded, captureKills, littered>>
    BY <1>11 DEF Link
  <2> QED BY <2>1, <2>2, <2>3, <2>4 DEF FInv, CaptureTypeOK
<1>12. CASE Kill
  BY <1>12 DEF Kill, FInv, CaptureTypeOK, Stages
<1>13. CASE UNCHANGED captureVars
  BY <1>13 DEF captureVars, FInv, CaptureTypeOK, Stages
<1> QED BY <1>1, <1>2, <1>3, <1>4, <1>5, <1>6, <1>7, <1>8, <1>9, <1>10, <1>11, <1>12, <1>13
           DEF CaptureNext, CaptureStep

LEMMA StagesKept == ASSUME FInv, [CaptureNext]_captureVars PROVE Stages'
<1> USE CaptureAssumption DEF InTransaction, Captured, Key
<1>1. ASSUME NEW c \in Caller, Ask(c) PROVE Stages'
  BY <1>1 DEF Ask, Goes, FInv, CaptureTypeOK, Stages
<1>2. ASSUME NEW c \in Caller, LookUp(c) PROVE Stages'
  BY <1>2 DEF LookUp, Goes, Result, FInv, CaptureTypeOK, Stages
<1>3. ASSUME NEW c \in Caller, Begin(c) PROVE Stages'
  BY <1>3 DEF Begin, Goes, Result, FInv, CaptureTypeOK, Stages
<1>4. ASSUME NEW c \in Caller, Stage(c) PROVE Stages'
  BY <1>4, FreshFile DEF Stage, Goes, FInv, CaptureTypeOK, Stages
<1>5. ASSUME NEW c \in Caller, WriteRows(c) PROVE Stages'
  BY <1>5 DEF WriteRows, Goes, FInv, CaptureTypeOK, Stages
<1>6. ASSUME NEW c \in Caller, Publish(c) PROVE Stages'
  BY <1>6 DEF Publish, Goes, FInv, CaptureTypeOK, Stages
<1>7. ASSUME NEW c \in Caller, Commit(c) PROVE Stages'
  <2>1. /\ stage' = [stage EXCEPT ![c] = "committed"] /\ stage[c] = "published"
        /\ rows' = [rows EXCEPT ![Asked[c].key] = path[c]]
        /\ UNCHANGED <<tries, path, links, files, temps, made, superseded, captureKills, littered>>
    BY <1>7 DEF Commit, Goes
  <2>2. path[c] # NoRow /\ Asked[c].key \in Key
    BY <2>1 DEF FInv, OwnFiles
  <2>3. rows[Asked[c].key] = NoRow
    BY <2>1 DEF FInv, Stages
  <2>4. rows'[Asked[c].key] = path[c] /\ \A k \in Key : k # Asked[c].key => rows'[k] = rows[k]
    BY <2>1, <2>2 DEF FInv, CaptureTypeOK
  <2>5. \A d \in Caller : d # c => stage'[d] = stage[d]
    BY <2>1 DEF FInv, CaptureTypeOK
  <2>6. ASSUME NEW d \in Caller, d # c
        PROVE  /\ ~InTransaction(d)
               /\ stage[d] \in {"committed", "link"} => rows'[Asked[d].key] = rows[Asked[d].key]
    BY <2>1, <2>3, <2>4, <2>6 DEF FInv, CaptureTypeOK, Stages
  <2> QED BY <2>1, <2>2, <2>4, <2>5, <2>6 DEF FInv, CaptureTypeOK, Stages
<1>8. ASSUME NEW c \in Caller, RemoveSuperseded(c) PROVE Stages'
  BY <1>8 DEF RemoveSuperseded, Removes, Goes, Result, FInv, CaptureTypeOK, Stages
<1>9. ASSUME NEW c \in Caller, GiveUp(c) PROVE Stages'
  BY <1>9 DEF GiveUp, Goes, FInv, CaptureTypeOK, Stages
<1>10. ASSUME NEW c \in Caller, CleanUp(c) PROVE Stages'
  BY <1>10 DEF CleanUp, Removes, Goes, FInv, CaptureTypeOK, Stages
<1>11. ASSUME NEW c \in Caller, Link(c) PROVE Stages'
  BY <1>11 DEF Link, Goes, FInv, CaptureTypeOK, Stages
<1>12. CASE Kill
  BY <1>12 DEF Kill, FInv, CaptureTypeOK, Stages
<1>13. CASE UNCHANGED captureVars
  BY <1>13 DEF captureVars, FInv, CaptureTypeOK, Stages
<1> QED BY <1>1, <1>2, <1>3, <1>4, <1>5, <1>6, <1>7, <1>8, <1>9, <1>10, <1>11, <1>12, <1>13
           DEF CaptureNext, CaptureStep

LEMMA FilesKept == ASSUME FInv, [CaptureNext]_captureVars PROVE OwnFiles'
<1> USE CaptureAssumption DEF InTransaction, Captured, Own
<1>1. ASSUME NEW c \in Caller, Ask(c) PROVE OwnFiles'
  <2>1. /\ stage' = [stage EXCEPT ![c] = "lookup"] /\ stage[c] \in {"idle", "failed"}
        /\ tries' = [tries EXCEPT ![c] = tries[c] + 1]
        /\ UNCHANGED <<path, rows, links, files, temps, made, superseded, captureKills, littered>>
    BY <1>1 DEF Ask, Goes
  <2>2. /\ stage'[c] = "lookup" /\ tries'[c] = tries[c] + 1 /\ tries[c] \in Nat
        /\ \A d \in Caller : d # c => stage'[d] = stage[d] /\ tries'[d] = tries[d]
    BY <2>1 DEF FInv, CaptureTypeOK
  <2>3. c \notin made
    BY <2>1 DEF FInv, Stages
  <2>4. \A d \in Caller :
           /\ stage'[d] \in {"staged", "written", "published"} \/ d \in made =>
                path[d] # NoRow /\ path[d].node = <<d, tries'[d]>>
           /\ stage'[d] \in {"staged", "written"} => d \in temps
           /\ stage'[d] = "published" => path[d] \in files
    BY <2>2, <2>3 DEF FInv, OwnFiles
  <2>5. ASSUME NEW f \in files
        PROVE  \E d \in Caller :
                  /\ f.node[1] = d /\ f.node[2] <= tries'[d]
                  /\ f.node = <<d, tries'[d]>> =>
                        stage'[d] \notin {"lookup", "begin", "begun", "staged", "written"}
    <3>1. PICK d \in Caller :
             /\ f.node[1] = d /\ f.node[2] <= tries[d]
             /\ f.node = <<d, tries[d]>> =>
                   stage[d] \notin {"lookup", "begin", "begun", "staged", "written"}
      BY DEF FInv, OwnFiles
    <3>2. f.node[2] \in Nat
      BY DEF FInv, CaptureTypeOK, Source
    <3>3. CASE d = c
      BY <2>2, <3>1, <3>2, <3>3
    <3>4. CASE d # c
      BY <2>2, <3>1, <3>4
    <3> QED BY <3>3, <3>4
  <2>6. ASSUME NEW k \in Key, rows[k] # NoRow
        PROVE  \E d \in Caller :
                  /\ rows[k].node[1] = d /\ rows[k].node[2] <= tries'[d]
                  /\ rows[k].node = <<d, tries'[d]>> =>
                        stage'[d] \in {"committed", "link", "answered", "failed"}
    <3>1. PICK d \in Caller :
             /\ rows[k].node[1] = d /\ rows[k].node[2] <= tries[d]
             /\ rows[k].node = <<d, tries[d]>> =>
                   stage[d] \in {"committed", "link", "answered", "failed"}
      BY <2>6 DEF FInv, OwnFiles
    <3>2. rows[k].node[2] \in Nat
      BY <2>6 DEF FInv, CaptureTypeOK, Source
    <3>3. CASE d = c
      BY <2>2, <3>1, <3>2, <3>3
    <3>4. CASE d # c
      BY <2>2, <3>1, <3>4
    <3> QED BY <3>3, <3>4
  <2> QED BY <2>1, <2>4, <2>5, <2>6 DEF OwnFiles
<1>2. ASSUME NEW c \in Caller, LookUp(c) PROVE OwnFiles'
  BY <1>2 DEF LookUp, Goes, Result, FInv, CaptureTypeOK, Stages, OwnFiles
<1>3. ASSUME NEW c \in Caller, Begin(c) PROVE OwnFiles'
  BY <1>3 DEF Begin, Goes, Result, FInv, CaptureTypeOK, Stages, OwnFiles
<1>4. ASSUME NEW c \in Caller, Stage(c) PROVE OwnFiles'
  <2> DEFINE p == [node |-> Own(c), content |-> Asked[c].content]
  <2>1. /\ path' = [path EXCEPT ![c] = p] /\ path'[c] = p
        /\ p \in Source /\ p \notin files /\ p # NoRow
        /\ temps' = temps \cup {c} /\ c \notin made
        /\ stage' = [stage EXCEPT ![c] = "staged"] /\ stage[c] = "begun"
        /\ UNCHANGED <<tries, rows, links, files, made, superseded, captureKills, littered>>
    BY <1>4, FreshFile
  <2>2. /\ stage'[c] = "staged" /\ \A d \in Caller : d # c => stage'[d] = stage[d] /\ path'[d] = path[d]
    BY <2>1 DEF FInv, CaptureTypeOK
  <2>3. p.node = <<c, tries[c]>>
    OBVIOUS
  <2> HIDE DEF p
  <2>4. \A d \in Caller :
           /\ stage'[d] \in {"staged", "written", "published"} \/ d \in made =>
                path'[d] # NoRow /\ path'[d].node = <<d, tries[d]>>
           /\ stage'[d] \in {"staged", "written"} => d \in temps'
           /\ stage'[d] = "published" => path'[d] \in files
    BY <2>1, <2>2, <2>3 DEF FInv, OwnFiles
  <2>5. \A f \in files : \E d \in Caller :
           /\ f.node[1] = d /\ f.node[2] <= tries[d]
           /\ f.node = <<d, tries[d]>> =>
                 stage'[d] \notin {"lookup", "begin", "begun", "staged", "written"}
    BY <2>1, <2>2 DEF FInv, OwnFiles
  <2>6. \A k \in Key : rows[k] # NoRow => \E d \in Caller :
           /\ rows[k].node[1] = d /\ rows[k].node[2] <= tries[d]
           /\ rows[k].node = <<d, tries[d]>> =>
                 stage'[d] \in {"committed", "link", "answered", "failed"}
    BY <2>1, <2>2 DEF FInv, OwnFiles
  <2> QED BY <2>1, <2>4, <2>5, <2>6 DEF OwnFiles
<1>5. ASSUME NEW c \in Caller, WriteRows(c) PROVE OwnFiles'
  BY <1>5 DEF WriteRows, Goes, FInv, CaptureTypeOK, Stages, OwnFiles
<1>6. ASSUME NEW c \in Caller, Publish(c) PROVE OwnFiles'
  BY <1>6 DEF Publish, Goes, FInv, CaptureTypeOK, Stages, OwnFiles
<1>7. ASSUME NEW c \in Caller, Commit(c) PROVE OwnFiles'
  BY <1>7 DEF Commit, Goes, FInv, CaptureTypeOK, Stages, OwnFiles
<1>8. ASSUME NEW c \in Caller, RemoveSuperseded(c) PROVE OwnFiles'
  BY <1>8 DEF RemoveSuperseded, Removes, Goes, Result, FInv, CaptureTypeOK, Stages, OwnFiles
<1>9. ASSUME NEW c \in Caller, GiveUp(c) PROVE OwnFiles'
  BY <1>9 DEF GiveUp, Goes, FInv, CaptureTypeOK, Stages, OwnFiles
<1>10. ASSUME NEW c \in Caller, CleanUp(c) PROVE OwnFiles'
  BY <1>10 DEF CleanUp, Removes, Goes, FInv, CaptureTypeOK, Stages, OwnFiles
<1>11. ASSUME NEW c \in Caller, Link(c) PROVE OwnFiles'
  BY <1>11 DEF Link, Goes, FInv, CaptureTypeOK, Stages, OwnFiles
<1>12. CASE Kill
  BY <1>12 DEF Kill, FInv, CaptureTypeOK, Stages, OwnFiles
<1>13. CASE UNCHANGED captureVars
  BY <1>13 DEF captureVars, FInv, CaptureTypeOK, Stages, OwnFiles
<1> QED BY <1>1, <1>2, <1>3, <1>4, <1>5, <1>6, <1>7, <1>8, <1>9, <1>10, <1>11, <1>12, <1>13
           DEF CaptureNext, CaptureStep

LEMMA RowsKept == ASSUME FInv, [CaptureNext]_captureVars PROVE FilesMatchRows'
<1> USE CaptureAssumption DEF InTransaction, Captured, Own, Key
<1>1. ASSUME NEW c \in Caller, Ask(c) PROVE FilesMatchRows'
  BY <1>1 DEF Ask, Goes, FInv, CaptureTypeOK, Stages, OwnFiles, FilesMatchRows
<1>2. ASSUME NEW c \in Caller, LookUp(c) PROVE FilesMatchRows'
  BY <1>2 DEF LookUp, Goes, Result, FInv, CaptureTypeOK, Stages, OwnFiles, FilesMatchRows
<1>3. ASSUME NEW c \in Caller, Begin(c) PROVE FilesMatchRows'
  BY <1>3 DEF Begin, Goes, Result, FInv, CaptureTypeOK, Stages, OwnFiles, FilesMatchRows
<1>4. ASSUME NEW c \in Caller, Stage(c) PROVE FilesMatchRows'
  BY <1>4, FreshFile, SMTT(30) DEF Stage, Goes, FInv, CaptureTypeOK, Stages, OwnFiles, FilesMatchRows
<1>5. ASSUME NEW c \in Caller, WriteRows(c) PROVE FilesMatchRows'
  BY <1>5 DEF WriteRows, Goes, FInv, CaptureTypeOK, Stages, OwnFiles, FilesMatchRows
<1>6. ASSUME NEW c \in Caller, Publish(c) PROVE FilesMatchRows'
  BY <1>6 DEF Publish, Goes, FInv, CaptureTypeOK, Stages, OwnFiles, FilesMatchRows
<1>7. ASSUME NEW c \in Caller, Commit(c) PROVE FilesMatchRows'
  BY <1>7, SMTT(30) DEF Commit, Goes, FInv, CaptureTypeOK, Stages, OwnFiles, FilesMatchRows
<1>8. ASSUME NEW c \in Caller, RemoveSuperseded(c) PROVE FilesMatchRows'
  BY <1>8, SMTT(30) DEF RemoveSuperseded, Removes, Goes, Result, FInv, CaptureTypeOK, Stages, OwnFiles, FilesMatchRows
<1>9. ASSUME NEW c \in Caller, GiveUp(c) PROVE FilesMatchRows'
  BY <1>9 DEF GiveUp, Goes, FInv, CaptureTypeOK, Stages, OwnFiles, FilesMatchRows
<1>10. ASSUME NEW c \in Caller, CleanUp(c) PROVE FilesMatchRows'
  BY <1>10 DEF CleanUp, Removes, Goes, FInv, CaptureTypeOK, Stages, OwnFiles, FilesMatchRows
<1>11. ASSUME NEW c \in Caller, Link(c) PROVE FilesMatchRows'
  BY <1>11 DEF Link, Goes, FInv, CaptureTypeOK, Stages, OwnFiles, FilesMatchRows
<1>12. CASE Kill
  BY <1>12 DEF Kill, FInv, CaptureTypeOK, Stages, OwnFiles, FilesMatchRows
<1>13. CASE UNCHANGED captureVars
  BY <1>13 DEF captureVars, FInv, CaptureTypeOK, Stages, OwnFiles, FilesMatchRows
<1> QED BY <1>1, <1>2, <1>3, <1>4, <1>5, <1>6, <1>7, <1>8, <1>9, <1>10, <1>11, <1>12, <1>13
           DEF CaptureNext, CaptureStep

LEMMA AnswersKept == ASSUME FInv, [CaptureNext]_captureVars PROVE AnsweredIsStored'
<1> USE CaptureAssumption DEF InTransaction, Captured, Key
<1>1. ASSUME NEW c \in Caller, Ask(c) PROVE AnsweredIsStored'
  BY <1>1 DEF Ask, Goes, FInv, CaptureTypeOK, Stages, AnsweredIsStored
<1>2. ASSUME NEW c \in Caller, LookUp(c) PROVE AnsweredIsStored'
  BY <1>2 DEF LookUp, Goes, Result, FInv, CaptureTypeOK, Stages, AnsweredIsStored
<1>3. ASSUME NEW c \in Caller, Begin(c) PROVE AnsweredIsStored'
  BY <1>3 DEF Begin, Goes, Result, FInv, CaptureTypeOK, Stages, AnsweredIsStored
<1>4. ASSUME NEW c \in Caller, Stage(c) PROVE AnsweredIsStored'
  BY <1>4, FreshFile DEF Stage, Goes, FInv, CaptureTypeOK, Stages, AnsweredIsStored
<1>5. ASSUME NEW c \in Caller, WriteRows(c) PROVE AnsweredIsStored'
  BY <1>5 DEF WriteRows, Goes, FInv, CaptureTypeOK, Stages, AnsweredIsStored
<1>6. ASSUME NEW c \in Caller, Publish(c) PROVE AnsweredIsStored'
  BY <1>6 DEF Publish, Goes, FInv, CaptureTypeOK, Stages, AnsweredIsStored
<1>7. ASSUME NEW c \in Caller, Commit(c) PROVE AnsweredIsStored'
  BY <1>7 DEF Commit, Goes, FInv, CaptureTypeOK, Stages, AnsweredIsStored
<1>8. ASSUME NEW c \in Caller, RemoveSuperseded(c) PROVE AnsweredIsStored'
  BY <1>8 DEF RemoveSuperseded, Removes, Goes, Result, FInv, CaptureTypeOK, Stages, AnsweredIsStored
<1>9. ASSUME NEW c \in Caller, GiveUp(c) PROVE AnsweredIsStored'
  BY <1>9 DEF GiveUp, Goes, FInv, CaptureTypeOK, Stages, AnsweredIsStored
<1>10. ASSUME NEW c \in Caller, CleanUp(c) PROVE AnsweredIsStored'
  BY <1>10 DEF CleanUp, Removes, Goes, FInv, CaptureTypeOK, Stages, AnsweredIsStored
<1>11. ASSUME NEW c \in Caller, Link(c) PROVE AnsweredIsStored'
  BY <1>11 DEF Link, Goes, FInv, CaptureTypeOK, Stages, AnsweredIsStored
<1>12. CASE Kill
  BY <1>12 DEF Kill, FInv, CaptureTypeOK, Stages, AnsweredIsStored
<1>13. CASE UNCHANGED captureVars
  BY <1>13 DEF captureVars, FInv, CaptureTypeOK, Stages, AnsweredIsStored
<1> QED BY <1>1, <1>2, <1>3, <1>4, <1>5, <1>6, <1>7, <1>8, <1>9, <1>10, <1>11, <1>12, <1>13
           DEF CaptureNext, CaptureStep

-----------------------------------------------------------------------------
\* What Capture, CreateCorrection and WithUnitOfWork keep between any two of their steps.
LEMMA FInvStep == ASSUME FInv, [CaptureNext]_captureVars PROVE FInv'
  BY TypeKept, StagesKept, FilesKept, RowsKept, AnswersKept DEF FInv

LEMMA FInvInductive == CaptureSpec => []FInv
  BY InitFInv, FInvStep, PTL DEF CaptureSpec

\* Captures, rollbacks and kills leave rows and files well typed; on the one connection of
\* a domain, WithUnitOfWork runs one transaction at a time.
THEOREM CaptureTypeCorrect == CaptureSpec => []CaptureTypeOK
<1>1. FInv => CaptureTypeOK
  BY DEF FInv
<1> QED BY FInvInductive, <1>1, PTL

\* commitEvidenceFiles, cleanupEvidenceFiles and the commit keep rows and source files in
\* agreement, for any number of captures of any keys: a file is removed only by the attempt
\* that made it, and only when no row names it.
THEOREM RowsHaveFiles == CaptureSpec => []FilesMatchRows
<1>1. FInv => FilesMatchRows
  BY DEF FInv
<1> QED BY FInvInductive, <1>1, PTL

\* Capture and CreateCorrection answer only when row and edge are committed.
THEOREM AnswersAreStored == CaptureSpec => []AnsweredIsStored
<1>1. FInv => AnsweredIsStored
  BY DEF FInv
<1> QED BY FInvInductive, <1>1, PTL

LEMMA StepCapturesOnce ==
  ASSUME FInv, [CaptureNext]_captureVars
  PROVE  [\A k \in Key : rows[k] # NoRow => rows'[k] = rows[k]]_captureVars
<1>1. ASSUME NEW c \in Caller, Commit(c)
      PROVE  \A k \in Key : rows[k] # NoRow => rows'[k] = rows[k]
  BY <1>1 DEF Commit, FInv, CaptureTypeOK, Stages, InTransaction, Captured
<1>2. (\A c \in Caller : ~Commit(c)) => rows' = rows
  BY DEF CaptureNext, CaptureStep, Kill, Ask, LookUp, Begin, Stage, WriteRows, Publish,
         RemoveSuperseded, GiveUp, CleanUp, Link, captureVars
<1> QED BY <1>1, <1>2

\* captureByIdempotency inside the transaction makes a key captured once: no attempt, of the
\* same or another caller, replaces the row of a committed capture.
THEOREM KeysAreCapturedOnce == CaptureSpec => CapturedOnce
<1> QED BY FInvInductive, StepCapturesOnce, PTL DEF CaptureSpec, CapturedOnce

-----------------------------------------------------------------------------
(* The pool.  As long as no files are being deleted, every repository keeps  *)
(* writing the database that the directory holds.                           *)

Directory ==
    /\ \A x \in Remover : remover[x] = "delete" => x \in DeletingFiles
    /\ Removing => 1..opened \subseteq shadowed
    /\ \A h \in (1..opened) \ shadowed : disk # 0 /\ fileOf[h] = disk
    /\ \A c \in Client : client[c] = "use" => handle[c] \in 1..opened

PInv == PoolTypeOK /\ Directory /\ OpenIsOwned

LEMMA InitPInv == PoolInit => PInv
<1> SUFFICES ASSUME PoolInit PROVE PInv
  OBVIOUS
<1> USE PoolAssumption DEF PoolInit
<1>1. PoolTypeOK
  BY DEF PoolTypeOK
<1>2. Directory /\ OpenIsOwned
  BY DEF Directory, Removing, OpenIsOwned
<1> QED BY <1>1, <1>2 DEF PInv

LEMMA PoolTyped == ASSUME PInv, [PoolNext]_poolVars PROVE PoolTypeOK'
<1> USE PoolAssumption DEF Handle
<1>1. ASSUME NEW c \in Client, List(c) PROVE PoolTypeOK'
  BY <1>1 DEF List, Turn, PInv, PoolTypeOK, Directory
<1>2. ASSUME NEW c \in Client, Fetch(c) PROVE PoolTypeOK'
  <2>1. /\ client' = [client EXCEPT ![c] = "use"]
        /\ UNCHANGED <<closing, closed, stored, remover, target>>
    BY <1>2 DEF Fetch, Turn
  <2>2. CASE /\ mapped # 0 /\ handle' = [handle EXCEPT ![c] = mapped]
             /\ UNCHANGED <<mapped, opened, fileOf, disk, shadowed>>
    BY <2>1, <2>2 DEF PInv, PoolTypeOK
  <2>3. CASE /\ mapped = 0 /\ opened < MaxHandles /\ OpenDomain(opened + 1)
             /\ mapped' = opened + 1 /\ handle' = [handle EXCEPT ![c] = opened + 1]
    <3>1. /\ opened' = opened + 1 /\ opened + 1 \in 1..MaxHandles
          /\ 0..opened \subseteq 0..opened' /\ 1..opened \subseteq 1..opened'
      BY <2>3 DEF OpenDomain, PInv, PoolTypeOK
    <3>2. fileOf' \in [1..MaxHandles -> 0..opened']
      BY <2>3, <3>1 DEF OpenDomain, PInv, PoolTypeOK
    <3>3. disk' \in 0..opened' /\ shadowed' \subseteq 1..opened'
      BY <2>3, <3>1, <3>2 DEF OpenDomain, PInv, PoolTypeOK
    <3>4. handle' \in [Client -> 0..opened'] /\ mapped' \in 0..opened'
      BY <2>3, <3>1 DEF PInv, PoolTypeOK
    <3>5. closing' \subseteq 1..opened' /\ closed' \subseteq 1..opened' /\ target' \in [Remover -> 0..opened']
      BY <2>1, <3>1 DEF PInv, PoolTypeOK
    <3>6. opened' \in 0..MaxHandles
      BY <3>1
    <3> QED BY <2>1, <3>2, <3>3, <3>4, <3>5, <3>6 DEF PInv, PoolTypeOK
  <2> QED BY <1>2, <2>2, <2>3 DEF Fetch
<1>3. ASSUME NEW c \in Client, Use(c) PROVE PoolTypeOK'
  <2>1. \E s \in {"failed", "done"} : client' = [client EXCEPT ![c] = s]
    BY <1>3 DEF Use, Turn
  <2>2. stored' = stored \/ stored' = [stored EXCEPT ![fileOf[handle[c]]] = @ \cup {c}]
    BY <1>3 DEF Use
  <2>3. stored' \in [1..MaxHandles -> SUBSET Client]
    <3> DEFINE f == fileOf[handle[c]]
    <3>1. stored \in [1..MaxHandles -> SUBSET Client]
      BY DEF PInv, PoolTypeOK
    <3> HIDE DEF f
    <3>2. CASE stored' = [stored EXCEPT ![f] = @ \cup {c}]
      <4>1. [stored EXCEPT ![f] = @ \cup {c}] =
               [h \in 1..MaxHandles |-> IF h = f THEN stored[h] \cup {c} ELSE stored[h]]
        BY <3>1
      <4> QED BY <3>1, <3>2, <4>1
    <3> QED BY <2>2, <3>1, <3>2 DEF f
  <2>4. UNCHANGED <<mapped, opened, closing, closed, fileOf, disk, handle, remover, target, shadowed>>
    BY <1>3 DEF Use
  <2> QED BY <2>1, <2>3, <2>4 DEF PInv, PoolTypeOK
<1>4. ASSUME NEW x \in Remover, Unmap(x) PROVE PoolTypeOK'
  BY <1>4 DEF Unmap, Calls, PInv, PoolTypeOK, Directory
<1>5. ASSUME NEW x \in Remover, CloseTarget(x) PROVE PoolTypeOK'
  <2>1. closed' = closed \cup ({target[x]} \ {0}) /\ target[x] \in 0..opened
    BY <1>5 DEF CloseTarget, PInv, PoolTypeOK
  <2>2. closed' \subseteq 1..opened
    <3>1. closed \subseteq 1..opened /\ opened \in Nat
      BY DEF PInv, PoolTypeOK
    <3>2. target[x] # 0 => target[x] \in 1..opened
      BY <2>1, <3>1
    <3> QED BY <2>1, <3>1, <3>2
  <2>3. \E s \in {"delete", "removed"} : remover' = [remover EXCEPT ![x] = s]
    BY <1>5 DEF CloseTarget, Calls
  <2>4. UNCHANGED <<mapped, opened, closing, fileOf, disk, client, handle, stored, target, shadowed>>
    BY <1>5 DEF CloseTarget
  <2> QED BY <2>2, <2>3, <2>4 DEF PInv, PoolTypeOK
<1>6. ASSUME NEW x \in Remover, RemoveAll(x) PROVE PoolTypeOK'
  BY <1>6 DEF RemoveAll, Calls, PInv, PoolTypeOK, Directory
<1>7. CASE CloseAll
  BY <1>7 DEF CloseAll, PInv, PoolTypeOK, Directory
<1>8. ASSUME NEW h \in 1..MaxHandles, CloseNext(h) PROVE PoolTypeOK'
  BY <1>8 DEF CloseNext, PInv, PoolTypeOK, Directory
<1>9. CASE UNCHANGED poolVars
  BY <1>9 DEF poolVars, PInv, PoolTypeOK, Directory
<1> QED BY <1>1, <1>2, <1>3, <1>4, <1>5, <1>6, <1>7, <1>8, <1>9 DEF PoolNext

LEMMA DirectoryKept == ASSUME PInv, [PoolNext]_poolVars PROVE Directory'
<1> USE PoolAssumption DEF Handle, Removing
<1>1. ASSUME NEW c \in Client, List(c) PROVE Directory'
  BY <1>1 DEF List, Turn, PInv, PoolTypeOK, Directory
<1>2. ASSUME NEW c \in Client, Fetch(c) PROVE Directory'
  BY <1>2, SMTT(30) DEF Fetch, Turn, OpenDomain, PInv, PoolTypeOK, Directory
<1>3. ASSUME NEW c \in Client, Use(c) PROVE Directory'
  BY <1>3 DEF Use, Turn, PInv, PoolTypeOK, Directory
<1>4. ASSUME NEW x \in Remover, Unmap(x) PROVE Directory'
  BY <1>4 DEF Unmap, Calls, PInv, PoolTypeOK, Directory
<1>5. ASSUME NEW x \in Remover, CloseTarget(x) PROVE Directory'
  BY <1>5 DEF CloseTarget, Calls, PInv, PoolTypeOK, Directory
<1>6. ASSUME NEW x \in Remover, RemoveAll(x) PROVE Directory'
  BY <1>6 DEF RemoveAll, Calls, PInv, PoolTypeOK, Directory
<1>7. CASE CloseAll
  BY <1>7 DEF CloseAll, PInv, PoolTypeOK, Directory
<1>8. ASSUME NEW h \in 1..MaxHandles, CloseNext(h) PROVE Directory'
  BY <1>8 DEF CloseNext, PInv, PoolTypeOK, Directory
<1>9. CASE UNCHANGED poolVars
  BY <1>9 DEF poolVars, PInv, PoolTypeOK, Directory
<1> QED BY <1>1, <1>2, <1>3, <1>4, <1>5, <1>6, <1>7, <1>8, <1>9 DEF PoolNext

LEMMA OpenKept == ASSUME PInv, [PoolNext]_poolVars PROVE OpenIsOwned'
<1> USE PoolAssumption DEF Handle
<1>1. ASSUME NEW c \in Client, List(c) PROVE OpenIsOwned'
  BY <1>1 DEF List, Turn, PInv, PoolTypeOK, Directory, OpenIsOwned
<1>2. ASSUME NEW c \in Client, Fetch(c) PROVE OpenIsOwned'
  BY <1>2, SMTT(30) DEF Fetch, Turn, OpenDomain, PInv, PoolTypeOK, Directory, OpenIsOwned
<1>3. ASSUME NEW c \in Client, Use(c) PROVE OpenIsOwned'
  <2>1. /\ client[c] = "use" /\ UNCHANGED <<mapped, opened, closing, closed, fileOf, disk, handle, remover, target, shadowed>>
        /\ handle[c] \in 1..opened
    BY <1>3 DEF Use, PInv, Directory
  <2>2. ASSUME NEW d \in Client, client'[d] = "done", handle[d] \notin shadowed \cup {0}
        PROVE  disk # 0 /\ d \in stored'[disk]
    <3>1. CASE d # c
      <4>1. client[d] = "done" /\ disk # 0 /\ d \in stored[disk]
        BY <1>3, <2>2, <3>1 DEF Use, Turn, PInv, PoolTypeOK, OpenIsOwned
      <4>2. stored[disk] \subseteq stored'[disk]
        BY <1>3, <4>1, SMTT(30) DEF Use, PInv, PoolTypeOK
      <4> QED BY <4>1, <4>2
    <3>2. CASE d = c
      <4>1. disk # 0 /\ fileOf[handle[c]] = disk /\ disk \in 1..MaxHandles
        BY <2>1, <2>2, <3>2 DEF PInv, PoolTypeOK, Directory
      <4>2. stored' = [stored EXCEPT ![disk] = @ \cup {c}]
        BY <1>3, <2>2, <3>2, <4>1 DEF Use, Turn, PInv, PoolTypeOK
      <4> QED BY <3>2, <4>1, <4>2 DEF PInv, PoolTypeOK
    <3> QED BY <3>1, <3>2
  <2> QED BY <2>1, <2>2 DEF PInv, OpenIsOwned
<1>4. ASSUME NEW x \in Remover, Unmap(x) PROVE OpenIsOwned'
  BY <1>4 DEF Unmap, Calls, PInv, PoolTypeOK, Directory, OpenIsOwned
<1>5. ASSUME NEW x \in Remover, CloseTarget(x) PROVE OpenIsOwned'
  BY <1>5 DEF CloseTarget, Calls, PInv, PoolTypeOK, Directory, OpenIsOwned
<1>6. ASSUME NEW x \in Remover, RemoveAll(x) PROVE OpenIsOwned'
  <2>1. /\ remover[x] = "delete" /\ disk' = 0 /\ remover' = [remover EXCEPT ![x] = "gone"]
        /\ UNCHANGED <<mapped, opened, closing, closed, fileOf, client, handle, stored, target, shadowed>>
    BY <1>6 DEF RemoveAll, Calls
  <2>2. 1..opened \subseteq shadowed
    BY <2>1 DEF PInv, Directory, Removing
  <2>3. \A c \in Client : handle[c] \in shadowed \cup {0}
    BY <2>2 DEF PInv, PoolTypeOK
  <2>4. \A y \in Remover : remover[y] = "close" => remover'[y] = "close"
    BY <2>1 DEF PInv, PoolTypeOK
  <2> QED BY <2>1, <2>3, <2>4 DEF PInv, OpenIsOwned
<1>7. CASE CloseAll
  BY <1>7 DEF CloseAll, PInv, PoolTypeOK, Directory, OpenIsOwned
<1>8. ASSUME NEW h \in 1..MaxHandles, CloseNext(h) PROVE OpenIsOwned'
  BY <1>8 DEF CloseNext, PInv, PoolTypeOK, Directory, OpenIsOwned
<1>9. CASE UNCHANGED poolVars
  BY <1>9 DEF poolVars, PInv, PoolTypeOK, Directory, OpenIsOwned
<1> QED BY <1>1, <1>2, <1>3, <1>4, <1>5, <1>6, <1>7, <1>8, <1>9 DEF PoolNext

\* What repoForDomain, RemoveMemoryDomain and Close keep between any two of their steps.
LEMMA PInvStep == ASSUME PInv, [PoolNext]_poolVars PROVE PInv'
  BY PoolTyped, DirectoryKept, OpenKept DEF PInv

LEMMA PInvInductive == PoolSpec => []PInv
  BY InitPInv, PInvStep, PTL DEF PoolSpec

\* repoForDomain, RemoveMemoryDomain and Close leave handles and files well typed.
THEOREM PoolTypeCorrect == PoolSpec => []PoolTypeOK
<1>1. PInv => PoolTypeOK
  BY DEF PInv
<1> QED BY PInvInductive, <1>1, PTL

\* However many requests, removals and calls of Close race, a repository that is open is
\* the one repoForDomain gives out or one whose close is under way, and what a request
\* stored is in the domain's directory unless its files were being deleted.
THEOREM OpenHasOwner == PoolSpec => []OpenIsOwned
<1>1. PInv => OpenIsOwned
  BY DEF PInv
<1> QED BY PInvInductive, <1>1, PTL

-----------------------------------------------------------------------------
(* TaskGraph.                                                               *)

\* Which request has come where; a task somebody looked up is there.
TaskRoles ==
    /\ \A r \in Request :
          /\ at[r] \in {"lookup", "find", "insert"} => r \in Creating
          /\ at[r] \in {"status", "stamp"} => r \in Creating \cup Patching
          /\ at[r] = "clear" => r \in Patching
          /\ at[r] \in {"list", "archive"} => r \in Moving
          /\ at[r] = "add" => r \in Creating \cup Moving
    /\ node = "none" => /\ inserted = 0 /\ projects = {}
                        /\ ~completed /\ ~canceled
                        /\ \A r \in Request : /\ ~ReplacingProject(r) /\ ~Stamping(r)
                                                /\ at[r] \notin {"status", "list", "rename"}

\* A request beside which no other status is written finds what it wrote; whoever still
\* writes stamps when the status is settled writes those of that status.
StatusInStep ==
    /\ settled => \A r \in Request : Stamping(r) => StatusOf[r] = status
    /\ \A q, r \in Request :
          Stamping(q) /\ WritingStatus(r) /\ StatusOf[q] # StatusOf[r] => r \in crowded
    /\ \A r \in Request \ crowded :
          /\ Stamping(r) => status = StatusOf[r]
          /\ at[r] = "clear" => IF StatusOf[r] = "canceled" THEN canceled
                                ELSE completed = (StatusOf[r] = "done")
          /\ Making(r) => /\ completed => StatusOf[r] = "done"
                          /\ canceled => StatusOf[r] = "canceled"

\* One request at a time replaces the project, and has found all there is.
ProjectsInStep ==
    ~crossed =>
       /\ \A q, r \in Request : ReplacingProject(q) /\ ReplacingProject(r) => q = r
       /\ projects = {} \/ \E p \in projects : projects = {p}
       /\ \A r \in Request :
             /\ ReplacingProject(r) /\ at[r] # "archive" => projects = {}
             /\ at[r] = "archive" => listed[r] = projects

StatusReadsBack ==
    settled => /\ status = "done" => completed /\ ~canceled
               /\ status = "canceled" => canceled /\ ~completed
               /\ status \in {"none", "open"} => ~completed /\ ~canceled

TInv == TaskTypeOK /\ TaskRoles /\ StatusInStep /\ ProjectsInStep /\ StatusReadsBack

LEMMA InitTInv == TaskInit => TInv
<1> SUFFICES ASSUME TaskInit PROVE TInv
  OBVIOUS
<1> USE TaskAssumption DEF TaskInit, Request, Stamping, Making, WritingStatus, ReplacingProject
<1>1. at \in [Request -> Statements]
  BY DEF Statements
<1>2. TaskTypeOK
  <2> HIDE DEF Request
  <2>1. listed \in [Moving -> SUBSET {ProjectOf[r] : r \in Creating \cup Moving}]
    OBVIOUS
  <2>2. settled \in BOOLEAN /\ crossed \in BOOLEAN /\ completed \in BOOLEAN /\ canceled \in BOOLEAN
    OBVIOUS
  <2>3. inserted \in 0..1 /\ status \in {"none", "open", "done", "canceled"} /\ node \in {"none", "active", "deleted"}
    OBVIOUS
  <2>4. crowded \subseteq Request /\ projects \subseteq {ProjectOf[r] : r \in Creating \cup Moving}
    OBVIOUS
  <2> QED BY <1>1, <2>1, <2>2, <2>3, <2>4 DEF TaskTypeOK
<1>3. TaskRoles /\ StatusInStep /\ ProjectsInStep /\ StatusReadsBack
  BY DEF TaskRoles, StatusInStep, ProjectsInStep, StatusReadsBack
<1> QED BY <1>2, <1>3 DEF TInv

\* The steps that move a request on, and change neither its status nor its project.
Aside(r) ==
    \/ Read(r) \/ LookUpTask(r) \/ Rename(r) \/ MarkDeleted(r) \/ Cut(r)

LEMMA TaskTyped == ASSUME TInv, [TaskNext]_taskVars PROVE TaskTypeOK'
<1> USE DEF Then, Statements
<1>1. ASSUME NEW r \in Request, Aside(r) PROVE TaskTypeOK'
  BY <1>1 DEF Aside, Read, LookUpTask, Rename, MarkDeleted, Cut, TInv, TaskTypeOK, propertyVars, historyVars
<1>2. ASSUME NEW r \in Request, FindNode(r) PROVE TaskTypeOK'
  BY <1>2 DEF FindNode, TInv, TaskTypeOK, propertyVars
<1>3. ASSUME NEW r \in Request, InsertNode(r) PROVE TaskTypeOK'
  BY <1>3 DEF InsertNode, TInv, TaskTypeOK, TaskRoles, propertyVars
<1>4. ASSUME NEW r \in Request, WriteStatus(r) PROVE TaskTypeOK'
  <2>1. StatusOf[r] \in {"open", "done", "canceled"}
    BY <1>4, TaskAssumption DEF WriteStatus, TInv, TaskRoles
  <2> QED BY <1>4, <2>1 DEF WriteStatus, TInv, TaskTypeOK
<1>5. ASSUME NEW r \in Request, Stamp(r) PROVE TaskTypeOK'
  BY <1>5 DEF Stamp, TInv, TaskTypeOK
<1>6. ASSUME NEW r \in Request, Clear(r) PROVE TaskTypeOK'
  BY <1>6 DEF Clear, TInv, TaskTypeOK
<1>7. ASSUME NEW r \in Request, ListProjects(r) PROVE TaskTypeOK'
  BY <1>7 DEF ListProjects, TInv, TaskTypeOK, propertyVars
<1>8. ASSUME NEW r \in Request, ArchiveProject(r) PROVE TaskTypeOK'
  BY <1>8 DEF ArchiveProject, TInv, TaskTypeOK, TaskRoles, propertyVars, historyVars
<1>9. ASSUME NEW r \in Request, AddProject(r) PROVE TaskTypeOK'
  BY <1>9 DEF AddProject, TInv, TaskTypeOK, TaskRoles, propertyVars
<1>10. CASE UNCHANGED taskVars
  BY <1>10 DEF taskVars, propertyVars, historyVars, TInv, TaskTypeOK
<1> QED BY <1>1, <1>2, <1>3, <1>4, <1>5, <1>6, <1>7, <1>8, <1>9, <1>10 DEF TaskNext, Aside

LEMMA RolesKept == ASSUME TInv, [TaskNext]_taskVars PROVE TaskRoles'
<1> USE TaskAssumption DEF Then, Found, Request, Stamping, Making, ReplacingProject, TInv, TaskTypeOK, TaskRoles
<1>1. ASSUME NEW r \in Request, Aside(r) PROVE TaskRoles'
  BY <1>1 DEF Aside, Read, LookUpTask, Rename, MarkDeleted, Cut, propertyVars, historyVars
<1>2. ASSUME NEW r \in Request, FindNode(r) PROVE TaskRoles'
  BY <1>2 DEF FindNode, propertyVars
<1>3. ASSUME NEW r \in Request, InsertNode(r) PROVE TaskRoles'
  BY <1>3 DEF InsertNode, propertyVars
<1>4. ASSUME NEW r \in Request, WriteStatus(r) PROVE TaskRoles'
  BY <1>4 DEF WriteStatus
<1>5. ASSUME NEW r \in Request, Stamp(r) PROVE TaskRoles'
  BY <1>5 DEF Stamp
<1>6. ASSUME NEW r \in Request, Clear(r) PROVE TaskRoles'
  BY <1>6 DEF Clear
<1>7. ASSUME NEW r \in Request, ListProjects(r) PROVE TaskRoles'
  BY <1>7 DEF ListProjects, propertyVars
<1>8. ASSUME NEW r \in Request, ArchiveProject(r) PROVE TaskRoles'
  BY <1>8 DEF ArchiveProject, propertyVars, historyVars
<1>9. ASSUME NEW r \in Request, AddProject(r) PROVE TaskRoles'
  BY <1>9 DEF AddProject, propertyVars
<1>10. CASE UNCHANGED taskVars
  BY <1>10 DEF taskVars, propertyVars, historyVars
<1> QED BY <1>1, <1>2, <1>3, <1>4, <1>5, <1>6, <1>7, <1>8, <1>9, <1>10 DEF TaskNext, Aside

LEMMA StatusKept == ASSUME TInv, [TaskNext]_taskVars PROVE StatusInStep' /\ StatusReadsBack'
<1> USE TaskAssumption DEF Then, Request, Stamping, Making, WritingStatus, TInv, TaskTypeOK, TaskRoles,
       StatusInStep, StatusReadsBack
<1>1. ASSUME NEW r \in Request, Aside(r) PROVE StatusInStep' /\ StatusReadsBack'
  BY <1>1 DEF Aside, Read, LookUpTask, Rename, MarkDeleted, Cut, propertyVars, historyVars
<1>2. ASSUME NEW r \in Request, FindNode(r) PROVE StatusInStep' /\ StatusReadsBack'
  BY <1>2 DEF FindNode, propertyVars
<1>3. ASSUME NEW r \in Request, InsertNode(r) PROVE StatusInStep' /\ StatusReadsBack'
  BY <1>3 DEF InsertNode, propertyVars
<1>4. ASSUME NEW r \in Request, WriteStatus(r) PROVE StatusInStep' /\ StatusReadsBack'
  BY <1>4 DEF WriteStatus
<1>5. ASSUME NEW r \in Request, Stamp(r) PROVE StatusInStep' /\ StatusReadsBack'
  BY <1>5 DEF Stamp
<1>6. ASSUME NEW r \in Request, Clear(r) PROVE StatusInStep' /\ StatusReadsBack'
  BY <1>6 DEF Clear
<1>7. ASSUME NEW r \in Request, ListProjects(r) PROVE StatusInStep' /\ StatusReadsBack'
  BY <1>7 DEF ListProjects, propertyVars
<1>8. ASSUME NEW r \in Request, ArchiveProject(r) PROVE StatusInStep' /\ StatusReadsBack'
  BY <1>8 DEF ArchiveProject, propertyVars, historyVars
<1>9. ASSUME NEW r \in Request, AddProject(r) PROVE StatusInStep' /\ StatusReadsBack'
  BY <1>9 DEF AddProject, propertyVars
<1>10. CASE UNCHANGED taskVars
  BY <1>10 DEF taskVars, propertyVars, historyVars
<1> QED BY <1>1, <1>2, <1>3, <1>4, <1>5, <1>6, <1>7, <1>8, <1>9, <1>10 DEF TaskNext, Aside

LEMMA ProjectsKept == ASSUME TInv, [TaskNext]_taskVars PROVE ProjectsInStep'
<1> USE TaskAssumption DEF Then, Request, Making, ReplacingProject, TInv, TaskTypeOK, TaskRoles, ProjectsInStep
<1>1. ASSUME NEW r \in Request, Aside(r) PROVE ProjectsInStep'
  BY <1>1 DEF Aside, Read, LookUpTask, Rename, MarkDeleted, Cut, propertyVars, historyVars
<1>2. ASSUME NEW r \in Request, FindNode(r) PROVE ProjectsInStep'
  BY <1>2 DEF FindNode, propertyVars
<1>3. ASSUME NEW r \in Request, InsertNode(r) PROVE ProjectsInStep'
  BY <1>3 DEF InsertNode, propertyVars
<1>4. ASSUME NEW r \in Request, WriteStatus(r) PROVE ProjectsInStep'
  BY <1>4 DEF WriteStatus
<1>5. ASSUME NEW r \in Request, Stamp(r) PROVE ProjectsInStep'
  BY <1>5 DEF Stamp
<1>6. ASSUME NEW r \in Request, Clear(r) PROVE ProjectsInStep'
  BY <1>6 DEF Clear
<1>7. ASSUME NEW r \in Request, ListProjects(r) PROVE ProjectsInStep'
  BY <1>7 DEF ListProjects, propertyVars
<1>8. ASSUME NEW r \in Request, ArchiveProject(r) PROVE ProjectsInStep'
  <2> SUFFICES ASSUME ~crossed PROVE ProjectsInStep'
    BY <1>8 DEF ArchiveProject, historyVars
  <2>1. /\ at[r] = "archive" /\ ~crossed' /\ listed[r] = projects
        /\ \A q \in Request : ReplacingProject(q) => q = r
    BY <1>8 DEF ArchiveProject, historyVars
  <2>2. CASE listed[r] = {}
    BY <1>8, <2>1, <2>2 DEF ArchiveProject, historyVars
  <2>3. CASE listed[r] # {}
    <3>1. PICK p \in projects : projects = {p}
      BY <2>1, <2>3
    <3>2. projects' = {} /\ listed'[r] = {} /\ at' = at
      BY <1>8, <2>1, <2>3, <3>1 DEF ArchiveProject
    <3> QED BY <2>1, <3>2
  <2> QED BY <2>2, <2>3
<1>9. ASSUME NEW r \in Request, AddProject(r) PROVE ProjectsInStep'
  BY <1>9 DEF AddProject, propertyVars
<1>10. CASE UNCHANGED taskVars
  BY <1>10 DEF taskVars, propertyVars, historyVars
<1> QED BY <1>1, <1>2, <1>3, <1>4, <1>5, <1>6, <1>7, <1>8, <1>9, <1>10 DEF TaskNext, Aside

LEMMA TInvStep == ASSUME TInv, [TaskNext]_taskVars PROVE TInv'
  BY TaskTyped, RolesKept, StatusKept, ProjectsKept DEF TInv

LEMMA TInvInductive == TaskSpec => []TInv
  BY InitTInv, TInvStep, PTL DEF TaskSpec

\* The requests on a task keep its state well typed; in particular a key has one task.
THEOREM TaskTypeCorrect == TaskSpec => []TaskTypeOK
<1>1. TInv => TaskTypeOK
  BY DEF TInv
<1> QED BY TInvInductive, <1>1, PTL

\* The stamps agree with the status whenever its last writer has finished and no request
\* writing another status overlapped it, whatever overlapped or was cut off before and
\* however often the same request is repeated beside it; and a task has one project as
\* long as one request at a time replaces it.
THEOREM TasksReadBack == TaskSpec => []TaskReadsBack
<1>1. ASSUME TInv PROVE TaskReadsBack
  <2>1. ~crossed => Cardinality(projects) <= 1
    <3>1. CASE projects = {}
      BY <3>1, FS_EmptySet
    <3>2. ASSUME NEW p, projects = {p} PROVE Cardinality(projects) <= 1
      BY <3>2, FS_Singleton
    <3> QED BY <1>1, <3>1, <3>2 DEF TInv, ProjectsInStep
  <2> QED BY <1>1, <2>1 DEF TInv, StatusReadsBack, TaskReadsBack
<1> QED BY TInvInductive, <1>1, PTL

-----------------------------------------------------------------------------
(* MemoryDaemon.                                                            *)

In(s) == {s[i] : i \in DOMAIN s}
Once(s) == \A i, j \in DOMAIN s : s[i] = s[j] => i = j

Running == daemon \in {"serving", "draining", "saving", "sending"}
Replacing == daemon \in {"promote", "rollback"}
Archiving == daemon \in {"saving", "sending"}
\* What buildSnapshot has read of the domain.
HasSources == Archiving /\ archive["data"] # NoFile
HasBase == HasSources /\ (daemon = "sending" \/ step = "log")

\* Where main is.
Phased ==
    /\ Running => restored = "done" /\ live["data"] # NoFile
    /\ ~Running => \A w \in Write : request[w] \in {"idle", "over"}
    /\ daemon \in {"download", "promote", "rollback"} => restored = "no"
    /\ daemon = "download" \/ (daemon = "off" /\ restored = "no") => live = before
    /\ daemon \in {"download", "promote"} => botched = {}
    /\ ~Replacing => move = 1 /\ backups = <<>> /\ promoted = <<>>
    /\ ~Replacing /\ daemon # "saving" => step = "backup"
    /\ Replacing => staged \in Images /\ snapshot # NoSnapshot
    /\ daemon = "promote" => step \in {"backup", "rename", "sync"} /\ (move = 5 => step = "backup")
    /\ Archiving => archive \in Images
    /\ daemon = "saving" /\ archive["data"] # NoFile => step \in {"base", "log"}
    /\ daemon = "sending" => archive["data"] # NoFile

\* A path is as it was, or the rollback failed at it and what was there is still aside.
AsItWas(p) == live[p] = before[p] \/ (p \in botched /\ (before[p] # NoFile => before[p] \in aside[p]))

\* What becomes of a path: what was there is in place or aside, until something replaces it.
Placed ==
    /\ Replacing =>
          /\ Once(backups) /\ Once(promoted)
          /\ \A p \in Path :
                /\ p \in In(backups) => before[p] # NoFile /\ before[p] \in aside[p]
                /\ p \in In(backups) /\ p \notin In(promoted) => live[p] = NoFile \/ p \in botched
                /\ p \notin In(backups) /\ p \in In(promoted) => before[p] = NoFile
                /\ p \notin In(backups) /\ p \notin In(promoted) => AsItWas(p)
    /\ daemon = "off" /\ restored = "cut" =>
          \A p \in Path : before[p] # NoFile => live[p] = before[p] \/ before[p] \in aside[p]
    /\ daemon = "off" /\ restored = "failed" => \A p \in Path : AsItWas(p)

\* The paths behind the move that promoteSnapshot is at are done, those before it untouched.
Moves ==
    daemon = "promote" => \A i \in 1..4 :
       /\ i < move => live[Order[i]] = staged[Order[i]]
       /\ i > move \/ (i = move /\ step = "backup") =>
             Order[i] \notin In(backups) /\ Order[i] \notin In(promoted)
       /\ i = move /\ step = "rename" => Order[i] \notin In(promoted) /\ live[Order[i]] = NoFile
       /\ i = move /\ step = "sync" => live[Order[i]] = staged[Order[i]]

\* Of one image, with the acknowledged writes a save has stored.
Whole(image) == \A p, q \in Path : image[p] # NoFile /\ image[q] # NoFile => image[p].gen = image[q].gen
Good(image) == Whole(image) /\ promised \subseteq image["data"].sources \cap image["data"].base
Extracted(image) == [image EXCEPT !["data"] = IF @ = NoFile THEN Fresh("new") ELSE @]

Wholes ==
    /\ snapshot = NoSnapshot =>
          promised = {} /\ \A p \in Path : live[p] # NoFile => live[p].gen = "old"
    /\ snapshot # NoSnapshot => Good(Extracted(snapshot))
    /\ daemon = "promote" => Good(staged) /\ staged["data"] # NoFile
    /\ Running => Good(live)
    /\ Archiving => Whole(archive)
    /\ HasSources => promised \subseteq archive["data"].sources
    /\ HasBase => promised \subseteq archive["data"].base

\* What the requests have written; a pool closed in quiet leaves all of it in the database.
Writes ==
    /\ \A w \in promised : request[w] = "over"
    /\ Running => \A w \in Write :
          /\ request[w] \in {"filed", "committed", "acked"} => w \in live["data"].sources
          /\ request[w] \in {"committed", "acked"} => w \in live["data"].base \cup live["data"].log
    /\ quiet => Archiving /\ live["data"].log = {} /\ \A w \in Write : ~InFlight(w)
    /\ quiet /\ HasSources => Acknowledged \subseteq archive["data"].sources
    /\ quiet /\ HasBase => Acknowledged \subseteq archive["data"].base

DInv == MemorydTypeOK /\ Phased /\ Placed /\ Moves /\ Wholes /\ Writes

LEMMA OrderIs ==
  /\ Len(Order) = 4
  /\ Order[1] = "db" /\ Order[2] = "wal" /\ Order[3] = "shm" /\ Order[4] = "data"
  BY DEF Order

LEMMA PathIs == \A p \in Path : \E i \in 1..4 : Order[i] = p
<1> TAKE p \in Path
<1>1. CASE p = "db"
  <2> WITNESS 1 \in 1..4
  <2> QED BY <1>1, OrderIs
<1>2. CASE p = "wal"
  <2> WITNESS 2 \in 1..4
  <2> QED BY <1>2, OrderIs
<1>3. CASE p = "shm"
  <2> WITNESS 3 \in 1..4
  <2> QED BY <1>3, OrderIs
<1>4. CASE p = "data"
  <2> WITNESS 4 \in 1..4
  <2> QED BY <1>4, OrderIs
<1> QED BY <1>1, <1>2, <1>3, <1>4 DEF Path

LEMMA Ordered ==
  /\ \A i \in 1..4 : Order[i] \in Path
  /\ \A i, j \in 1..4 : Order[i] = Order[j] => i = j
<1> USE OrderIs DEF Path
<1>1. \A i \in 1..4 : Order[i] \in Path
  OBVIOUS
<1>2. \A i, j \in 1..4 : Order[i] = Order[j] => i = j
  OBVIOUS
<1> QED BY <1>1, <1>2

\* A path moved once more, and the last one moved back.
LEMMA Moved ==
  ASSUME NEW s \in Seq(Path), Once(s), NEW p \in Path, p \notin In(s)
  PROVE  /\ Append(s, p) \in Seq(Path) /\ Once(Append(s, p))
         /\ In(Append(s, p)) = In(s) \cup {p}
  BY DEF Once, In

LEMMA Shorter ==
  ASSUME NEW s \in Seq(Path), NEW n \in Nat, n < Len(s)
  PROVE  /\ SubSeq(s, 1, n) \in Seq(Path) /\ DOMAIN SubSeq(s, 1, n) = 1..n
         /\ \A i \in 1..n : SubSeq(s, 1, n)[i] = s[i]
  OBVIOUS

LEMMA MovedBack ==
  ASSUME NEW s \in Seq(Path), Once(s), s # <<>>
  PROVE  LET p == s[Len(s)] IN
         /\ p \in Path /\ p \in In(s)
         /\ Front(s) \in Seq(Path) /\ Once(Front(s))
         /\ In(Front(s)) = In(s) \ {p}
<1> DEFINE n == Len(s)
<1>1. n \in Nat \ {0} /\ n \in DOMAIN s /\ s[n] \in Path
  OBVIOUS
<1>2. /\ Front(s) \in Seq(Path) /\ DOMAIN Front(s) = 1..(n - 1)
      /\ \A i \in 1..(n - 1) : Front(s)[i] = s[i]
  <2>1. n - 1 \in Nat /\ n - 1 < Len(s)
    BY <1>1
  <2> QED BY <2>1, Shorter DEF Front
<1>3. \A i \in DOMAIN s : i # n => i \in 1..(n - 1) /\ s[i] # s[n]
  BY <1>1 DEF Once
<1>4. Once(Front(s))
  BY <1>1, <1>2 DEF Once
<1>5. In(Front(s)) = In(s) \ {s[n]}
  <2>1. ASSUME NEW x \in In(Front(s)) PROVE x \in In(s) \ {s[n]}
    BY <1>1, <1>2, <1>3, <2>1 DEF In
  <2>2. ASSUME NEW x \in In(s) \ {s[n]} PROVE x \in In(Front(s))
    BY <1>1, <1>2, <1>3, <2>2 DEF In
  <2> QED BY <2>1, <2>2
<1> QED BY <1>1, <1>2, <1>4, <1>5 DEF In

\* A field of the data path written, and nothing else.
With(image, f, V) == [image EXCEPT !["data"] = [@ EXCEPT ![f] = V]]

LEMMA Put ==
  ASSUME NEW image \in Images, image["data"] # NoFile, NEW V \in SUBSET Write,
         NEW f \in {"sources", "base", "log"}
  PROVE  /\ With(image, f, V) \in Images /\ With(image, f, V)["data"] # NoFile
         /\ With(image, f, V)["data"].gen = image["data"].gen
         /\ With(image, f, V)["data"].sources = IF f = "sources" THEN V ELSE image["data"].sources
         /\ With(image, f, V)["data"].base = IF f = "base" THEN V ELSE image["data"].base
         /\ With(image, f, V)["data"].log = IF f = "log" THEN V ELSE image["data"].log
         /\ \A p \in Path \ {"data"} : With(image, f, V)[p] = image[p]
<1> USE MemorydAssumption
<1> DEFINE old == image["data"]
<1>1. old \in Content /\ DOMAIN old = {"gen", "sources", "base", "log"}
  BY DEF Images, Path, Content
<1>2. [old EXCEPT ![f] = V] \in Content
  BY <1>1 DEF Content
<1>3. /\ With(image, f, V)["data"] = [old EXCEPT ![f] = V]
      /\ \A p \in Path \ {"data"} : With(image, f, V)[p] = image[p]
  BY DEF Images, Path, With
<1>4. With(image, f, V) \in Images
  BY <1>2 DEF Images, Path, With
<1> QED BY <1>1, <1>2, <1>3, <1>4

LEMMA TargetIs ==
  ASSUME DInv, InMove
  PROVE  /\ move \in 1..4 /\ Target = Order[move] /\ Target \in Path
         /\ staged \in Images
         /\ live[Target] # NoFile => live[Target] \in Content
  BY OrderIs, Ordered DEF DInv, MemorydTypeOK, InMove, Target, Phased, Replacing, Images

\* What MoveAside and Promote start from.
LEMMA AsideIs ==
  ASSUME DInv, MoveAside
  PROVE  /\ move \in 1..4 /\ Target = Order[move] /\ Target \in Path /\ step = "backup"
         /\ Target \notin In(backups) /\ Target \notin In(promoted)
         /\ daemon = "promote" /\ daemon' = "promote" /\ UNCHANGED <<staged, promoted>>
<1>1. /\ InMove /\ step = "backup" /\ daemon = "promote" /\ daemon' = "promote"
      /\ UNCHANGED <<staged, promoted>>
  BY DEF MoveAside, InMove
<1>2. move \in 1..4 /\ Target = Order[move] /\ Target \in Path
  BY <1>1, TargetIs
<1>3. Target \notin In(backups) /\ Target \notin In(promoted)
  BY <1>1, <1>2 DEF DInv, Moves
<1> QED BY <1>1, <1>2, <1>3

LEMMA PromoteIs ==
  ASSUME DInv, Promote
  PROVE  /\ move \in 1..4 /\ Target = Order[move] /\ Target \in Path /\ step = "rename"
         /\ Target \notin In(promoted) /\ live[Target] = NoFile
         /\ daemon = "promote" /\ daemon' = "promote" /\ step' = "sync"
         /\ UNCHANGED <<staged, move, backups>>
<1>1. /\ InMove /\ step = "rename" /\ daemon = "promote" /\ daemon' = "promote"
      /\ step' = "sync" /\ UNCHANGED <<staged, move, backups>>
  BY DEF Promote, InMove
<1>2. move \in 1..4 /\ Target = Order[move] /\ Target \in Path
  BY <1>1, TargetIs
<1>3. Target \notin In(promoted) /\ live[Target] = NoFile
  BY <1>1, <1>2 DEF DInv, Moves
<1> QED BY <1>1, <1>2, <1>3

LEMMA FreshIs ==
  \A gen \in {"old", "new"} :
     /\ Fresh(gen) \in Content /\ Fresh(gen) # NoFile /\ Fresh(gen).gen = gen
     /\ Fresh(gen).sources = {} /\ Fresh(gen).base = {} /\ Fresh(gen).log = {}
  BY MemorydAssumption DEF Fresh, Content

LEMMA ExtractedIs ==
  ASSUME NEW image \in Images
  PROVE  /\ Extracted(image) \in Images
         /\ image["data"] # NoFile => Extracted(image) = image
         /\ Extracted(image)["data"] # NoFile
         /\ \A p \in Path \ {"data"} : Extracted(image)[p] = image[p]
  BY FreshIs DEF Extracted, Images, Path

\* A handle opened: an empty database appears where there was none.
LEMMA OpenStep ==
  ASSUME live \in Images, Open
  PROVE  /\ live' \in Images /\ live'["data"] # NoFile /\ before' = live'
         /\ live["data"] # NoFile => live' = live
         /\ live["data"] = NoFile => live'["data"] = Fresh("old")
         /\ \A p \in Path \ {"data"} : live'[p] = live[p]
         /\ daemon' = "serving" /\ pool' = "open" /\ restored' = "done" /\ botched' = botched
         /\ staged' = NoSnapshot /\ move' = 1 /\ step' = "backup"
         /\ backups' = <<>> /\ promoted' = <<>>
  BY FreshIs DEF Open, Forget, Images, Path

LEMMA Written ==
  ASSUME DInv, NEW w \in Write, request[w] \in {"accepted", "begun", "filed"},
         NEW V \in SUBSET Write, NEW f \in {"sources", "base", "log"}, Data(f, V)
  PROVE  /\ Running /\ ~Replacing
         /\ live' \in Images /\ live'["data"] # NoFile
         /\ live'["data"].gen = live["data"].gen
         /\ live'["data"].sources = IF f = "sources" THEN V ELSE live["data"].sources
         /\ live'["data"].base = IF f = "base" THEN V ELSE live["data"].base
         /\ live'["data"].log = IF f = "log" THEN V ELSE live["data"].log
         /\ \A p \in Path \ {"data"} : live'[p] = live[p]
<1>1. Running /\ live["data"] # NoFile /\ live \in Images
  BY DEF DInv, MemorydTypeOK, Phased
<1>2. live' = With(live, f, V)
  BY DEF Data, With
<1>3. ~Replacing
  BY <1>1 DEF Running, Replacing
<1> QED BY <1>1, <1>2, <1>3, Put

LEMMA FieldsIn ==
  \A image \in Images : image["data"] # NoFile =>
     /\ image["data"] \in Content
     /\ image["data"].sources \subseteq Write
     /\ image["data"].base \subseteq Write /\ image["data"].log \subseteq Write
  BY DEF Images, Content, Path

\* The archive's database read, or its log.
LEMMA ArchivedIs ==
  ASSUME DInv, daemon = "saving", archive["data"] # NoFile, NEW f \in {"base", "log"},
         Archived(f, live["data"][f])
  PROVE  /\ archive' \in Images /\ archive'["data"] # NoFile
         /\ archive'["data"].gen = archive["data"].gen
         /\ archive'["data"].sources = archive["data"].sources
         /\ archive'["data"].base = IF f = "base" THEN live["data"].base ELSE archive["data"].base
         /\ archive'["data"].log = IF f = "log" THEN live["data"].log ELSE archive["data"].log
         /\ \A p \in Path \ {"data"} : archive'[p] = archive[p]
<1>1. archive \in Images /\ live \in Images /\ live["data"] # NoFile
  BY DEF DInv, MemorydTypeOK, Phased, Archiving, Running
<1>2. live["data"][f] \in SUBSET Write
  BY <1>1, FieldsIn
<1>3. archive' = With(archive, f, live["data"][f])
  BY DEF Archived, With
<1> QED BY <1>1, <1>2, <1>3, Put

\* The archive as ArchiveSources starts it.
LEMMA SourcesRead ==
  ASSUME DInv, ArchiveSources
  PROVE  /\ archive' \in Images /\ archive'["data"] # NoFile
         /\ archive'["data"].gen = live["data"].gen
         /\ archive'["data"].sources = live["data"].sources
         /\ archive'["data"].base = {} /\ archive'["data"].log = {}
         /\ \A p \in Path \ {"data"} : archive'[p] = live[p]
<1> USE MemorydAssumption
<1> DEFINE old == live["data"]
           new == [old EXCEPT !.base = {}, !.log = {}]
<1>1. old \in Content /\ live \in Images
  BY FieldsIn DEF ArchiveSources, DInv, MemorydTypeOK, Phased, Running
<1>2. /\ new \in Content /\ new.gen = old.gen /\ new.sources = old.sources
      /\ new.base = {} /\ new.log = {}
  BY <1>1 DEF Content
<1>3. archive'["data"] = new /\ \A p \in Path \ {"data"} : archive'[p] = live[p]
  BY <1>1 DEF ArchiveSources, Images, Path
<1>4. archive' \in Images
  BY <1>1, <1>2 DEF ArchiveSources, Images, Path
<1> QED BY <1>1, <1>2, <1>3, <1>4

LEMMA CheckpointedIs ==
  ASSUME live \in Images, live["data"] # NoFile
  PROVE  /\ Checkpointed \in Images /\ Checkpointed["data"] # NoFile
         /\ Checkpointed["data"].gen = live["data"].gen
         /\ Checkpointed["data"].sources = live["data"].sources
         /\ Checkpointed["data"].base = live["data"].base \cup live["data"].log
         /\ Checkpointed["data"].log = {}
         /\ \A p \in Path \ {"data"} : Checkpointed[p] = live[p]
<1> USE MemorydAssumption
<1> DEFINE old == live["data"]
           new == [old EXCEPT !.base = old.base \cup old.log, !.log = {}]
<1>1. old \in Content
  BY DEF Images, Path
<1>2. /\ new \in Content /\ new.gen = old.gen /\ new.sources = old.sources
      /\ new.base = old.base \cup old.log /\ new.log = {}
  BY <1>1 DEF Content
<1>3. Checkpointed["data"] = new /\ \A p \in Path \ {"data"} : Checkpointed[p] = live[p]
  BY DEF Images, Path, Checkpointed
<1>4. Checkpointed \in Images
  BY <1>2 DEF Images, Path, Checkpointed
<1> QED BY <1>1, <1>2, <1>3, <1>4

\* The end of a process, whatever ends it.
LEMMA DiesStep ==
  ASSUME MemorydTypeOK, Dies
  PROVE  /\ daemon' = "off" /\ pool' = "closed" /\ archive' = NoSnapshot /\ quiet' = FALSE
         /\ request' \in [Write -> {"idle", "accepted", "begun", "filed", "committed",
                                    "acked", "failed", "over"}]
         /\ \A w \in Write : request'[w] \in {"idle", "over"}
         /\ \A w \in Write : request[w] \in {"acked", "over"} => request'[w] = "over"
         /\ staged' = NoSnapshot /\ step' = "backup"
         /\ move' = 1 /\ move' \in 1..(Len(Order) + 1)
         /\ backups' = <<>> /\ promoted' = <<>>
         /\ backups' \in Seq(Path) /\ promoted' \in Seq(Path)
  BY OrderIs DEF Dies, Forget, MemorydTypeOK

LEMMA RemnantsIs ==
  ASSUME live \in Images, NEW p \in Path
  PROVE  Remnants(p) \subseteq Content \cup {NoFile}
<1> USE MemorydAssumption
<1>1. live[p] \in Content \cup {NoFile}
  BY DEF Images
<1>2. live[p] # NoFile => Fresh(live[p].gen) \in Content
  BY <1>1, FreshIs DEF Content
<1> QED BY <1>1, <1>2 DEF Remnants

LEMMA LeaveIs ==
  ASSUME live \in Images, NEW p \in Path, NEW x \in Content \cup {NoFile}, Leave(p, x)
  PROVE  /\ live' \in Images
         /\ \A q \in Path : live'[q] = IF q = p THEN x ELSE live[q]
  BY DEF Leave, Images

\* A promoted path is gone, or the rollback has failed at it.
LEMMA RolledBack ==
  ASSUME MemorydTypeOK, Placed, RollBack
  PROVE  \E p \in Path :
            /\ p \in In(promoted) /\ promoted' \in Seq(Path) /\ Once(promoted')
            /\ In(promoted') = In(promoted) \ {p}
            /\ live' \in Images /\ \A q \in Path \ {p} : live'[q] = live[q]
            /\ \/ live'[p] = NoFile /\ botched' = botched
               \/ botched' = botched \cup {p}
<1>1. PICK p \in Path : p = promoted[Len(promoted)] /\ p \in In(promoted)
         /\ promoted' \in Seq(Path) /\ Once(promoted') /\ In(promoted') = In(promoted) \ {p}
  BY MovedBack DEF RollBack, Placed, Replacing, MemorydTypeOK
<1>2. PICK x \in {NoFile} \cup Remnants(p) :
         /\ Leave(p, x)
         /\ \/ x = NoFile /\ botched' = botched
            \/ botched' = botched \cup {p}
  BY <1>1 DEF RollBack
<1>3. live \in Images /\ x \in Content \cup {NoFile}
  BY RemnantsIs DEF MemorydTypeOK
<1>4. live' \in Images /\ \A q \in Path : live'[q] = IF q = p THEN x ELSE live[q]
  BY <1>2, <1>3, LeaveIs
<1> QED BY <1>1, <1>2, <1>4

\* A backup is back in its place, or it stays and the rollback has failed at its path.
LEMMA WentBack ==
  ASSUME MemorydTypeOK, Placed, PutBack
  PROVE  \E p \in Path :
            /\ p \in In(backups) /\ backups' \in Seq(Path) /\ Once(backups')
            /\ In(backups') = In(backups) \ {p}
            /\ live' \in Images /\ \A q \in Path \ {p} : live'[q] = live[q]
            /\ \/ /\ live'[p] = before[p] /\ botched' = botched \ {p}
                  /\ aside' = [aside EXCEPT ![p] = aside[p] \ {before[p]}]
               \/ botched' = botched \cup {p} /\ aside' = aside
<1>1. PICK p \in Path : p = backups[Len(backups)] /\ p \in In(backups)
         /\ backups' \in Seq(Path) /\ Once(backups') /\ In(backups') = In(backups) \ {p}
  BY MovedBack DEF PutBack, Placed, Replacing, MemorydTypeOK
<1>2. live \in Images /\ before[p] \in Content \cup {NoFile}
      /\ Remnants(p) \subseteq Content \cup {NoFile}
  BY RemnantsIs DEF MemorydTypeOK, Images
<1>3. CASE /\ Leave(p, before[p]) /\ botched' = botched \ {p}
           /\ aside' = [aside EXCEPT ![p] = @ \ {before[p]}]
  <2>1. live' \in Images /\ \A q \in Path : live'[q] = IF q = p THEN before[p] ELSE live[q]
    BY <1>2, <1>3, LeaveIs
  <2> QED BY <1>1, <1>3, <2>1
<1>4. CASE /\ \E x \in {NoFile} \cup Remnants(p) : Leave(p, x)
           /\ botched' = botched \cup {p} /\ UNCHANGED aside
  <2>1. live' \in Images /\ \A q \in Path \ {p} : live'[q] = live[q]
    BY <1>2, <1>4, LeaveIs
  <2> QED BY <1>1, <1>4, <2>1
<1> QED BY <1>1, <1>3, <1>4 DEF PutBack

LEMMA InitDInv == MemorydInit => DInv
<1> SUFFICES ASSUME MemorydInit PROVE DInv
  OBVIOUS
<1>1. \A s \in SUBSET Path, gen \in {"old", "new"} :
         /\ Files(s, gen) \in Images
         /\ \A p \in Path : Files(s, gen)[p] # NoFile => Files(s, gen)[p] = Fresh(gen)
  BY DEF Files, Images, Content, Fresh
<1>2. \A gen : /\ Fresh(gen).gen = gen /\ Fresh(gen).sources = {}
               /\ Fresh(gen).base = {} /\ Fresh(gen).log = {}
  BY DEF Fresh
<1> USE MemorydAssumption DEF MemorydInit
<1>3. MemorydTypeOK
  <2>1. live \in Images /\ snapshot \in Images \cup {NoSnapshot}
    BY <1>1
  <2>2. aside \in [Path -> SUBSET Content]
    OBVIOUS
  <2>3. backups \in Seq(Path) /\ promoted \in Seq(Path) /\ move \in 1..(Len(Order) + 1)
    BY OrderIs
  <2>4. request \in [Write -> {"idle"}] /\ before = live
    OBVIOUS
  <2>5. starts \in 0..MaxStarts /\ kills \in 0..MaxKills /\ promised \subseteq Write
    OBVIOUS
  <2> QED BY <2>1, <2>2, <2>3, <2>4, <2>5 DEF MemorydTypeOK, Phases
<1>4. Phased /\ Placed /\ Moves
  BY DEF Phased, Placed, Moves, Running, Replacing, Archiving
<1>5. Wholes
  BY <1>1, <1>2 DEF Wholes, Good, Whole, Extracted, Running, Archiving, HasSources, HasBase, Images, Path
<1>6. Writes
  BY DEF Writes, Running
<1> QED BY <1>3, <1>4, <1>5, <1>6 DEF DInv

\* Replacing a value of a function by another of the codomain keeps its type.
LEMMA UpdateTyped ==
    ASSUME NEW S, NEW T, NEW f \in [S -> T], NEW p \in S, NEW c \in T
    PROVE [f EXCEPT ![p] = c] \in [S -> T]
OBVIOUS

LEMMA MemorydTyped == ASSUME DInv, [MemorydNext]_memorydVars PROVE MemorydTypeOK'
<1> USE MemorydAssumption DEF DInv, MemorydTypeOK, Phased, Phases, Running, Archiving, promoteVars,
       restoreVars, saveVars
<1>1. CASE Start
  BY <1>1 DEF Start
<1>2. CASE NothingToRestore
  <2>1. /\ live' \in Images /\ before' = live' /\ daemon' = "serving" /\ pool' = "open"
        /\ restored' = "done" /\ botched' = botched
        /\ staged' = NoSnapshot /\ move' = 1 /\ step' = "backup"
        /\ backups' = <<>> /\ promoted' = <<>>
    BY <1>2, OpenStep DEF NothingToRestore
  <2>2. UNCHANGED <<snapshot, aside, request, saveVars, starts, kills>>
    BY <1>2 DEF NothingToRestore
  <2> QED BY <2>1, <2>2, OrderIs
<1>3. CASE DownloadFails
  BY <1>3 DEF DownloadFails
<1>4. CASE Extract
  <2>1. snapshot \in Images /\ staged' = Extracted(snapshot)
    BY <1>4 DEF Extract, Extracted
  <2> QED BY <1>4, <2>1, ExtractedIs DEF Extract
<1>5. CASE MoveAside
  <2>1. /\ move \in 1..4 /\ Target \in Path
        /\ live[Target] # NoFile => live[Target] \in Content
    BY <1>5, TargetIs DEF MoveAside
  <2>2. /\ live' \in Images /\ aside' \in [Path -> SUBSET Content]
        /\ backups' \in Seq(Path)
    <3>1. CASE live[Target] # NoFile
      <4>1. live' \in Images
        BY <1>5, <2>1, <3>1 DEF MoveAside, Images
      <4>2. aside' \in [Path -> SUBSET Content]
        <5> DEFINE c == aside[Target] \cup {live[Target]}
        <5>1. aside' = [aside EXCEPT ![Target] = c]
          BY <1>5, <3>1 DEF MoveAside
        <5>2. c \in SUBSET Content /\ aside \in [Path -> SUBSET Content]
          BY <2>1, <3>1
        <5> HIDE DEF c, DInv, MemorydTypeOK, Phased
        <5> QED BY <2>1, <5>1, <5>2, UpdateTyped
      <4>3. backups' \in Seq(Path)
        <5>1. backups' = Append(backups, Target)
          BY <1>5, <3>1 DEF MoveAside
        <5>2. backups \in Seq(Path)
          OBVIOUS
        <5> HIDE DEF DInv, MemorydTypeOK, Phased
        <5> QED BY <2>1, <5>1, <5>2
      <4> QED BY <4>1, <4>2, <4>3
    <3>2. CASE live[Target] = NoFile
      BY <1>5, <3>2 DEF MoveAside
    <3> QED BY <3>1, <3>2
  <2>3. step' \in {"backup", "rename"} /\ move' \in 1..5
    BY <1>5, <2>1 DEF MoveAside
  <2> QED BY <1>5, <2>1, <2>2, <2>3, OrderIs DEF MoveAside
<1>6. CASE Promote
  <2>1. Target \in Path /\ staged \in Images
    BY <1>6, TargetIs DEF Promote
  <2>2. live' \in Images /\ promoted' \in Seq(Path)
    BY <1>6, <2>1 DEF Promote, Images
  <2> QED BY <1>6, <2>2 DEF Promote
<1>7. CASE Sync
  BY <1>7 DEF Sync, InMove
<1>8. CASE MoveFails
  BY <1>8 DEF MoveFails, InMove
<1>9. CASE RollBack
  <2>1. live' \in Images /\ promoted' \in Seq(Path) /\ botched' \subseteq Path
    BY <1>9, RolledBack
  <2> QED BY <1>9, <2>1 DEF RollBack
<1>10. CASE PutBack
  <2>1. live' \in Images /\ backups' \in Seq(Path) /\ botched' \subseteq Path
        /\ aside' \in [Path -> SUBSET Content]
    BY <1>10, WentBack
  <2> QED BY <1>10, <2>1 DEF PutBack
<1>11. CASE RestoreFails
  BY <1>11 DEF RestoreFails, Forget
<1>12. CASE RestoreEnds
  <2>1. aside' \in [Path -> SUBSET Content]
    BY <1>12 DEF RestoreEnds
  <2>2. /\ live' \in Images /\ before' = live' /\ daemon' = "serving" /\ pool' = "open"
        /\ restored' = "done" /\ botched' = botched
        /\ staged' = NoSnapshot /\ move' = 1 /\ step' = "backup"
        /\ backups' = <<>> /\ promoted' = <<>>
    BY <1>12, OpenStep DEF RestoreEnds
  <2>3. UNCHANGED <<snapshot, request, saveVars, starts, kills>>
    BY <1>12 DEF RestoreEnds
  <2> QED BY <2>1, <2>2, <2>3, OrderIs
<1>13. CASE Terminate
  BY <1>13 DEF Terminate
<1>14. CASE ClosePool
  <2>1. live["data"] # NoFile /\ live \in Images
    BY <1>14 DEF ClosePool
  <2>2. Files({}, "old") \in Images /\ \A p \in Path : Files({}, "old")[p] = NoFile
    BY DEF Files, Images
  <2> QED BY <1>14, <2>1, <2>2, CheckpointedIs DEF ClosePool, Path
<1>15. CASE ArchiveSources
  BY <1>15, SourcesRead DEF ArchiveSources
<1>16. CASE ArchiveBase
  <2>1. daemon = "saving" /\ archive["data"] # NoFile /\ Archived("base", live["data"]["base"])
    BY <1>16 DEF ArchiveBase
  <2> QED BY <1>16, <2>1, ArchivedIs DEF ArchiveBase
<1>17. CASE ArchiveLog
  <2>1. daemon = "saving" /\ archive["data"] # NoFile /\ Archived("log", live["data"]["log"])
    BY <1>17 DEF ArchiveLog
  <2> QED BY <1>17, <2>1, ArchivedIs DEF ArchiveLog
<1>18. CASE Send
  <2>1. Dies /\ UNCHANGED <<live, before, restored, botched, aside, starts, kills>>
    BY <1>18 DEF Send
  <2>2. snapshot' \in Images \cup {NoSnapshot} /\ promised' \subseteq Write
    BY <1>18 DEF Send, Acknowledged
  <2> QED BY <2>1, <2>2, DiesStep
<1>19. CASE LateCheckpoint
  <2>1. live["data"] # NoFile /\ live \in Images
    BY <1>19 DEF LateCheckpoint
  <2> QED BY <1>19, <2>1, CheckpointedIs DEF LateCheckpoint
<1>20. CASE Crash
  <2>1. kills' \in 0..MaxKills
    BY <1>20 DEF Crash
  <2>2. Dies /\ restored' \in {"no", "done", "failed", "cut"}
    BY <1>20 DEF Crash
  <2>3. UNCHANGED <<live, snapshot, aside, before, botched, promised, starts>>
    BY <1>20 DEF Crash
  <2> QED BY <2>1, <2>2, <2>3, DiesStep
<1>21. ASSUME NEW w \in Write, Accept(w) PROVE MemorydTypeOK'
  BY <1>21 DEF Accept, Become
<1>22. ASSUME NEW w \in Write, BeginCapture(w) PROVE MemorydTypeOK'
  BY <1>22 DEF BeginCapture, Become
<1>23. ASSUME NEW w \in Write, PublishFile(w) PROVE MemorydTypeOK'
  <2>1. live["data"].sources \cup {w} \in SUBSET Write /\ request[w] \in {"accepted", "begun", "filed"}
    BY <1>23, FieldsIn DEF PublishFile
  <2>2. Data("sources", live["data"].sources \cup {w})
    BY <1>23 DEF PublishFile
  <2> QED BY <1>23, <2>1, <2>2, Written DEF PublishFile, Become
<1>24. ASSUME NEW w \in Write, CommitCapture(w) PROVE MemorydTypeOK'
  <2>1. live["data"].log \cup {w} \in SUBSET Write /\ request[w] \in {"accepted", "begun", "filed"}
    BY <1>24, FieldsIn DEF CommitCapture
  <2>2. Data("log", live["data"].log \cup {w})
    BY <1>24 DEF CommitCapture
  <2> QED BY <1>24, <2>1, <2>2, Written DEF CommitCapture, Become
<1>25. ASSUME NEW w \in Write, Acknowledge(w) PROVE MemorydTypeOK'
  BY <1>25 DEF Acknowledge, Become
<1>26. ASSUME NEW w \in Write, CaptureFails(w) PROVE MemorydTypeOK'
  <2>1. live["data"].sources \ {w} \in SUBSET Write /\ request[w] \in {"accepted", "begun", "filed"}
    BY <1>26, FieldsIn DEF CaptureFails
  <2>2. Data("sources", live["data"].sources \ {w})
    BY <1>26 DEF CaptureFails
  <2> QED BY <1>26, <2>1, <2>2, Written DEF CaptureFails, Become
<1>27. CASE UNCHANGED memorydVars
  BY <1>27 DEF memorydVars
<1> QED
  BY <1>1, <1>2, <1>3, <1>4, <1>5, <1>6, <1>7, <1>8, <1>9, <1>10, <1>11, <1>12, <1>13, <1>14, <1>15,
     <1>16, <1>17, <1>18, <1>19, <1>20, <1>21, <1>22, <1>23, <1>24, <1>25, <1>26, <1>27
  DEF MemorydNext, Restore, Save, Capture

LEMMA PhasedKept == ASSUME DInv, [MemorydNext]_memorydVars PROVE Phased'
<1> USE MemorydAssumption DEF DInv, MemorydTypeOK, Phased, Running, Replacing, Archiving, promoteVars,
       restoreVars, saveVars
<1>1. CASE Start
  BY <1>1 DEF Start
<1>2. CASE NothingToRestore
  BY <1>2, OpenStep DEF NothingToRestore
<1>3. CASE DownloadFails
  BY <1>3 DEF DownloadFails
<1>4. CASE Extract
  <2>1. snapshot \in Images /\ staged' = Extracted(snapshot)
    BY <1>4 DEF Extract, Extracted
  <2> QED BY <1>4, <2>1, ExtractedIs DEF Extract
<1>5. CASE MoveAside
  BY <1>5, TargetIs DEF MoveAside, InMove
<1>6. CASE Promote
  BY <1>6 DEF Promote, InMove, Target
<1>7. CASE Sync
  BY <1>7, OrderIs DEF Sync, InMove
<1>8. CASE MoveFails
  BY <1>8 DEF MoveFails, InMove
<1>9. CASE RollBack
  BY <1>9 DEF RollBack
<1>10. CASE PutBack
  BY <1>10 DEF PutBack
<1>11. CASE RestoreFails
  BY <1>11 DEF RestoreFails, Forget
<1>12. CASE RestoreEnds
  BY <1>12, OpenStep DEF RestoreEnds
<1>13. CASE Terminate
  BY <1>13 DEF Terminate
<1>14. CASE ClosePool
  <2>1. live["data"] # NoFile /\ live \in Images
    BY <1>14 DEF ClosePool
  <2>2. Files({}, "old") \in Images /\ \A p \in Path : Files({}, "old")[p] = NoFile
    BY DEF Files, Images
  <2> QED BY <1>14, <2>1, <2>2, CheckpointedIs DEF ClosePool, Path
<1>15. CASE ArchiveSources
  BY <1>15, SourcesRead DEF ArchiveSources
<1>16. CASE ArchiveBase
  <2>1. daemon = "saving" /\ archive["data"] # NoFile /\ Archived("base", live["data"]["base"])
    BY <1>16 DEF ArchiveBase
  <2> QED BY <1>16, <2>1, ArchivedIs DEF ArchiveBase
<1>17. CASE ArchiveLog
  <2>1. daemon = "saving" /\ archive["data"] # NoFile /\ Archived("log", live["data"]["log"])
    BY <1>17 DEF ArchiveLog
  <2> QED BY <1>17, <2>1, ArchivedIs DEF ArchiveLog
<1>18. CASE Send
  <2>1. daemon = "sending" /\ UNCHANGED <<live, before, restored>> /\ Dies
    BY <1>18 DEF Send
  <2> QED BY <2>1, DiesStep
<1>19. CASE LateCheckpoint
  <2>1. live["data"] # NoFile /\ live \in Images
    BY <1>19 DEF LateCheckpoint
  <2> QED BY <1>19, <2>1, CheckpointedIs DEF LateCheckpoint
<1>20. CASE Crash
  <2>1. /\ restored' = IF Replacing THEN "cut" ELSE restored
        /\ daemon # "off" /\ UNCHANGED <<live, before>> /\ Dies
    BY <1>20 DEF Crash
  <2>2. restored' = "no" => live' = before'
    BY <2>1 DEF Phases
  <2> HIDE DEF MemorydTypeOK
  <2> QED BY <2>1, <2>2, DiesStep
<1>21. ASSUME NEW w \in Write, Accept(w) PROVE Phased'
  BY <1>21 DEF Accept, Become
<1>22. ASSUME NEW w \in Write, BeginCapture(w) PROVE Phased'
  BY <1>22 DEF BeginCapture, Become
<1>23. ASSUME NEW w \in Write, PublishFile(w) PROVE Phased'
  <2>1. live["data"].sources \cup {w} \in SUBSET Write /\ request[w] \in {"accepted", "begun", "filed"}
    BY <1>23, FieldsIn DEF PublishFile
  <2>2. Data("sources", live["data"].sources \cup {w})
    BY <1>23 DEF PublishFile
  <2> QED BY <1>23, <2>1, <2>2, Written DEF PublishFile, Become
<1>24. ASSUME NEW w \in Write, CommitCapture(w) PROVE Phased'
  <2>1. live["data"].log \cup {w} \in SUBSET Write /\ request[w] \in {"accepted", "begun", "filed"}
    BY <1>24, FieldsIn DEF CommitCapture
  <2>2. Data("log", live["data"].log \cup {w})
    BY <1>24 DEF CommitCapture
  <2> QED BY <1>24, <2>1, <2>2, Written DEF CommitCapture, Become
<1>25. ASSUME NEW w \in Write, Acknowledge(w) PROVE Phased'
  BY <1>25 DEF Acknowledge, Become
<1>26. ASSUME NEW w \in Write, CaptureFails(w) PROVE Phased'
  <2>1. live["data"].sources \ {w} \in SUBSET Write /\ request[w] \in {"accepted", "begun", "filed"}
    BY <1>26, FieldsIn DEF CaptureFails
  <2>2. Data("sources", live["data"].sources \ {w})
    BY <1>26 DEF CaptureFails
  <2> QED BY <1>26, <2>1, <2>2, Written DEF CaptureFails, Become
<1>27. CASE UNCHANGED memorydVars
  BY <1>27 DEF memorydVars
<1> QED
  BY <1>1, <1>2, <1>3, <1>4, <1>5, <1>6, <1>7, <1>8, <1>9, <1>10, <1>11, <1>12, <1>13, <1>14, <1>15,
     <1>16, <1>17, <1>18, <1>19, <1>20, <1>21, <1>22, <1>23, <1>24, <1>25, <1>26, <1>27
  DEF MemorydNext, Restore, Save, Capture

LEMMA PlacedKept == ASSUME DInv, [MemorydNext]_memorydVars PROVE Placed'
<1> USE MemorydAssumption DEF DInv, MemorydTypeOK, Phased, Running, Replacing, Archiving, Placed, AsItWas,
       promoteVars, restoreVars, saveVars
<1>1. CASE Start
  BY <1>1 DEF Start
<1>2. CASE NothingToRestore
  BY <1>2, OpenStep DEF NothingToRestore
<1>3. CASE DownloadFails
  BY <1>3 DEF DownloadFails
<1>4. CASE Extract
  <2>1. backups' = <<>> /\ promoted' = <<>> /\ live' = before' /\ daemon' = "promote"
    BY <1>4 DEF Extract
  <2> QED BY <2>1 DEF In, Once
<1>5. CASE MoveAside
  <2>1. /\ move \in 1..4 /\ Target = Order[move] /\ Target \in Path /\ step = "backup"
        /\ Target \notin In(backups) /\ Target \notin In(promoted)
        /\ live[Target] = before[Target] /\ daemon = "promote" /\ daemon' = "promote"
    <3>1. /\ move \in 1..4 /\ Target = Order[move] /\ Target \in Path /\ step = "backup"
          /\ Target \notin In(backups) /\ Target \notin In(promoted)
          /\ daemon = "promote" /\ daemon' = "promote"
      BY <1>5, AsideIs
    <3>2. AsItWas(Target) /\ Target \notin botched
      BY <3>1
    <3> QED BY <3>1, <3>2
  <2>2. CASE live[Target] # NoFile
    <3>1. Once(backups') /\ In(backups') = In(backups) \cup {Target}
      <4>1. backups \in Seq(Path) /\ Once(backups) /\ backups' = Append(backups, Target)
        BY <1>5, <2>1, <2>2 DEF MoveAside
      <4> QED BY <4>1, <2>1, Moved
    <3>2. \A q \in Path : /\ live'[q] = IF q = Target THEN NoFile ELSE live[q]
                          /\ aside'[q] = IF q = Target THEN aside[q] \cup {live[q]} ELSE aside[q]
      BY <1>5, <2>1, <2>2 DEF MoveAside, Images
    <3> QED BY <1>5, <2>1, <2>2, <3>1, <3>2 DEF MoveAside
  <2>3. CASE live[Target] = NoFile
    BY <1>5, <2>1, <2>3 DEF MoveAside
  <2> QED BY <2>2, <2>3
<1>6. CASE Promote
  <2>1. /\ move \in 1..4 /\ Target = Order[move] /\ Target \in Path /\ step = "rename"
        /\ Target \notin In(promoted) /\ live[Target] = NoFile
        /\ daemon = "promote" /\ daemon' = "promote"
    BY <1>6, PromoteIs
  <2>2. Once(promoted') /\ In(promoted') = In(promoted) \cup {Target}
    BY <1>6, <2>1, Moved DEF Promote
  <2>3. \A q \in Path \ {Target} : live'[q] = live[q]
    BY <1>6, <2>1 DEF Promote, Images
  <2> QED BY <1>6, <2>1, <2>2, <2>3 DEF Promote
<1>7. CASE Sync
  BY <1>7 DEF Sync, InMove
<1>8. CASE MoveFails
  BY <1>8 DEF MoveFails, InMove
<1>9. CASE RollBack
  <2>1. PICK p \in Path :
            /\ p \in In(promoted) /\ Once(promoted') /\ In(promoted') = In(promoted) \ {p}
            /\ \A q \in Path \ {p} : live'[q] = live[q]
            /\ \/ live'[p] = NoFile /\ botched' = botched
               \/ botched' = botched \cup {p}
    BY <1>9, RolledBack
  <2>2. daemon = "rollback" /\ UNCHANGED <<backups, aside, before, daemon, restored>>
    BY <1>9 DEF RollBack
  <2> QED BY <2>1, <2>2 DEF AsItWas
<1>10. CASE PutBack
  <2>1. PICK p \in Path :
            /\ p \in In(backups) /\ Once(backups') /\ In(backups') = In(backups) \ {p}
            /\ \A q \in Path \ {p} : live'[q] = live[q]
            /\ \/ /\ live'[p] = before[p] /\ botched' = botched \ {p}
                  /\ aside' = [aside EXCEPT ![p] = aside[p] \ {before[p]}]
               \/ botched' = botched \cup {p} /\ aside' = aside
    BY <1>10, WentBack
  <2>2. \A q \in Path \ {p} : aside'[q] = aside[q] /\ (q \in botched' <=> q \in botched)
    BY <2>1
  <2>3. daemon = "rollback" /\ In(promoted) = {}
        /\ UNCHANGED <<promoted, before, daemon, restored>>
    BY <1>10 DEF PutBack, In
  <2> QED BY <2>1, <2>2, <2>3 DEF AsItWas
<1>11. CASE RestoreFails
  <2>1. \A q \in Path : AsItWas(q)
    BY <1>11 DEF RestoreFails, In
  <2>2. daemon' = "off" /\ restored' = "failed" /\ UNCHANGED <<live, before, aside, botched>>
    BY <1>11 DEF RestoreFails
  <2> QED BY <2>1, <2>2 DEF AsItWas
<1>12. CASE RestoreEnds
  BY <1>12, OpenStep DEF RestoreEnds
<1>13. CASE Terminate
  BY <1>13 DEF Terminate
<1>14. CASE ClosePool
  <2>1. live["data"] # NoFile /\ live \in Images
    BY <1>14 DEF ClosePool
  <2>2. Files({}, "old") \in Images /\ \A p \in Path : Files({}, "old")[p] = NoFile
    BY DEF Files, Images
  <2> QED BY <1>14, <2>1, <2>2, CheckpointedIs DEF ClosePool, Path
<1>15. CASE ArchiveSources
  BY <1>15, SourcesRead DEF ArchiveSources
<1>16. CASE ArchiveBase
  <2>1. daemon = "saving" /\ archive["data"] # NoFile /\ Archived("base", live["data"]["base"])
    BY <1>16 DEF ArchiveBase
  <2> QED BY <1>16, <2>1, ArchivedIs DEF ArchiveBase
<1>17. CASE ArchiveLog
  <2>1. daemon = "saving" /\ archive["data"] # NoFile /\ Archived("log", live["data"]["log"])
    BY <1>17 DEF ArchiveLog
  <2> QED BY <1>17, <2>1, ArchivedIs DEF ArchiveLog
<1>18. CASE Send
  BY <1>18 DEF Send, Dies, Forget
<1>19. CASE LateCheckpoint
  <2>1. live["data"] # NoFile /\ live \in Images
    BY <1>19 DEF LateCheckpoint
  <2> QED BY <1>19, <2>1, CheckpointedIs DEF LateCheckpoint
<1>20. CASE Crash
  <2>1. daemon' = "off" /\ UNCHANGED <<live, aside, before, botched>>
    BY <1>20 DEF Crash, Dies
  <2>2. CASE Replacing
    <3>1. restored' = "cut"
      BY <1>20, <2>2 DEF Crash
    <3>2. ASSUME NEW q \in Path, before[q] # NoFile
          PROVE  live[q] = before[q] \/ before[q] \in aside[q]
      BY <2>2, <3>2
    <3> QED BY <2>1, <3>1, <3>2
  <2>3. CASE ~Replacing
    <3>1. restored' = restored /\ daemon # "off"
      BY <1>20, <2>3 DEF Crash
    <3>2. restored \in {"no", "done"}
      BY <2>3, <3>1 DEF Phases
    <3> QED BY <2>1, <3>1, <3>2
  <2> QED BY <2>2, <2>3
<1>21. ASSUME NEW w \in Write, Accept(w) PROVE Placed'
  BY <1>21 DEF Accept, Become
<1>22. ASSUME NEW w \in Write, BeginCapture(w) PROVE Placed'
  BY <1>22 DEF BeginCapture, Become
<1>23. ASSUME NEW w \in Write, PublishFile(w) PROVE Placed'
  <2>1. live["data"].sources \cup {w} \in SUBSET Write /\ request[w] \in {"accepted", "begun", "filed"}
    BY <1>23, FieldsIn DEF PublishFile
  <2>2. Data("sources", live["data"].sources \cup {w})
    BY <1>23 DEF PublishFile
  <2> QED BY <1>23, <2>1, <2>2, Written DEF PublishFile, Become
<1>24. ASSUME NEW w \in Write, CommitCapture(w) PROVE Placed'
  <2>1. live["data"].log \cup {w} \in SUBSET Write /\ request[w] \in {"accepted", "begun", "filed"}
    BY <1>24, FieldsIn DEF CommitCapture
  <2>2. Data("log", live["data"].log \cup {w})
    BY <1>24 DEF CommitCapture
  <2> QED BY <1>24, <2>1, <2>2, Written DEF CommitCapture, Become
<1>25. ASSUME NEW w \in Write, Acknowledge(w) PROVE Placed'
  BY <1>25 DEF Acknowledge, Become
<1>26. ASSUME NEW w \in Write, CaptureFails(w) PROVE Placed'
  <2>1. live["data"].sources \ {w} \in SUBSET Write /\ request[w] \in {"accepted", "begun", "filed"}
    BY <1>26, FieldsIn DEF CaptureFails
  <2>2. Data("sources", live["data"].sources \ {w})
    BY <1>26 DEF CaptureFails
  <2> QED BY <1>26, <2>1, <2>2, Written DEF CaptureFails, Become
<1>27. CASE UNCHANGED memorydVars
  BY <1>27 DEF memorydVars
<1> QED
  BY <1>1, <1>2, <1>3, <1>4, <1>5, <1>6, <1>7, <1>8, <1>9, <1>10, <1>11, <1>12, <1>13, <1>14, <1>15,
     <1>16, <1>17, <1>18, <1>19, <1>20, <1>21, <1>22, <1>23, <1>24, <1>25, <1>26, <1>27
  DEF MemorydNext, Restore, Save, Capture

LEMMA MovesKept == ASSUME DInv, [MemorydNext]_memorydVars PROVE Moves'
<1> USE MemorydAssumption DEF DInv, MemorydTypeOK, Phased, Running, Replacing, Archiving, Placed, Moves,
       promoteVars, restoreVars, saveVars
<1>1. CASE Start
  BY <1>1 DEF Start
<1>2. CASE NothingToRestore
  BY <1>2, OpenStep DEF NothingToRestore
<1>3. CASE DownloadFails
  BY <1>3 DEF DownloadFails
<1>4. CASE Extract
  <2>1. daemon' = "promote" /\ move' = 1 /\ step' = "backup" /\ backups' = <<>> /\ promoted' = <<>>
    BY <1>4 DEF Extract
  <2> QED BY <2>1 DEF In
<1>5. CASE MoveAside
  <2>1. /\ move \in 1..4 /\ Target = Order[move] /\ Target \in Path /\ step = "backup"
        /\ Target \notin In(backups) /\ Target \notin In(promoted)
        /\ daemon = "promote" /\ UNCHANGED <<staged, promoted>>
    BY <1>5, AsideIs
  <2>2. In(backups') \subseteq In(backups) \cup {Target}
    <3>1. backups \in Seq(Path) /\ Once(backups)
      BY <2>1
    <3>2. backups' = backups \/ backups' = Append(backups, Target)
      BY <1>5 DEF MoveAside
    <3>3. CASE backups' = backups
      BY <3>3
    <3>4. CASE backups' = Append(backups, Target)
      BY <2>1, <3>1, <3>4, Moved
    <3> QED BY <3>2, <3>3, <3>4
  <2>3. \A q \in Path : live'[q] = IF q = Target THEN NoFile ELSE live[q]
    BY <1>5, <2>1 DEF MoveAside, Images
  <2>4. \/ staged[Target] # NoFile /\ step' = "rename" /\ move' = move
        \/ staged[Target] = NoFile /\ step' = "backup" /\ move' = move + 1
    BY <1>5, <2>1 DEF MoveAside
  <2> QED BY <2>1, <2>2, <2>3, <2>4, Ordered
<1>6. CASE Promote
  <2>1. /\ move \in 1..4 /\ Target = Order[move] /\ Target \in Path /\ step = "rename"
        /\ Target \notin In(promoted) /\ daemon = "promote" /\ step' = "sync"
        /\ UNCHANGED <<staged, move, backups>>
    BY <1>6, PromoteIs
  <2>2. In(promoted') = In(promoted) \cup {Target}
    BY <1>6, <2>1, Moved DEF Promote
  <2>3. \A q \in Path : live'[q] = IF q = Target THEN staged[q] ELSE live[q]
    BY <1>6, <2>1 DEF Promote, Images
  <2> QED BY <2>1, <2>2, <2>3, Ordered
<1>7. CASE Sync
  BY <1>7 DEF Sync, InMove
<1>8. CASE MoveFails
  BY <1>8 DEF MoveFails, InMove
<1>9. CASE RollBack
  BY <1>9 DEF RollBack
<1>10. CASE PutBack
  BY <1>10 DEF PutBack
<1>11. CASE RestoreFails
  BY <1>11 DEF RestoreFails, Forget
<1>12. CASE RestoreEnds
  BY <1>12, OpenStep DEF RestoreEnds
<1>13. CASE Terminate
  BY <1>13 DEF Terminate
<1>14. CASE ClosePool
  <2>1. live["data"] # NoFile /\ live \in Images
    BY <1>14 DEF ClosePool
  <2>2. Files({}, "old") \in Images /\ \A p \in Path : Files({}, "old")[p] = NoFile
    BY DEF Files, Images
  <2> QED BY <1>14, <2>1, <2>2, CheckpointedIs DEF ClosePool, Path
<1>15. CASE ArchiveSources
  BY <1>15, SourcesRead DEF ArchiveSources
<1>16. CASE ArchiveBase
  <2>1. daemon = "saving" /\ archive["data"] # NoFile /\ Archived("base", live["data"]["base"])
    BY <1>16 DEF ArchiveBase
  <2> QED BY <1>16, <2>1, ArchivedIs DEF ArchiveBase
<1>17. CASE ArchiveLog
  <2>1. daemon = "saving" /\ archive["data"] # NoFile /\ Archived("log", live["data"]["log"])
    BY <1>17 DEF ArchiveLog
  <2> QED BY <1>17, <2>1, ArchivedIs DEF ArchiveLog
<1>18. CASE Send
  BY <1>18 DEF Send, Dies, Forget
<1>19. CASE LateCheckpoint
  <2>1. live["data"] # NoFile /\ live \in Images
    BY <1>19 DEF LateCheckpoint
  <2> QED BY <1>19, <2>1, CheckpointedIs DEF LateCheckpoint
<1>20. CASE Crash
  BY <1>20 DEF Crash, Dies, Forget
<1>21. ASSUME NEW w \in Write, Accept(w) PROVE Moves'
  BY <1>21 DEF Accept, Become
<1>22. ASSUME NEW w \in Write, BeginCapture(w) PROVE Moves'
  BY <1>22 DEF BeginCapture, Become
<1>23. ASSUME NEW w \in Write, PublishFile(w) PROVE Moves'
  <2>1. live["data"].sources \cup {w} \in SUBSET Write /\ request[w] \in {"accepted", "begun", "filed"}
    BY <1>23, FieldsIn DEF PublishFile
  <2>2. Data("sources", live["data"].sources \cup {w})
    BY <1>23 DEF PublishFile
  <2> QED BY <1>23, <2>1, <2>2, Written DEF PublishFile, Become
<1>24. ASSUME NEW w \in Write, CommitCapture(w) PROVE Moves'
  <2>1. live["data"].log \cup {w} \in SUBSET Write /\ request[w] \in {"accepted", "begun", "filed"}
    BY <1>24, FieldsIn DEF CommitCapture
  <2>2. Data("log", live["data"].log \cup {w})
    BY <1>24 DEF CommitCapture
  <2> QED BY <1>24, <2>1, <2>2, Written DEF CommitCapture, Become
<1>25. ASSUME NEW w \in Write, Acknowledge(w) PROVE Moves'
  BY <1>25 DEF Acknowledge, Become
<1>26. ASSUME NEW w \in Write, CaptureFails(w) PROVE Moves'
  <2>1. live["data"].sources \ {w} \in SUBSET Write /\ request[w] \in {"accepted", "begun", "filed"}
    BY <1>26, FieldsIn DEF CaptureFails
  <2>2. Data("sources", live["data"].sources \ {w})
    BY <1>26 DEF CaptureFails
  <2> QED BY <1>26, <2>1, <2>2, Written DEF CaptureFails, Become
<1>27. CASE UNCHANGED memorydVars
  BY <1>27 DEF memorydVars
<1> QED
  BY <1>1, <1>2, <1>3, <1>4, <1>5, <1>6, <1>7, <1>8, <1>9, <1>10, <1>11, <1>12, <1>13, <1>14, <1>15,
     <1>16, <1>17, <1>18, <1>19, <1>20, <1>21, <1>22, <1>23, <1>24, <1>25, <1>26, <1>27
  DEF MemorydNext, Restore, Save, Capture

LEMMA WholesKept == ASSUME DInv, [MemorydNext]_memorydVars PROVE Wholes'
<1> USE MemorydAssumption DEF DInv, MemorydTypeOK, Phased, Running, Replacing, Archiving, HasSources,
       HasBase, Wholes, Good, Whole, promoteVars, restoreVars, saveVars
<1>1. CASE Start
  BY <1>1 DEF Start
<1>2. CASE NothingToRestore
  <2>1. UNCHANGED <<snapshot, promised>> /\ promised = {} /\ snapshot = NoSnapshot
    BY <1>2 DEF NothingToRestore
  <2>2. \A q \in Path : live'[q] # NoFile => live'[q].gen = "old"
    BY <1>2, OpenStep, FreshIs DEF NothingToRestore
  <2> QED BY <1>2, <2>1, <2>2, OpenStep DEF NothingToRestore
<1>3. CASE DownloadFails
  BY <1>3 DEF DownloadFails
<1>4. CASE Extract
  <2>1. /\ snapshot \in Images /\ snapshot # NoSnapshot /\ daemon' = "promote"
        /\ staged' = Extracted(snapshot) /\ UNCHANGED <<promised, live, snapshot>>
    BY <1>4 DEF Extract, Extracted
  <2>2. PICK image \in Images : image = Extracted(snapshot) /\ image["data"] # NoFile
    BY <2>1, ExtractedIs
  <2>3. Good(image)
    BY <2>1, <2>2
  <2> QED BY <2>1, <2>2, <2>3
<1>5. CASE MoveAside
  BY <1>5 DEF MoveAside, InMove, Target
<1>6. CASE Promote
  BY <1>6 DEF Promote, InMove, Target
<1>7. CASE Sync
  BY <1>7 DEF Sync, InMove
<1>8. CASE MoveFails
  BY <1>8 DEF MoveFails, InMove
<1>9. CASE RollBack
  BY <1>9 DEF RollBack
<1>10. CASE PutBack
  BY <1>10 DEF PutBack
<1>11. CASE RestoreFails
  BY <1>11 DEF RestoreFails, Forget
<1>12. CASE RestoreEnds
  <2>1. /\ daemon = "promote" /\ move = 5 /\ staged \in Images /\ snapshot # NoSnapshot
        /\ UNCHANGED <<snapshot, promised>>
    BY <1>12, OrderIs DEF RestoreEnds
  <2>2. live = staged
    <3>1. \A q \in Path : live[q] = staged[q]
      BY <2>1, PathIs DEF Moves
    <3> QED BY <2>1, <3>1 DEF Images
  <2>3. live' = staged /\ daemon' = "serving"
    BY <1>12, <2>1, <2>2, OpenStep DEF RestoreEnds
  <2> QED BY <2>1, <2>3
<1>13. CASE Terminate
  BY <1>13 DEF Terminate
<1>14. CASE ClosePool
  <2>1. live["data"] # NoFile /\ live \in Images
    BY <1>14 DEF ClosePool
  <2>2. Files({}, "old") \in Images /\ \A p \in Path : Files({}, "old")[p] = NoFile
    BY DEF Files, Images
  <2> QED BY <1>14, <2>1, <2>2, CheckpointedIs DEF ClosePool, Path
<1>15. CASE ArchiveSources
  BY <1>15, SourcesRead DEF ArchiveSources
<1>16. CASE ArchiveBase
  <2>1. daemon = "saving" /\ archive["data"] # NoFile /\ Archived("base", live["data"]["base"])
    BY <1>16 DEF ArchiveBase
  <2> QED BY <1>16, <2>1, ArchivedIs DEF ArchiveBase
<1>17. CASE ArchiveLog
  <2>1. daemon = "saving" /\ archive["data"] # NoFile /\ Archived("log", live["data"]["log"])
    BY <1>17 DEF ArchiveLog
  <2> QED BY <1>17, <2>1, ArchivedIs DEF ArchiveLog
<1>18. CASE Send
  <2>1. daemon' = "off"
    BY <1>18 DEF Send, Dies
  <2>2. CASE UNCHANGED <<snapshot, promised>>
    BY <1>18, <2>1, <2>2 DEF Send
  <2>3. CASE snapshot' = archive /\ promised' = IF quiet THEN promised \cup Acknowledged ELSE promised
    <3>1. archive \in Images /\ archive["data"] # NoFile /\ Extracted(archive) = archive
      BY <1>18, ExtractedIs DEF Send
    <3>2. promised' \subseteq archive["data"].sources \cap archive["data"].base
      <4>1. HasSources /\ HasBase
        BY <1>18, <3>1 DEF Send
      <4>2. promised \subseteq archive["data"].sources \cap archive["data"].base
        BY <4>1
      <4>3. quiet => Acknowledged \subseteq archive["data"].sources \cap archive["data"].base
        BY <4>1 DEF Writes
      <4> HIDE DEF DInv, Acknowledged
      <4> QED BY <2>3, <4>2, <4>3
    <3>3. snapshot' # NoSnapshot /\ Extracted(snapshot') = archive
      BY <2>3, <3>1
    <3>4. daemon = "sending" /\ Whole(archive)
      BY <1>18 DEF Send
    <3> HIDE DEF DInv
    <3> QED BY <2>1, <3>2, <3>3, <3>4
  <2> QED BY <1>18, <2>2, <2>3 DEF Send
<1>19. CASE LateCheckpoint
  <2>1. live["data"] # NoFile /\ live \in Images
    BY <1>19 DEF LateCheckpoint
  <2> QED BY <1>19, <2>1, CheckpointedIs DEF LateCheckpoint
<1>20. CASE Crash
  BY <1>20 DEF Crash, Dies, Forget
<1>21. ASSUME NEW w \in Write, Accept(w) PROVE Wholes'
  BY <1>21 DEF Accept, Become
<1>22. ASSUME NEW w \in Write, BeginCapture(w) PROVE Wholes'
  BY <1>22 DEF BeginCapture, Become
<1>23. ASSUME NEW w \in Write, PublishFile(w) PROVE Wholes'
  <2>1. live["data"].sources \cup {w} \in SUBSET Write /\ request[w] \in {"accepted", "begun", "filed"}
    BY <1>23, FieldsIn DEF PublishFile
  <2>2. Data("sources", live["data"].sources \cup {w})
    BY <1>23 DEF PublishFile
  <2> QED BY <1>23, <2>1, <2>2, Written DEF PublishFile, Become
<1>24. ASSUME NEW w \in Write, CommitCapture(w) PROVE Wholes'
  <2>1. live["data"].log \cup {w} \in SUBSET Write /\ request[w] \in {"accepted", "begun", "filed"}
    BY <1>24, FieldsIn DEF CommitCapture
  <2>2. Data("log", live["data"].log \cup {w})
    BY <1>24 DEF CommitCapture
  <2> QED BY <1>24, <2>1, <2>2, Written DEF CommitCapture, Become
<1>25. ASSUME NEW w \in Write, Acknowledge(w) PROVE Wholes'
  BY <1>25 DEF Acknowledge, Become
<1>26. ASSUME NEW w \in Write, CaptureFails(w) PROVE Wholes'
  <2>1. live["data"].sources \ {w} \in SUBSET Write /\ request[w] \in {"accepted", "begun", "filed"}
    BY <1>26, FieldsIn DEF CaptureFails
  <2>2. Data("sources", live["data"].sources \ {w}) /\ w \notin promised
    BY <1>26, <2>1 DEF CaptureFails, Writes
  <2> QED BY <1>26, <2>1, <2>2, Written DEF CaptureFails
<1>27. CASE UNCHANGED memorydVars
  BY <1>27 DEF memorydVars
<1> QED
  BY <1>1, <1>2, <1>3, <1>4, <1>5, <1>6, <1>7, <1>8, <1>9, <1>10, <1>11, <1>12, <1>13, <1>14, <1>15,
     <1>16, <1>17, <1>18, <1>19, <1>20, <1>21, <1>22, <1>23, <1>24, <1>25, <1>26, <1>27
  DEF MemorydNext, Restore, Save, Capture

LEMMA WritesKept == ASSUME DInv, [MemorydNext]_memorydVars PROVE Writes'
<1> USE MemorydAssumption DEF DInv, MemorydTypeOK, Phased, Running, Replacing, Archiving, HasSources,
       HasBase, Wholes, Good, Writes, InFlight, Acknowledged, promoteVars, restoreVars, saveVars
<1>1. CASE Start
  BY <1>1 DEF Start
<1>2. CASE NothingToRestore
  BY <1>2, OpenStep DEF NothingToRestore
<1>3. CASE DownloadFails
  BY <1>3 DEF DownloadFails
<1>4. CASE Extract
  <2>1. snapshot \in Images /\ staged' = Extracted(snapshot)
    BY <1>4 DEF Extract, Extracted
  <2> QED BY <1>4, <2>1, ExtractedIs DEF Extract
<1>5. CASE MoveAside
  BY <1>5 DEF MoveAside, InMove, Target
<1>6. CASE Promote
  BY <1>6 DEF Promote, InMove, Target
<1>7. CASE Sync
  BY <1>7 DEF Sync, InMove
<1>8. CASE MoveFails
  BY <1>8 DEF MoveFails, InMove
<1>9. CASE RollBack
  BY <1>9 DEF RollBack
<1>10. CASE PutBack
  BY <1>10 DEF PutBack
<1>11. CASE RestoreFails
  BY <1>11 DEF RestoreFails, Forget
<1>12. CASE RestoreEnds
  BY <1>12, OpenStep DEF RestoreEnds
<1>13. CASE Terminate
  BY <1>13 DEF Terminate
<1>14. CASE ClosePool
  <2>1. live["data"] # NoFile /\ live \in Images
    BY <1>14 DEF ClosePool
  <2>2. daemon' = "saving" /\ archive'["data"] = NoFile /\ UNCHANGED <<request, promised>>
    BY <1>14 DEF ClosePool, Files, Path
  <2>3. /\ live'["data"].sources = live["data"].sources
        /\ live'["data"].base \cup live'["data"].log = live["data"].base \cup live["data"].log
    BY <1>14, <2>1, CheckpointedIs DEF ClosePool
  <2>4. quiet' => live'["data"].log = {} /\ \A w \in Write : ~InFlight(w)
    BY <1>14, <2>1, CheckpointedIs DEF ClosePool, Holder
  <2> QED BY <2>2, <2>3, <2>4
<1>15. CASE ArchiveSources
  BY <1>15, SourcesRead DEF ArchiveSources
<1>16. CASE ArchiveBase
  <2>1. daemon = "saving" /\ archive["data"] # NoFile /\ Archived("base", live["data"]["base"])
    BY <1>16 DEF ArchiveBase
  <2> QED BY <1>16, <2>1, ArchivedIs DEF ArchiveBase
<1>17. CASE ArchiveLog
  <2>1. daemon = "saving" /\ archive["data"] # NoFile /\ Archived("log", live["data"]["log"])
    BY <1>17 DEF ArchiveLog
  <2> QED BY <1>17, <2>1, ArchivedIs DEF ArchiveLog
<1>18. CASE Send
  BY <1>18 DEF Send, Dies, Forget
<1>19. CASE LateCheckpoint
  <2>1. live["data"] # NoFile /\ live \in Images
    BY <1>19 DEF LateCheckpoint
  <2> QED BY <1>19, <2>1, CheckpointedIs DEF LateCheckpoint
<1>20. CASE Crash
  BY <1>20 DEF Crash, Dies, Forget
<1>21. ASSUME NEW w \in Write, Accept(w) PROVE Writes'
  BY <1>21 DEF Accept, Become
<1>22. ASSUME NEW w \in Write, BeginCapture(w) PROVE Writes'
  BY <1>22 DEF BeginCapture, Become
<1>23. ASSUME NEW w \in Write, PublishFile(w) PROVE Writes'
  <2>1. live["data"].sources \cup {w} \in SUBSET Write /\ request[w] \in {"accepted", "begun", "filed"}
    BY <1>23, FieldsIn DEF PublishFile
  <2>2. Data("sources", live["data"].sources \cup {w})
    BY <1>23 DEF PublishFile
  <2> QED BY <1>23, <2>1, <2>2, Written DEF PublishFile, Become
<1>24. ASSUME NEW w \in Write, CommitCapture(w) PROVE Writes'
  <2>1. live["data"].log \cup {w} \in SUBSET Write /\ request[w] \in {"accepted", "begun", "filed"}
    BY <1>24, FieldsIn DEF CommitCapture
  <2>2. Data("log", live["data"].log \cup {w})
    BY <1>24 DEF CommitCapture
  <2> QED BY <1>24, <2>1, <2>2, Written DEF CommitCapture, Become
<1>25. ASSUME NEW w \in Write, Acknowledge(w) PROVE Writes'
  BY <1>25 DEF Acknowledge, Become
<1>26. ASSUME NEW w \in Write, CaptureFails(w) PROVE Writes'
  <2>1. live["data"].sources \ {w} \in SUBSET Write /\ request[w] \in {"accepted", "begun", "filed"}
    BY <1>26, FieldsIn DEF CaptureFails
  <2>2. Data("sources", live["data"].sources \ {w})
    BY <1>26 DEF CaptureFails
  <2> QED BY <1>26, <2>1, <2>2, Written DEF CaptureFails, Become
<1>27. CASE UNCHANGED memorydVars
  BY <1>27 DEF memorydVars
<1> QED
  BY <1>1, <1>2, <1>3, <1>4, <1>5, <1>6, <1>7, <1>8, <1>9, <1>10, <1>11, <1>12, <1>13, <1>14, <1>15,
     <1>16, <1>17, <1>18, <1>19, <1>20, <1>21, <1>22, <1>23, <1>24, <1>25, <1>26, <1>27
  DEF MemorydNext, Restore, Save, Capture

LEMMA DInvStep == ASSUME DInv, [MemorydNext]_memorydVars PROVE DInv'
  BY MemorydTyped, PhasedKept, PlacedKept, MovesKept, WholesKept, WritesKept DEF DInv

LEMMA DInvInductive == MemorydSpec => []DInv
  BY InitDInv, DInvStep, PTL DEF MemorydSpec

\* Daemons, captures and the endpoint keep their state well typed.
THEOREM MemorydTypeCorrect == MemorydSpec => []MemorydTypeOK
<1>1. DInv => MemorydTypeOK
  BY DEF DInv
<1> QED BY DInvInductive, <1>1, PTL

\* A failed restore leaves what was live wherever its rollback did not fail, a failed or a
\* killed one keeps it in place or aside, and a daemon serves one image, with every
\* acknowledged write a save has stored.
THEOREM RestoredIsSaved == MemorydSpec => []SnapshotsHold
<1>1. ASSUME DInv PROVE SnapshotsHold
  <2> USE DEF DInv
  <2>1. RestoreIsAtomic
    <3>1. restored = "failed" /\ daemon = "off" => \A p \in Path \ botched : live[p] = before[p]
      BY <1>1 DEF Placed, AsItWas
    <3>2. ASSUME Replacing, NEW p \in Path, before[p] # NoFile
          PROVE  live[p] = before[p] \/ before[p] \in aside[p]
      BY <1>1, <3>2 DEF Placed, AsItWas
    <3>3. ASSUME daemon \in {"off", "download"}, restored # "done", NEW p \in Path, before[p] # NoFile
          PROVE  live[p] = before[p] \/ before[p] \in aside[p]
      BY <1>1, <3>3 DEF Placed, AsItWas, Phased, MemorydTypeOK
    <3> QED BY <3>1, <3>2, <3>3 DEF Replacing, RestoreIsAtomic
  <2>2. ServedIsWhole
    BY <1>1 DEF Wholes, Good, Whole, Running, ServedIsWhole
  <2> QED BY <2>1, <2>2 DEF SnapshotsHold
<1> QED BY DInvInductive, <1>1, PTL

-----------------------------------------------------------------------------
(* GraphQuery.                                                              *)

\* Where the query is.
Stations ==
    /\ phase = "search" => ids = {} /\ roots = {} /\ hops = {} /\ stack = <<>> /\ found = <<>> /\ near = "unread"
    /\ phase = "hop" => ask.most = 1 /\ ids = {} /\ roots = {} /\ stack = <<>>
    /\ phase = "walk" => ask.most # 1 /\ hops = {}
    /\ phase = "done" => /\ ids = {} /\ hops = {} /\ stack = <<>> /\ (roots = {} \/ Full)
                         /\ answer \in FirstOf(Members(found), ask.limit)
    /\ ids # {} => phase = "walk" /\ found = <<>>
    /\ stack # <<>> => phase = "walk" /\ ask.most > 1 /\ ids = {} /\ stack[1].node \notin roots
    /\ phase # "done" => answer = {}

\* What was read was there.
Seen ==
    /\ ids \cup roots \subseteq Starts \cap wasReadable /\ hops \subseteq wasActive
    /\ mutations = 0 => wasReadable = readable /\ wasActive = active
    /\ \A e \in First(hops, EdgePlace) :
          /\ near = "yes" => From[e] \in wasReadable
          /\ near = "no" /\ mutations = 0 => From[e] \notin readable

\* A path of rows that were there, from node to node and to none twice.
Trail(c, nodes, edges) ==
    /\ c.start \in Starts /\ \A i \in 0..Len(c.path) : NodeAt(c, i) \in nodes
    /\ \A i \in 1..Len(c.path) : c.path[i] \in edges /\ From[c.path[i]] = NodeAt(c, i - 1)
    /\ \A i, j \in 0..Len(c.path) : i # j => NodeAt(c, i) # NodeAt(c, j)

\* The j-th call of a walk from s has come a trail of j - 1 edges, and has still to look at
\* edges that go on from there.
Way(s, call) == [start |-> s, path |-> call.path]
OnTrail(call, j, s, most, nodes, edges) ==
    /\ Len(call.path) = j - 1 /\ j <= most /\ Trail(Way(s, call), nodes, edges)
    /\ call.node = NodeAt(Way(s, call), j - 1)
    /\ call.seen = {NodeAt(Way(s, call), i) : i \in 0..(j - 1)}
    /\ \A e \in call.left : call.listed /\ e \in edges /\ From[e] = call.node

Trails == \A j \in 1..Len(stack) : OnTrail(stack[j], j, stack[1].node, ask.most, wasReadable, wasActive)

\* Its caller is done with its first edges.
Nested ==
    \A k \in 1..Len(stack) : \A j \in 1..(k - 1) :
       /\ stack[j].listed /\ stack[k].path[j] \notin stack[j].left
       /\ \A i \in 1..(j - 1) : stack[k].path[i] = stack[j].path[i]

\* A match the query has still to come to: the j-th call of a walk from s has still to look at
\* the edge that it goes on with.
Ahead(c, j, s, call) ==
    /\ c.start = s /\ j <= Len(c.path) /\ \A i \in 1..(j - 1) : c.path[i] = call.path[i]
    /\ call.listed => c.path[j] \in call.left

FutureOf(c, where, nodes, edges, calls) ==
    \/ where = "search" \/ c.start \in nodes
    \/ Len(c.path) = 1 /\ c.path[1] \in edges
    \/ \E j \in 1..Len(calls) : Ahead(c, j, calls[1].node, calls[j])

Future(c) == FutureOf(c, phase, ids \cup roots, hops, stack)
Later(c) == FutureOf(c, phase', ids' \cup roots', hops', stack')

Sound == \A i \in 1..Len(found) : IsMatch(found[i], wasReadable, wasActive)

Unrepeated ==
    \A i \in 1..Len(found) : ~Future(found[i]) /\ \A j \in 1..Len(found) : found[i] = found[j] => i = j

Undisturbed ==
    /\ mutations = 0 /\ Cardinality(Starts \cap readable) <= MaxRoots /\ Len(found) < MaxPaths
    /\ ask.most = 1 => Cardinality(active) <= MaxPaths

Unmissed ==
    Undisturbed => \A c \in Matches(readable, active) : Future(c) \/ \E i \in 1..Len(found) : found[i] = c

GInv == QueryTypeOK /\ Stations /\ Seen /\ Trails /\ Nested /\ Sound /\ Unrepeated /\ Unmissed

-----------------------------------------------------------------------------
LEMMA SomeFirst == ASSUME NEW all, NEW place PROVE First(all, place) \subseteq all
  BY DEF First

LEMMA SomePrefix == ASSUME NEW all, NEW place, NEW n PROVE Prefix(all, place, n) \subseteq all
  BY DEF Prefix

LEMMA OneFirst ==
  ASSUME NEW all, all \subseteq GraphEdge,
         NEW d \in First(all, EdgePlace), NEW e \in First(all, EdgePlace)
  PROVE  d = e
<1>1. EdgePlace[d] <= EdgePlace[e] /\ EdgePlace[e] <= EdgePlace[d] /\ d \in GraphEdge /\ e \in GraphEdge
  BY DEF First
<1>2. EdgePlace[d] = EdgePlace[e]
  BY <1>1, GraphAssumption
<1> QED BY <1>1, <1>2, GraphAssumption

\* A list that the limit does not cut short.
LEMMA WholePrefix ==
  ASSUME NEW all, IsFiniteSet(all), NEW place, \A x \in all : place[x] \in Nat, NEW n \in Nat, Cardinality(all) <= n
  PROVE  Prefix(all, place, n) = all
<1> SUFFICES ASSUME NEW x \in all PROVE Cardinality({y \in all : place[y] < place[x]}) < n
  BY DEF Prefix
<1> DEFINE sooner == {y \in all : place[y] < place[x]}
<1>1. sooner \subseteq all \ {x} /\ IsFiniteSet(all \ {x})
  <2>1. ~(place[x] < place[x])
    <3>1. place[x] \in Nat
      OBVIOUS
    <3> QED BY <3>1
  <2> QED BY <2>1, FS_RemoveElement
<1>2. Cardinality(all \ {x}) = Cardinality(all) - 1 /\ Cardinality(all) \in Nat
  BY FS_RemoveElement, FS_CardinalityType
<1>3. Cardinality(sooner) <= Cardinality(all \ {x}) /\ IsFiniteSet(sooner)
  BY <1>1, FS_Subset
<1>4. Cardinality(sooner) \in Nat
  BY <1>3, FS_CardinalityType
<1>5. Cardinality(sooner) < n
  <2> HIDE DEF sooner
  <2> QED BY <1>2, <1>3, <1>4
<1> QED BY <1>5

\* The top of the stack, replaced or dropped.
LEMMA Dropped ==
  ASSUME NEW S, NEW s \in Seq(S), s # <<>>
  PROVE  LET t == SubSeq(s, 1, Len(s) - 1) IN
         /\ t \in Seq(S) /\ Len(t) = Len(s) - 1
         /\ \A i \in 1..(Len(s) - 1) : t[i] = s[i]
<1> DEFINE n == Len(s) - 1
           t == SubSeq(s, 1, n)
<1>1. n \in Nat /\ \A i \in 1..n : s[i] \in S
  OBVIOUS
<1>2. /\ t \in Seq(S) /\ Len(t) = IF 1 <= n THEN n - 1 + 1 ELSE 0
      /\ \A i \in 1..(n - 1 + 1) : t[i] = s[1 + i - 1]
  <2> HIDE DEF n
  <2> QED BY <1>1, SubSeqProperties
<1>3. Len(t) = n /\ \A i \in 1..n : t[i] = s[i]
  <2> HIDE DEF t, n
  <2>1. n - 1 + 1 = n /\ \A i \in 1..n : 1 + i - 1 = i
    BY <1>1
  <2> QED BY <1>1, <1>2, <2>1
<1> QED BY <1>2, <1>3

LEMMA Replaced ==
  ASSUME NEW S, NEW s \in Seq(S), s # <<>>, NEW x \in S
  PROVE  LET t == Append(SubSeq(s, 1, Len(s) - 1), x) IN
         /\ t \in Seq(S) /\ Len(t) = Len(s) /\ t[Len(s)] = x
         /\ \A i \in 1..(Len(s) - 1) : t[i] = s[i]
<1> DEFINE below == SubSeq(s, 1, Len(s) - 1)
<1>1. Len(s) \in Nat /\ Len(s) >= 1
  OBVIOUS
<1>2. below \in Seq(S) /\ Len(below) = Len(s) - 1 /\ \A i \in 1..(Len(s) - 1) : below[i] = s[i]
  BY Dropped
<1> HIDE DEF below
<1> QED BY <1>1, <1>2

LEMMA Added ==
  ASSUME NEW S, NEW s \in Seq(S), NEW x \in S
  PROVE  /\ Append(s, x) \in Seq(S) /\ Len(Append(s, x)) = Len(s) + 1 /\ Len(s) \in Nat
         /\ Append(s, x)[Len(s) + 1] = x /\ \A i \in 1..Len(s) : Append(s, x)[i] = s[i]
  OBVIOUS

\* A trail of more rows, a longer one, and one that is asked for.
LEMMA TrailMore ==
  ASSUME NEW p, NEW nodes, NEW edges, Trail(p, nodes, edges),
         NEW more, nodes \subseteq more, NEW others, edges \subseteq others
  PROVE  Trail(p, more, others)
  BY DEF Trail

\* The path of q is that of p and an edge e.
Longer(q, p, e) ==
    /\ q.start = p.start /\ Len(q.path) = Len(p.path) + 1 /\ q.path[Len(p.path) + 1] = e
    /\ \A i \in 1..Len(p.path) : q.path[i] = p.path[i]

LEMMA LongerIs ==
  ASSUME NEW p \in Candidate, NEW e \in GraphEdge
  PROVE  LET q == [start |-> p.start, path |-> Append(p.path, e)] IN q \in Candidate /\ Longer(q, p, e)
<1>1. p.path \in Seq(GraphEdge) /\ p.start \in GraphNode
  BY DEF Candidate
<1>2. /\ Append(p.path, e) \in Seq(GraphEdge) /\ Len(Append(p.path, e)) = Len(p.path) + 1
      /\ Append(p.path, e)[Len(p.path) + 1] = e
      /\ \A i \in 1..Len(p.path) : Append(p.path, e)[i] = p.path[i]
  BY <1>1, Added
<1> QED BY <1>1, <1>2 DEF Candidate, Longer

LEMMA TrailLonger ==
  ASSUME NEW p \in Candidate, NEW nodes, NEW edges, Trail(p, nodes, edges), NEW q, NEW e \in edges,
         Longer(q, p, e), From[e] = NodeAt(p, Len(p.path)), To[e] \in nodes,
         \A i \in 0..Len(p.path) : NodeAt(p, i) # To[e]
  PROVE  /\ Trail(q, nodes, edges) /\ EndOf(q) = To[e] /\ NodeAt(q, Len(p.path) + 1) = To[e]
         /\ \A i \in 0..Len(p.path) : NodeAt(q, i) = NodeAt(p, i)
<1>1. Len(p.path) \in Nat
  BY DEF Candidate
<1>2. /\ q.start = p.start /\ Len(q.path) = Len(p.path) + 1
      /\ q.path[Len(p.path) + 1] = e /\ \A i \in 1..Len(p.path) : q.path[i] = p.path[i]
  BY DEF Longer
<1>4. \A i \in 0..Len(p.path) : NodeAt(q, i) = NodeAt(p, i)
  BY <1>1, <1>2 DEF NodeAt
<1>5. NodeAt(q, Len(p.path) + 1) = To[e] /\ EndOf(q) = To[e]
  <2>1. q.path # <<>>
    BY <1>1, <1>2
  <2> QED BY <1>1, <1>2, <2>1 DEF NodeAt, EndOf
<1>6. Trail(q, nodes, edges)
  <2>1. \A i \in 0..Len(q.path) : i \in 0..Len(p.path) \/ i = Len(p.path) + 1
    BY <1>1, <1>2
  <2>2. q.start \in Starts /\ \A i \in 0..Len(q.path) : NodeAt(q, i) \in nodes
    BY <2>1, <1>2, <1>4, <1>5 DEF Trail
  <2>3. \A i \in 1..Len(q.path) : q.path[i] \in edges /\ From[q.path[i]] = NodeAt(q, i - 1)
    <3> SUFFICES ASSUME NEW i \in 1..Len(q.path)
                 PROVE  q.path[i] \in edges /\ From[q.path[i]] = NodeAt(q, i - 1)
      OBVIOUS
    <3>1. CASE i = Len(p.path) + 1
      BY <3>1, <1>1, <1>2, <1>4
    <3>2. CASE i \in 1..Len(p.path)
      <4>1. q.path[i] = p.path[i] /\ NodeAt(q, i - 1) = NodeAt(p, i - 1)
        BY <3>2, <1>1, <1>2, <1>4
      <4> QED BY <3>2, <4>1 DEF Trail
    <3> QED BY <3>1, <3>2, <1>1, <1>2
  <2>4. \A i, j \in 0..Len(q.path) : i # j => NodeAt(q, i) # NodeAt(q, j)
    BY <2>1, <1>4, <1>5 DEF Trail
  <2> QED BY <2>2, <2>3, <2>4 DEF Trail
<1> QED BY <1>4, <1>5, <1>6

LEMMA TrailMatches ==
  ASSUME NEW p, NEW nodes, NEW edges, Trail(p, nodes, edges),
         Len(p.path) \in ask.least..ask.most, EndOf(p) \in Targets
  PROVE  IsMatch(p, nodes, edges)
  BY DEF Trail, IsMatch

LEMMA MatchesMore ==
  ASSUME NEW p, NEW nodes, NEW edges, IsMatch(p, nodes, edges),
         NEW more, nodes \subseteq more, NEW others, edges \subseteq others
  PROVE  IsMatch(p, more, others)
  BY DEF IsMatch

LEMMA TopIs ==
  ASSUME QueryTypeOK, stack # <<>>
  PROVE  /\ Len(stack) \in Nat \ {0} /\ Top = stack[Len(stack)]
         /\ \A j \in 1..Len(stack) : stack[j] \in Frame
  BY DEF QueryTypeOK, Top

LEMMA RootStep ==
  ASSUME QueryTypeOK, Root
  PROVE  \E n \in roots : /\ stack' = <<Call(n, <<>>, {n})>> /\ stack' \in Seq(Frame)
                          /\ Len(stack') = 1 /\ stack'[1] = Call(n, <<>>, {n}) /\ roots' = roots \ {n}
<1>1. PICK n \in First(roots, NodePlace) : stack' = <<Call(n, <<>>, {n})>> /\ roots' = roots \ {n}
  BY DEF Root
<1>2. n \in roots /\ n \in GraphNode
  BY SomeFirst DEF QueryTypeOK
<1>3. Call(n, <<>>, {n}) \in Frame
  BY <1>2 DEF Call, Frame
<1>4. \A x \in Frame : <<x>> \in Seq(Frame) /\ Len(<<x>>) = 1 /\ <<x>>[1] = x
  OBVIOUS
<1> QED BY <1>1, <1>2, <1>3, <1>4

LEMMA ListStep ==
  ASSUME QueryTypeOK, ListOutgoingEdges
  PROVE  LET n == Len(stack) IN
         /\ stack' \in Seq(Frame) /\ Len(stack') = n /\ n \in Nat \ {0}
         /\ \A i \in 1..(n - 1) : stack'[i] = stack[i]
         /\ \A i \in 1..n : /\ stack'[i].node = stack[i].node /\ stack'[i].path = stack[i].path
                            /\ stack'[i].seen = stack[i].seen
         /\ stack'[n].listed /\ ~stack[n].listed
         /\ stack'[n].left = {e \in active : From[e] = stack[n].node}
<1> DEFINE n == Len(stack)
           x == [Top EXCEPT !.listed = TRUE, !.left = {e \in active : From[e] = Top.node}]
<1>1. n \in Nat \ {0} /\ Top = stack[n] /\ Top \in Frame /\ stack \in Seq(Frame) /\ stack # <<>>
  BY TopIs DEF ListOutgoingEdges, QueryTypeOK
<1>2. x \in Frame /\ x.node = Top.node /\ x.path = Top.path /\ x.seen = Top.seen /\ x.listed
      /\ x.left = {e \in active : From[e] = Top.node}
  BY <1>1 DEF Frame, QueryTypeOK
<1>3. stack' = Append(SubSeq(stack, 1, Len(stack) - 1), x) /\ ~stack[n].listed
  BY <1>1 DEF ListOutgoingEdges, Below
<1> HIDE DEF x
<1>4. stack' \in Seq(Frame) /\ Len(stack') = n /\ stack'[n] = x /\ \A i \in 1..(n - 1) : stack'[i] = stack[i]
  BY <1>1, <1>2, <1>3, Replaced
<1>5. \A i \in 1..n : /\ stack'[i].node = stack[i].node /\ stack'[i].path = stack[i].path
                      /\ stack'[i].seen = stack[i].seen
  <2> SUFFICES ASSUME NEW i \in 1..n
               PROVE  /\ stack'[i].node = stack[i].node /\ stack'[i].path = stack[i].path
                      /\ stack'[i].seen = stack[i].seen
    OBVIOUS
  <2>1. i = n \/ i \in 1..(n - 1)
    BY <1>1
  <2> HIDE DEF n
  <2> QED BY <2>1, <1>1, <1>2, <1>4
<1> QED BY <1>1, <1>2, <1>3, <1>4, <1>5

\* What Follow does to the calls; the found path and the new call are those of an edge that
\* leads to a node to be read, not seen before.
Descends(e) ==
    LET n == Len(stack) route == Append(stack[n].path, e) IN
    /\ To[e] \in readable /\ To[e] \notin stack[n].seen
    /\ IF Len(route) >= ask.least /\ To[e] \in Targets
       THEN found' = Append(found, [start |-> stack[1].node, path |-> route]) ELSE found' = found
    /\ IF Len(route) < ask.most
       THEN /\ Len(stack') = n + 1
            /\ stack'[n + 1] = Call(To[e], route, stack[n].seen \cup {To[e]})
       ELSE Len(stack') = n

LEMMA FollowStep ==
  ASSUME QueryTypeOK, Follow
  PROVE  LET n == Len(stack) IN
         /\ stack' \in Seq(Frame) /\ n \in Nat \ {0} /\ stack # <<>>
         /\ \A i \in 1..(n - 1) : stack'[i] = stack[i]
         /\ \A i \in 1..n : /\ stack'[i].node = stack[i].node /\ stack'[i].path = stack[i].path
                            /\ stack'[i].seen = stack[i].seen /\ stack'[i].listed = stack[i].listed
         /\ \E e \in stack[n].left :
               /\ e \in GraphEdge /\ stack'[n].left = stack[n].left \ {e}
               /\ \/ Descends(e)
                  \/ /\ Len(stack') = n /\ found' = found
                     /\ To[e] \notin readable \/ To[e] \in stack[n].seen
<1> DEFINE n == Len(stack)
<1>1. n \in Nat \ {0} /\ Top = stack[n] /\ Top \in Frame /\ stack \in Seq(Frame) /\ stack # <<>>
  BY TopIs DEF Follow, QueryTypeOK
<1>2. PICK e \in First(Top.left, EdgePlace) :
        LET route == Append(Top.path, e) call == [Top EXCEPT !.left = Top.left \ {e}] IN
        IF ~IsReadable(To[e]) \/ To[e] \in Top.seen
        THEN stack' = Append(Below, call) /\ UNCHANGED found
        ELSE /\ IF Len(route) >= ask.least /\ To[e] \in Targets THEN Hit(stack[1].node, route)
                ELSE UNCHANGED found
             /\ LET here == Append(Below, [call EXCEPT !.seen = SeenBy(Top, To[e])]) IN
                stack' = IF Len(route) < ask.most
                         THEN Append(here, Call(To[e], route, Top.seen \cup {To[e]})) ELSE here
  BY DEF Follow
<1>3. e \in stack[n].left /\ e \in GraphEdge /\ To[e] \in GraphNode
  BY <1>1, SomeFirst, GraphAssumption DEF Frame
<1> DEFINE route == Append(Top.path, e)
           x == [Top EXCEPT !.left = Top.left \ {e}]
           here == Append(SubSeq(stack, 1, Len(stack) - 1), x)
           next == Call(To[e], route, Top.seen \cup {To[e]})
<1>4. /\ x \in Frame /\ x.node = Top.node /\ x.path = Top.path /\ x.seen = Top.seen
      /\ x.listed = Top.listed /\ x.left = Top.left \ {e} /\ [x EXCEPT !.seen = Top.seen] = x
  BY <1>1 DEF Frame
<1>5. here \in Seq(Frame) /\ Len(here) = n /\ here[n] = x /\ \A i \in 1..(n - 1) : here[i] = stack[i]
  <2> HIDE DEF x
  <2> QED BY <1>1, <1>4, Replaced
<1>6. next \in Frame
  <2>1. route \in Seq(GraphEdge)
    BY <1>1, <1>3 DEF Frame
  <2> HIDE DEF route
  <2> QED BY <1>1, <1>3, <2>1 DEF Frame, Call
<1>7. /\ Append(here, next) \in Seq(Frame) /\ Len(Append(here, next)) = n + 1
      /\ Append(here, next)[n + 1] = next /\ \A i \in 1..n : Append(here, next)[i] = here[i]
  <2> HIDE DEF here, next, n
  <2> QED BY <1>5, <1>6, Added
<1>8. /\ stack' \in {here, Append(here, next)}
      /\ \/ Descends(e)
         \/ stack' = here /\ found' = found /\ (To[e] \notin readable \/ To[e] \in stack[n].seen)
  <2>1. CASE To[e] \notin readable \/ To[e] \in stack[n].seen
    BY <1>1, <1>2, <2>1 DEF IsReadable, Below
  <2>2. CASE To[e] \in readable /\ To[e] \notin stack[n].seen
    <3>1. /\ IF Len(route) >= ask.least /\ To[e] \in Targets THEN Hit(stack[1].node, route)
             ELSE UNCHANGED found
          /\ stack' = IF Len(route) < ask.most THEN Append(here, next) ELSE here
      <4>1. Append(Below, [x EXCEPT !.seen = SeenBy(Top, To[e])]) = here
        BY <1>4 DEF SeenBy, Below
      <4> QED BY <1>1, <1>2, <2>2, <4>1 DEF IsReadable
    <3>2. route = Append(stack[n].path, e) /\ next = Call(To[e], route, stack[n].seen \cup {To[e]})
      BY <1>1
    <3> HIDE DEF here, next, route, n
    <3>3. IF Len(route) < ask.most THEN Len(stack') = n + 1 /\ stack'[n + 1] = next ELSE Len(stack') = n
      BY <3>1, <1>5, <1>7
    <3>4. stack' \in {here, Append(here, next)}
      BY <3>1
    <3> QED BY <2>2, <3>1, <3>2, <3>3, <3>4 DEF Descends, Hit, n
  <2> QED BY <2>1, <2>2
<1> HIDE DEF here, next, route, x
<1>9. stack' \in Seq(Frame) /\ stack'[n] = x /\ \A i \in 1..(n - 1) : stack'[i] = stack[i]
  <2>1. CASE stack' = here
    BY <2>1, <1>5
  <2>2. CASE stack' = Append(here, next)
    <3>1. n \in 1..n /\ 1..(n - 1) \subseteq 1..n
      BY <1>1
    <3> QED BY <2>2, <3>1, <1>5, <1>7
  <2> QED BY <2>1, <2>2, <1>8
<1>10. \A i \in 1..n : /\ stack'[i].node = stack[i].node /\ stack'[i].path = stack[i].path
                       /\ stack'[i].seen = stack[i].seen /\ stack'[i].listed = stack[i].listed
  <2> SUFFICES ASSUME NEW i \in 1..n
               PROVE  /\ stack'[i].node = stack[i].node /\ stack'[i].path = stack[i].path
                      /\ stack'[i].seen = stack[i].seen /\ stack'[i].listed = stack[i].listed
    OBVIOUS
  <2>1. i = n \/ i \in 1..(n - 1)
    BY <1>1
  <2> HIDE DEF n
  <2> QED BY <2>1, <1>1, <1>4, <1>9
<1> QED BY <1>1, <1>3, <1>4, <1>5, <1>8, <1>9, <1>10

LEMMA ReturnStep ==
  ASSUME QueryTypeOK, Return
  PROVE  LET n == Len(stack) IN
         /\ stack' \in Seq(Frame) /\ Len(stack') = n - 1 /\ n \in Nat \ {0}
         /\ \A i \in 1..(n - 1) : stack'[i] = stack[i]
         /\ ~Full => stack[n].listed /\ stack[n].left = {}
<1>1. Len(stack) \in Nat \ {0} /\ Top = stack[Len(stack)] /\ stack # <<>> /\ stack \in Seq(Frame)
  BY TopIs DEF Return, QueryTypeOK
<1>2. stack' = SubSeq(stack, 1, Len(stack) - 1)
  BY DEF Return, Below
<1> QED BY <1>1, <1>2, Dropped DEF Return

LEMMA MutateStep ==
  ASSUME QueryTypeOK, Mutate
  PROVE  /\ readable' \subseteq wasReadable' /\ wasReadable \subseteq wasReadable' /\ wasReadable' \subseteq GraphNode
         /\ active' \subseteq wasActive' /\ wasActive \subseteq wasActive' /\ wasActive' \subseteq GraphEdge
         /\ mutations' \in 1..MaxMutations
<1>1. readable' \subseteq GraphNode /\ active' \subseteq GraphEdge
  BY GraphAssumption DEF Mutate, QueryTypeOK
<1>2. mutations' \in 1..MaxMutations
  BY GraphAssumption DEF Mutate, QueryTypeOK
<1> QED BY <1>1, <1>2 DEF Mutate, QueryTypeOK

LEMMA FoundMore ==
  ASSUME QueryTypeOK, NEW p \in Candidate, found' = Append(found, p)
  PROVE  /\ found' \in Seq(Candidate) /\ Len(found') = Len(found) + 1 /\ Len(found) \in Nat
         /\ found'[Len(found) + 1] = p /\ \A i \in 1..Len(found) : found'[i] = found[i]
         /\ Members(found) \subseteq Members(found')
<1>1. found \in Seq(Candidate)
  BY DEF QueryTypeOK
<1>2. /\ found' \in Seq(Candidate) /\ Len(found') = Len(found) + 1 /\ Len(found) \in Nat
      /\ found'[Len(found) + 1] = p /\ \A i \in 1..Len(found) : found'[i] = found[i]
  BY <1>1, Added
<1>3. DOMAIN found = 1..Len(found) /\ DOMAIN found' = 1..Len(found')
  BY <1>1, <1>2
<1>4. 1..Len(found) \subseteq 1..Len(found')
  BY <1>2
<1>5. Members(found) \subseteq Members(found')
  <2> SUFFICES ASSUME NEW i \in DOMAIN found PROVE found[i] \in Members(found')
    BY DEF Members
  <2>1. found[i] = found'[i] /\ i \in DOMAIN found'
    BY <1>2, <1>3, <1>4
  <2> QED BY <2>1 DEF Members
<1> QED BY <1>2, <1>5

LEMMA HopFound ==
  ASSUME QueryTypeOK, Hop
  PROVE  \E e \in First(hops, EdgePlace) :
            /\ e \in GraphEdge /\ hops' = hops \ {e}
            /\ [start |-> From[e], path |-> <<e>>] \in Candidate
            /\ Len(<<e>>) = 1 /\ <<e>>[1] = e
            /\ IF From[e] \in Starts /\ To[e] \in Targets /\ near = "yes" /\ To[e] \in readable
               THEN found' = Append(found, [start |-> From[e], path |-> <<e>>]) ELSE found' = found
<1>1. PICK e \in First(hops, EdgePlace) :
        /\ IF From[e] \in Starts /\ To[e] \in Targets /\ near = "yes" /\ IsReadable(To[e])
           THEN Hit(From[e], <<e>>) ELSE UNCHANGED found
        /\ hops' = hops \ {e}
  BY DEF Hop
<1>2. e \in GraphEdge /\ From[e] \in GraphNode
  BY SomeFirst, GraphAssumption DEF QueryTypeOK
<1>3. <<e>> \in Seq(GraphEdge) /\ Len(<<e>>) = 1 /\ <<e>>[1] = e
  BY <1>2
<1>4. [start |-> From[e], path |-> <<e>>] \in Candidate
  BY <1>2, <1>3 DEF Candidate
<1> QED BY <1>1, <1>2, <1>3, <1>4 DEF Hit, IsReadable

LEMMA FindFound ==
  ASSUME QueryTypeOK, Find
  PROVE  \E n \in roots :
            /\ roots' = roots \ {n} /\ [start |-> n, path |-> <<>>] \in Candidate /\ Len(<<>>) = 0
            /\ found' = Append(found, [start |-> n, path |-> <<>>])
<1>1. PICK n \in First(roots, NodePlace) : Hit(n, <<>>) /\ roots' = roots \ {n}
  BY DEF Find
<1>2. n \in roots /\ n \in GraphNode
  BY SomeFirst DEF QueryTypeOK
<1>3. [start |-> n, path |-> <<>>] \in Candidate /\ Len(<<>>) = 0
  BY <1>2 DEF Candidate
<1> QED BY <1>1, <1>2, <1>3 DEF Hit

\* A path that Follow finds.
LEMMA Deeper ==
  ASSUME QueryTypeOK, stack # <<>>, NEW e \in GraphEdge
  PROVE  LET route == Append(stack[Len(stack)].path, e) IN
         /\ route \in Seq(GraphEdge) /\ Len(route) = Len(stack[Len(stack)].path) + 1
         /\ (stack[1].node \in GraphNode) /\ Way(stack[1].node, stack[Len(stack)]) \in Candidate
         /\ [start |-> stack[1].node, path |-> route] \in Candidate
<1>1. stack[Len(stack)] \in Frame /\ stack[1] \in Frame
  BY TopIs
<1>2. stack[Len(stack)].path \in Seq(GraphEdge) /\ stack[1].node \in GraphNode
  BY <1>1 DEF Frame
<1> QED BY <1>2 DEF Candidate, Way

LEMMA InitGInv == QueryInit => GInv
<1> SUFFICES ASSUME QueryInit PROVE GInv
  OBVIOUS
<1>1. QueryTypeOK
  <2>1. /\ readable = wasReadable /\ wasReadable \subseteq GraphNode
        /\ active = wasActive /\ wasActive \subseteq GraphEdge /\ ask \in Asks
    BY GraphAssumption DEF QueryInit
  <2>2. mutations \in 0..MaxMutations
    BY GraphAssumption DEF QueryInit
  <2>3. stack \in Seq(Frame) /\ found \in Seq(Candidate)
    BY DEF QueryInit
  <2> QED BY <2>1, <2>2, <2>3 DEF QueryInit, QueryTypeOK
<1>2. stack = <<>> /\ found = <<>> /\ Len(stack) = 0 /\ Len(found) = 0
  BY DEF QueryInit
<1>3. Stations /\ Seen
  BY DEF QueryInit, Stations, Seen, First
<1>4. Trails /\ Nested /\ Sound /\ Unrepeated
  BY <1>2 DEF Trails, Nested, Sound, Unrepeated
<1>5. Unmissed
  BY DEF QueryInit, Unmissed, Future, FutureOf
<1> QED BY <1>1, <1>3, <1>4, <1>5 DEF GInv

LEMMA QueryTyped == ASSUME GInv, [QueryNext]_queryVars PROVE QueryTypeOK'
<1>0. QueryTypeOK
  BY DEF GInv
<1>1. CASE Search
  <2>1. ids' \subseteq GraphNode /\ hops' \subseteq GraphEdge
    <3>1. CASE ask.most = 1
      BY <1>0, <1>1, <3>1, SomePrefix DEF Search, QueryTypeOK
    <3>2. CASE ask.most # 1
      <4>1. ids' \subseteq Starts \cap readable /\ hops' = hops
        BY <1>1, <3>2, SomePrefix DEF Search
      <4> QED BY <1>0, <4>1 DEF QueryTypeOK
    <3> QED BY <3>1, <3>2
  <2>2. phase' \in {"hop", "walk"}
    BY <1>1 DEF Search
  <2> QED BY <1>0, <1>1, <2>1, <2>2 DEF Search, QueryTypeOK, rowVars
<1>2. CASE GetRow
  <2>1. ids' \subseteq GraphNode /\ roots' \subseteq GraphNode
    BY <1>0, <1>2, SomeFirst DEF GetRow, QueryTypeOK
  <2> QED BY <1>0, <1>2, <2>1 DEF GetRow, QueryTypeOK, rowVars
<1>3. CASE Find
  <2>1. PICK n \in roots :
           /\ roots' = roots \ {n} /\ [start |-> n, path |-> <<>>] \in Candidate
           /\ found' = Append(found, [start |-> n, path |-> <<>>])
    BY <1>0, <1>3, FindFound
  <2>2. found' \in Seq(Candidate) /\ Members(found) \subseteq Members(found')
    BY <1>0, <2>1, FoundMore
  <2> QED BY <1>0, <1>3, <2>1, <2>2 DEF Find, QueryTypeOK, rowVars
<1>4. CASE GetFrom
  BY <1>0, <1>4 DEF GetFrom, QueryTypeOK, rowVars
<1>5. CASE Hop
  <2>1. PICK e \in First(hops, EdgePlace) :
            /\ hops' = hops \ {e} /\ [start |-> From[e], path |-> <<e>>] \in Candidate
            /\ found' = Append(found, [start |-> From[e], path |-> <<e>>]) \/ found' = found
    BY <1>0, <1>5, HopFound
  <2>2. found' \in Seq(Candidate) /\ Members(found) \subseteq Members(found')
    BY <1>0, <2>1, FoundMore DEF QueryTypeOK
  <2> QED BY <1>0, <1>5, <2>1, <2>2 DEF Hop, QueryTypeOK, rowVars
<1>6. CASE Root
  <2>1. stack' \in Seq(Frame) /\ roots' \subseteq roots
    BY <1>0, <1>6, RootStep
  <2> QED BY <1>0, <1>6, <2>1 DEF Root, QueryTypeOK, rowVars
<1>7. CASE ListOutgoingEdges
  <2>1. stack' \in Seq(Frame)
    BY <1>0, <1>7, ListStep
  <2> QED BY <1>0, <1>7, <2>1 DEF ListOutgoingEdges, QueryTypeOK, rowVars
<1>8. CASE Follow
  <2> DEFINE n == Len(stack)
  <2>1. PICK e \in stack[n].left : e \in GraphEdge /\ (Descends(e) \/ found' = found)
    BY <1>0, <1>8, FollowStep
  <2>2. stack' \in Seq(Frame) /\ stack # <<>>
    BY <1>0, <1>8, FollowStep
  <2> DEFINE p == [start |-> stack[1].node, path |-> Append(stack[n].path, e)]
  <2>3. p \in Candidate
    BY <1>0, <2>1, <2>2, Deeper
  <2>4. found' = found \/ found' = Append(found, p)
    BY <2>1 DEF Descends
  <2>5. found' \in Seq(Candidate) /\ Members(found) \subseteq Members(found')
    <3> HIDE DEF p
    <3> QED BY <1>0, <2>3, <2>4, FoundMore DEF QueryTypeOK
  <2> QED BY <1>0, <1>8, <2>2, <2>5 DEF Follow, QueryTypeOK, rowVars
<1>9. CASE Return
  <2>1. stack' \in Seq(Frame)
    BY <1>0, <1>9, ReturnStep
  <2> QED BY <1>0, <1>9, <2>1 DEF Return, QueryTypeOK, rowVars
<1>10. CASE Answer
  <2>1. answer' \subseteq Members(found)
    BY <1>10 DEF Answer, FirstOf
  <2> QED BY <1>0, <1>10, <2>1 DEF Answer, QueryTypeOK, rowVars
<1>11. CASE Mutate
  BY <1>0, <1>11, MutateStep DEF Mutate, QueryTypeOK
<1>12. CASE UNCHANGED queryVars
  BY <1>0, <1>12 DEF queryVars, QueryTypeOK
<1> QED BY <1>1, <1>2, <1>3, <1>4, <1>5, <1>6, <1>7, <1>8, <1>9, <1>10, <1>11, <1>12 DEF QueryNext

LEMMA FirstCall ==
  ASSUME QueryTypeOK, stack # <<>>, ListOutgoingEdges \/ Follow \/ (Return /\ stack' # <<>>)
  PROVE  stack'[1].node = stack[1].node /\ stack'[1].path = stack[1].path
<1>1. Len(stack) \in Nat \ {0}
  BY TopIs
<1>2. CASE ListOutgoingEdges
  BY <1>1, <1>2, ListStep
<1>3. CASE Follow
  BY <1>1, <1>3, FollowStep
<1>4. CASE Return /\ stack' # <<>>
  <2>1. stack' \in Seq(Frame) /\ Len(stack') = Len(stack) - 1 /\ \A i \in 1..(Len(stack) - 1) : stack'[i] = stack[i]
    BY <1>4, ReturnStep
  <2>2. Len(stack') # 0
    BY <1>4, <2>1
  <2> QED BY <1>1, <2>1, <2>2
<1> QED BY <1>2, <1>3, <1>4

LEMMA StationsKept == ASSUME GInv, [QueryNext]_queryVars PROVE Stations'
<1> USE DEF Stations
<1>0. QueryTypeOK /\ Stations
  BY DEF GInv
<1>1. CASE Search
  BY <1>0, <1>1 DEF Search
<1>2. CASE GetRow
  <2>1. ids # {}
    BY <1>2, SomeFirst DEF GetRow
  <2>2. stack = <<>> /\ phase = "walk" /\ found = <<>>
    BY <1>0, <2>1
  <2> QED BY <1>0, <1>2, <2>2 DEF GetRow
<1>3. CASE Find
  BY <1>0, <1>3 DEF Find
<1>4. CASE GetFrom
  BY <1>0, <1>4 DEF GetFrom
<1>5. CASE Hop
  BY <1>0, <1>5 DEF Hop
<1>6. CASE Root
  <2>1. PICK n \in roots : stack'[1] = Call(n, <<>>, {n}) /\ roots' = roots \ {n}
    BY <1>0, <1>6, RootStep
  <2>2. stack'[1].node \notin roots'
    BY <2>1 DEF Call
  <2> QED BY <1>0, <1>6, <2>2 DEF Root
<1>7. CASE ListOutgoingEdges
  <2>1. stack'[1].node = stack[1].node
    BY <1>0, <1>7, FirstCall DEF ListOutgoingEdges
  <2> QED BY <1>0, <1>7, <2>1 DEF ListOutgoingEdges
<1>8. CASE Follow
  <2>1. stack'[1].node = stack[1].node
    BY <1>0, <1>8, FirstCall DEF Follow
  <2> QED BY <1>0, <1>8, <2>1 DEF Follow
<1>9. CASE Return
  <2>1. stack' # <<>> => stack'[1].node = stack[1].node
    BY <1>0, <1>9, FirstCall DEF Return
  <2> QED BY <1>0, <1>9, <2>1 DEF Return
<1>10. CASE Answer
  BY <1>0, <1>10 DEF Answer, Full, FirstOf
<1>11. CASE Mutate
  BY <1>0, <1>11 DEF Mutate
<1>12. CASE UNCHANGED queryVars
  BY <1>0, <1>12 DEF queryVars, Full, FirstOf, EndOf
<1> QED BY <1>1, <1>2, <1>3, <1>4, <1>5, <1>6, <1>7, <1>8, <1>9, <1>10, <1>11, <1>12 DEF QueryNext

LEMMA SeenKept == ASSUME GInv, [QueryNext]_queryVars PROVE Seen'
<1> USE DEF Seen
<1>0. QueryTypeOK /\ Stations /\ Seen
  BY DEF GInv
<1>1. CASE Search
  <2>1. ids' \subseteq Starts \cap wasReadable /\ hops' \subseteq wasActive
    <3>1. CASE ask.most = 1
      BY <1>0, <1>1, <3>1, SomePrefix DEF Search, QueryTypeOK, Stations
    <3>2. CASE ask.most # 1
      <4>1. ids' \subseteq Starts \cap readable /\ hops' = hops
        BY <1>1, <3>2, SomePrefix DEF Search
      <4> QED BY <1>0, <4>1 DEF QueryTypeOK
    <3> QED BY <3>1, <3>2
  <2>2. near' = "unread" /\ UNCHANGED <<rowVars, roots>>
    BY <1>0, <1>1 DEF Search, Stations
  <2> QED BY <1>0, <2>1, <2>2 DEF rowVars
<1>2. CASE GetRow
  <2>1. ids' \cup roots' \subseteq ids \cup roots /\ UNCHANGED <<rowVars, near, hops>>
    BY <1>2, SomeFirst DEF GetRow
  <2> QED BY <1>0, <2>1 DEF rowVars
<1>3. CASE Find
  <2>1. roots' \subseteq roots /\ UNCHANGED <<rowVars, near, hops, ids>>
    BY <1>3 DEF Find
  <2> QED BY <1>0, <2>1 DEF rowVars
<1>4. CASE GetFrom
  <2>1. PICK e \in First(hops, EdgePlace) : near' = IF e \in hops /\ From[e] \in readable THEN "yes" ELSE "no"
    BY <1>4, SomeFirst DEF GetFrom, IsReadable
  <2>2. \A d \in First(hops, EdgePlace) : d = e
    BY <1>0, OneFirst DEF QueryTypeOK
  <2>3. e \in hops /\ UNCHANGED <<rowVars, hops, ids, roots>>
    BY <1>4, SomeFirst DEF GetFrom
  <2>4. near' = "yes" => From[e] \in wasReadable
    BY <1>0, <2>1 DEF QueryTypeOK
  <2>5. near' = "no" => From[e] \notin readable
    BY <2>1, <2>3
  <2> QED BY <1>0, <2>2, <2>3, <2>4, <2>5 DEF rowVars
<1>5. CASE Hop
  <2>1. near' = "unread" /\ hops' \subseteq hops /\ UNCHANGED <<rowVars, ids, roots>>
    BY <1>5 DEF Hop
  <2> QED BY <1>0, <2>1 DEF rowVars
<1>6. CASE Root
  <2>1. roots' \subseteq roots /\ UNCHANGED <<rowVars, near, hops, ids>>
    BY <1>6 DEF Root
  <2> QED BY <1>0, <2>1 DEF rowVars
<1>7. CASE ListOutgoingEdges
  BY <1>0, <1>7 DEF ListOutgoingEdges, rowVars
<1>8. CASE Follow
  BY <1>0, <1>8 DEF Follow, rowVars
<1>9. CASE Return
  BY <1>0, <1>9 DEF Return, rowVars
<1>10. CASE Answer
  BY <1>0, <1>10 DEF Answer, rowVars
<1>11. CASE Mutate
  <2>1. mutations' # 0 /\ wasReadable \subseteq wasReadable' /\ wasActive \subseteq wasActive'
    BY <1>0, <1>11, MutateStep
  <2>2. UNCHANGED <<ids, roots, hops, near>>
    BY <1>11 DEF Mutate
  <2> QED BY <1>0, <2>1, <2>2
<1>12. CASE UNCHANGED queryVars
  BY <1>0, <1>12 DEF queryVars
<1> QED BY <1>1, <1>2, <1>3, <1>4, <1>5, <1>6, <1>7, <1>8, <1>9, <1>10, <1>11, <1>12 DEF QueryNext

\* A call that has the edges it has still to look at changed.
LEMMA StillOnTrail ==
  ASSUME NEW call, NEW j, NEW s, NEW most, NEW nodes, NEW edges,
         OnTrail(call, j, s, most, nodes, edges),
         NEW next, next.path = call.path, next.node = call.node, next.seen = call.seen,
         NEW more, nodes \subseteq more, NEW others, edges \subseteq others,
         \A e \in next.left : next.listed /\ e \in others /\ From[e] = call.node
  PROVE  OnTrail(next, j, s, most, more, others)
<1>1. Way(s, next) = Way(s, call) /\ Trail(Way(s, call), nodes, edges)
  BY DEF Way, OnTrail
<1>2. Trail(Way(s, next), more, others)
  BY <1>1, TrailMore
<1> QED BY <1>1, <1>2 DEF OnTrail, Way

\* Steps that leave the calls alone.
LEMMA CallsRest ==
  ASSUME GInv, UNCHANGED <<stack, ask>>, wasReadable \subseteq wasReadable', wasActive \subseteq wasActive'
  PROVE  Trails' /\ Nested'
<1>1. Trails /\ Nested
  BY DEF GInv
<1>2. Nested'
  BY <1>1 DEF Nested
<1>3. ASSUME NEW j \in 1..Len(stack)
      PROVE  OnTrail(stack[j], j, stack[1].node, ask.most, wasReadable', wasActive')
  <2>1. OnTrail(stack[j], j, stack[1].node, ask.most, wasReadable, wasActive)
    BY <1>1 DEF Trails
  <2>2. \A e \in stack[j].left : stack[j].listed /\ e \in wasActive' /\ From[e] = stack[j].node
    BY <2>1 DEF OnTrail
  <2> QED BY <2>1, <2>2, StillOnTrail
<1>4. Trails'
  BY <1>3 DEF Trails
<1> QED BY <1>2, <1>4

\* The way on over an edge that leads to a node not seen yet.
LEMMA WayOn ==
  ASSUME QueryTypeOK, Trails, stack # <<>>, NEW e \in stack[Len(stack)].left,
         To[e] \in readable, To[e] \notin stack[Len(stack)].seen,
         NEW q, q = [start |-> stack[1].node, path |-> Append(stack[Len(stack)].path, e)]
  PROVE  /\ q \in Candidate /\ Longer(q, Way(stack[1].node, stack[Len(stack)]), e)
         /\ Len(stack[Len(stack)].path) = Len(stack) - 1 /\ Len(q.path) = Len(stack)
         /\ Trail(q, wasReadable, wasActive) /\ EndOf(q) = To[e] /\ NodeAt(q, Len(stack)) = To[e]
         /\ \A m : m \in stack[Len(stack)].seen <=> \E i \in 0..(Len(stack) - 1) : m = NodeAt(q, i)
<1> DEFINE n == Len(stack)
           p == Way(stack[1].node, stack[n])
<1>1. n \in Nat \ {0} /\ stack[n] \in Frame
  BY TopIs
<1>2. e \in GraphEdge
  BY <1>1 DEF Frame
<1>3. p \in Candidate /\ p.path = stack[n].path /\ p.start = stack[1].node
  BY <1>2, Deeper DEF Way
<1>4. OnTrail(stack[n], n, stack[1].node, ask.most, wasReadable, wasActive)
  BY <1>1 DEF Trails
<1>5. /\ Len(p.path) = n - 1 /\ Trail(p, wasReadable, wasActive) /\ stack[n].node = NodeAt(p, n - 1)
      /\ stack[n].seen = {NodeAt(p, i) : i \in 0..(n - 1)}
      /\ e \in wasActive /\ From[e] = stack[n].node
  BY <1>3, <1>4 DEF OnTrail
<1>6. q \in Candidate /\ Longer(q, p, e)
  <2>1. q = [start |-> p.start, path |-> Append(p.path, e)]
    BY <1>3
  <2> HIDE DEF p
  <2> QED BY <1>2, <1>3, <2>1, LongerIs
<1> HIDE DEF p
<1>7. /\ From[e] = NodeAt(p, Len(p.path)) /\ To[e] \in wasReadable
      /\ \A i \in 0..Len(p.path) : NodeAt(p, i) # To[e]
  BY <1>5 DEF QueryTypeOK
<1>8. /\ Trail(q, wasReadable, wasActive) /\ EndOf(q) = To[e] /\ NodeAt(q, Len(p.path) + 1) = To[e]
      /\ \A i \in 0..Len(p.path) : NodeAt(q, i) = NodeAt(p, i)
  <2>1. /\ Trail(p, wasReadable, wasActive) /\ e \in wasActive /\ p \in Candidate
        /\ Longer(q, p, e)
    BY <1>3, <1>5, <1>6
  <2> HIDE DEF n
  <2> QED BY ONLY <1>7, <2>1, TrailLonger
<1>9. Len(p.path) + 1 = n /\ Len(q.path) = n
  BY <1>1, <1>5, <1>6 DEF Longer
<1>10. \A m : m \in stack[n].seen <=> \E i \in 0..(n - 1) : m = NodeAt(q, i)
  <2> HIDE DEF n
  <2> QED BY <1>5, <1>8
<1> QED BY <1>3, <1>5, <1>6, <1>8, <1>9, <1>10 DEF p

LEMMA RowsStay ==
  ASSUME QueryTypeOK, [QueryNext]_queryVars
  PROVE  wasReadable \subseteq wasReadable' /\ wasActive \subseteq wasActive' /\ ask' = ask
<1>1. CASE Mutate
  BY <1>1, MutateStep DEF Mutate
<1>2. CASE UNCHANGED <<rowVars, ask>>
  BY <1>2 DEF rowVars
<1>3. CASE QueryNext
  BY <1>1, <1>2, <1>3 DEF QueryNext, Search, GetRow, Find, GetFrom, Hop, Root, ListOutgoingEdges,
     Follow, Return, Answer
<1>4. CASE UNCHANGED queryVars
  BY <1>2, <1>4 DEF queryVars, rowVars
<1> QED BY <1>3, <1>4

\* The steps that call, list and return, and those that do not.
LEMMA CallSteps ==
  ASSUME [QueryNext]_queryVars
  PROVE  Root \/ ListOutgoingEdges \/ Follow \/ Return \/ UNCHANGED stack
  BY DEF QueryNext, queryVars, Search, GetRow, Find, GetFrom, Hop, Answer, Mutate

LEMMA TrailsKept == ASSUME GInv, [QueryNext]_queryVars PROVE Trails'
<1>0. QueryTypeOK /\ Stations /\ Seen /\ Trails
  BY DEF GInv
<1>1. wasReadable \subseteq wasReadable' /\ wasActive \subseteq wasActive' /\ ask' = ask
  BY <1>0, RowsStay
<1> DEFINE Kept(call, j) == OnTrail(call, j, stack[1].node, ask.most, wasReadable', wasActive')
           n == Len(stack)
<1>2. ASSUME NEW j \in 1..n, NEW next, next.path = stack[j].path, next.node = stack[j].node,
             next.seen = stack[j].seen,
             \A e \in next.left : next.listed /\ e \in wasActive' /\ From[e] = stack[j].node
      PROVE  Kept(next, j)
  <2>1. OnTrail(stack[j], j, stack[1].node, ask.most, wasReadable, wasActive)
    BY <1>0 DEF Trails
  <2> QED BY <1>1, <1>2, <2>1, StillOnTrail
<1>3. \A j \in 1..n : Kept(stack[j], j)
  <2>1. ASSUME NEW j \in 1..n
        PROVE  \A e \in stack[j].left : stack[j].listed /\ e \in wasActive' /\ From[e] = stack[j].node
    BY <1>0, <1>1 DEF Trails, OnTrail
  <2> HIDE DEF Kept, n
  <2> QED BY <1>2, <2>1
<1>4. CASE Root
  <2>1. PICK m \in roots : Len(stack') = 1 /\ stack'[1] = Call(m, <<>>, {m})
    BY <1>0, <1>4, RootStep
  <2>2. m \in Starts /\ m \in wasReadable'
    BY <1>0, <1>1 DEF Seen
  <2>3. Way(m, Call(m, <<>>, {m})) = [start |-> m, path |-> <<>>]
    BY DEF Way, Call
  <2>4. Trail([start |-> m, path |-> <<>>], wasReadable', wasActive') /\ NodeAt([start |-> m, path |-> <<>>], 0) = m
    BY <2>2 DEF Trail, NodeAt
  <2>5. 1 <= ask.most
    BY <1>4, GraphAssumption, <1>0 DEF Root, QueryTypeOK
  <2>6. OnTrail(Call(m, <<>>, {m}), 1, m, ask.most, wasReadable', wasActive')
    <3> DEFINE x == Call(m, <<>>, {m})
               p == [start |-> m, path |-> <<>>]
    <3>1. x.path = <<>> /\ x.node = m /\ x.seen = {m} /\ x.left = {} /\ Len(x.path) = 0
      BY DEF Call
    <3>2. Way(m, x) = p /\ 1 - 1 = 0 /\ 0..0 = {0}
      BY <2>3
    <3>3. Trail(p, wasReadable', wasActive') /\ NodeAt(p, 0) = m
      BY <2>4
    <3> HIDE DEF x, p
    <3>4. {NodeAt(p, i) : i \in {0}} = {m}
      BY <3>3
    <3>5. OnTrail(x, 1, m, ask.most, wasReadable', wasActive')
      BY <2>5, <3>1, <3>2, <3>3, <3>4 DEF OnTrail
    <3> QED BY <3>5 DEF x
  <2>7. Call(m, <<>>, {m}).node = m
    BY DEF Call
  <2> QED BY <1>1, <2>1, <2>6, <2>7 DEF Trails
<1>5. CASE ListOutgoingEdges
  <2>1. /\ Len(stack') = n /\ n \in Nat \ {0}
        /\ \A i \in 1..(n - 1) : stack'[i] = stack[i]
        /\ stack'[n].path = stack[n].path /\ stack'[n].seen = stack[n].seen /\ stack'[n].node = stack[n].node
        /\ stack'[n].listed /\ stack'[n].left = {e \in active : From[e] = stack[n].node}
    BY <1>0, <1>5, ListStep
  <2>2. stack'[1].node = stack[1].node
    BY <1>0, <1>5, FirstCall DEF ListOutgoingEdges
  <2>3. Kept(stack'[n], n)
    <3>1. \A e \in stack'[n].left : e \in wasActive' /\ From[e] = stack[n].node
      BY <1>0, <1>1, <2>1 DEF QueryTypeOK
    <3> HIDE DEF Kept
    <3> QED BY <1>2, <2>1, <3>1
  <2>4. \A j \in 1..n : Kept(stack'[j], j)
    <3>1. \A j \in 1..n : j = n \/ j \in 1..(n - 1)
      BY <2>1
    <3> HIDE DEF Kept, n
    <3> QED BY <1>3, <2>1, <2>3, <3>1
  <2> QED BY <1>1, <2>1, <2>2, <2>4 DEF Trails
<1>6. CASE Follow
  <2>1. /\ n \in Nat \ {0} /\ stack # <<>>
        /\ \A i \in 1..(n - 1) : stack'[i] = stack[i]
        /\ stack'[n].path = stack[n].path /\ stack'[n].seen = stack[n].seen /\ stack'[n].node = stack[n].node
        /\ stack'[n].listed = stack[n].listed
    BY <1>0, <1>6, FollowStep
  <2>2. PICK e \in stack[n].left :
          /\ e \in GraphEdge /\ stack'[n].left = stack[n].left \ {e}
          /\ Descends(e) \/ Len(stack') = n
    BY <1>0, <1>6, FollowStep
  <2>3. stack'[1].node = stack[1].node
    BY <1>0, <1>6, FirstCall DEF Follow
  <2>4. OnTrail(stack[n], n, stack[1].node, ask.most, wasReadable, wasActive)
    BY <1>0, <2>1 DEF Trails
  <2>5. \A j \in 1..n : Kept(stack'[j], j)
    <3>1. \A j \in 1..n : j = n \/ j \in 1..(n - 1)
      BY <2>1
    <3>2. \A d \in stack'[n].left : stack'[n].listed /\ d \in wasActive' /\ From[d] = stack[n].node
      BY <1>1, <2>1, <2>2, <2>4 DEF OnTrail
    <3> HIDE DEF Kept
    <3>3. Kept(stack'[n], n)
      BY <1>2, <2>1, <3>2
    <3> HIDE DEF n
    <3> QED BY <1>3, <2>1, <3>1, <3>3
  <2>6. CASE Len(stack') = n
    BY <1>1, <2>3, <2>5, <2>6 DEF Trails
  <2>7. CASE Descends(e) /\ Len(stack') # n
    <3> DEFINE route == Append(stack[n].path, e)
               q == [start |-> stack[1].node, path |-> route]
    <3>1. /\ Len(stack') = n + 1 /\ Len(route) < ask.most
          /\ stack'[n + 1] = Call(To[e], route, stack[n].seen \cup {To[e]})
          /\ To[e] \in readable /\ To[e] \notin stack[n].seen
      BY <2>7 DEF Descends
    <3>2. /\ q \in Candidate /\ Len(q.path) = n /\ Trail(q, wasReadable, wasActive)
          /\ NodeAt(q, n) = To[e] /\ \A m : m \in stack[n].seen <=> \E i \in 0..(n - 1) : m = NodeAt(q, i)
      <4>1. q = [start |-> stack[1].node, path |-> Append(stack[Len(stack)].path, e)]
        OBVIOUS
      <4> HIDE DEF q
      <4>2. /\ QueryTypeOK /\ Trails /\ stack # <<>> /\ e \in stack[Len(stack)].left
            /\ To[e] \in readable /\ To[e] \notin stack[Len(stack)].seen
        BY <1>0, <2>1, <3>1
      <4>3. /\ q \in Candidate /\ Len(q.path) = Len(stack) /\ Trail(q, wasReadable, wasActive)
            /\ NodeAt(q, Len(stack)) = To[e]
        BY <4>1, <4>2, WayOn
      <4>4. \A m : m \in stack[Len(stack)].seen <=> \E i \in 0..(Len(stack) - 1) : m = NodeAt(q, i)
        BY <4>1, <4>2, WayOn
      <4> QED BY <4>3, <4>4
    <3>3. Trail(q, wasReadable', wasActive')
      BY <1>1, <3>2, TrailMore
    <3>4. q = Way(stack[1].node, stack'[n + 1])
      BY <3>1 DEF Way, Call
    <3>5. q.path = route
      OBVIOUS
    <3> HIDE DEF q
    <3>7. /\ stack'[n + 1].path = route /\ stack'[n + 1].node = To[e]
          /\ stack'[n + 1].seen = stack[n].seen \cup {To[e]} /\ stack'[n + 1].left = {}
      BY <3>1 DEF Call
    <3>9. stack'[n + 1].seen = {NodeAt(q, i) : i \in 0..n}
      <4>1. \A i \in 0..n : i \in 0..(n - 1) \/ i = n
        BY <2>1
      <4>2. 0..(n - 1) \subseteq 0..n /\ n \in 0..n
        BY <2>1
      <4> HIDE DEF n
      <4> QED BY <3>2, <3>7, <4>1, <4>2
    <3>10. Kept(stack'[n + 1], n + 1)
      <4>1. n + 1 - 1 = n /\ n + 1 <= ask.most
        <5>1. ask.most \in Nat /\ Len(route) = n
          BY <1>0, GraphAssumption, <3>2, <3>5 DEF QueryTypeOK
        <5> HIDE DEF route
        <5> QED BY <2>1, <3>1, <5>1
      <4> DEFINE k == n + 1
                 x == stack'[n + 1]
      <4>2. k - 1 = n /\ k <= ask.most /\ Way(stack[1].node, x) = q /\ Len(x.path) = n
        <5>1. Way(stack[1].node, x) = q /\ x.path = q.path
          BY <3>4, <3>5, <3>7
        <5> HIDE DEF x, n
        <5> QED BY <3>2, <4>1, <5>1
      <4>3. x.node = NodeAt(q, n) /\ x.seen = {NodeAt(q, i) : i \in 0..n} /\ x.left = {}
        BY <3>2, <3>7, <3>9
      <4>4. Trail(q, wasReadable', wasActive')
        BY <3>3
      <4> HIDE DEF k, x, n
      <4>5. OnTrail(x, k, stack[1].node, ask.most, wasReadable', wasActive')
        BY <4>2, <4>3, <4>4 DEF OnTrail
      <4> QED BY <4>5 DEF k, x, n
    <3>11. \A j \in 1..(n + 1) : j \in 1..n \/ j = n + 1
      BY <2>1
    <3> HIDE DEF n, Kept
    <3>12. \A j \in 1..Len(stack') : Kept(stack'[j], j)
      BY <2>5, <3>1, <3>10, <3>11
    <3> QED BY <1>1, <2>3, <3>12 DEF Trails, Kept
  <2> QED BY <2>2, <2>6, <2>7
<1>7. CASE Return
  <2>1. Len(stack') = n - 1 /\ n \in Nat \ {0} /\ \A i \in 1..(n - 1) : stack'[i] = stack[i]
    BY <1>0, <1>7, ReturnStep
  <2>2. \A j \in 1..(n - 1) : j \in 1..n /\ 1 \in 1..(n - 1)
    BY <2>1
  <2> HIDE DEF n, Kept
  <2>3. \A j \in 1..Len(stack') : Kept(stack'[j], j) /\ stack'[1].node = stack[1].node
    BY <1>3, <2>1, <2>2
  <2> QED BY <1>1, <2>3 DEF Trails, Kept
<1>8. CASE UNCHANGED stack
  BY <1>1, <1>8, CallsRest
<1> QED BY <1>4, <1>5, <1>6, <1>7, <1>8, CallSteps

LEMMA NestedKept == ASSUME GInv, [QueryNext]_queryVars PROVE Nested'
<1>0. QueryTypeOK /\ Stations /\ Seen /\ Trails /\ Nested
  BY DEF GInv
<1>1. wasReadable \subseteq wasReadable' /\ wasActive \subseteq wasActive' /\ ask' = ask
  BY <1>0, RowsStay
<1> DEFINE n == Len(stack)
           Done(caller, call, j) ==
              /\ caller.listed /\ call.path[j] \notin caller.left
              /\ \A i \in 1..(j - 1) : call.path[i] = caller.path[i]
<1>2. \A k \in 1..n : \A j \in 1..(k - 1) : Done(stack[j], stack[k], j)
  BY <1>0 DEF Nested
<1>3. CASE Root
  <2>1. Len(stack') = 1
    BY <1>0, <1>3, RootStep
  <2> QED BY <2>1 DEF Nested
<1>4. CASE ListOutgoingEdges
  <2>1. /\ Len(stack') = n /\ n \in Nat \ {0}
        /\ \A i \in 1..(n - 1) : stack'[i] = stack[i]
        /\ \A i \in 1..n : stack'[i].path = stack[i].path
    BY <1>0, <1>4, ListStep
  <2>2. \A k \in 1..n : \A j \in 1..(k - 1) : j \in 1..(n - 1)
    BY <2>1
  <2> HIDE DEF n
  <2> QED BY <1>2, <2>1, <2>2 DEF Nested
<1>5. CASE Follow
  <2>1. /\ n \in Nat \ {0} /\ stack # <<>>
        /\ \A i \in 1..(n - 1) : stack'[i] = stack[i]
        /\ \A i \in 1..n : stack'[i].path = stack[i].path
        /\ stack'[n].listed = stack[n].listed
    BY <1>0, <1>5, FollowStep
  <2>2. PICK e \in stack[n].left :
          /\ e \in GraphEdge /\ stack'[n].left = stack[n].left \ {e}
          /\ Descends(e) \/ Len(stack') = n
    BY <1>0, <1>5, FollowStep
  <2>3. \A k \in 1..n : \A j \in 1..(k - 1) : Done(stack'[j], stack'[k], j)
    <3>1. \A k \in 1..n : \A j \in 1..(k - 1) : j \in 1..(n - 1)
      BY <2>1
    <3> HIDE DEF n
    <3> QED BY <1>2, <2>1, <3>1
  <2>4. CASE Len(stack') = n
    BY <2>3, <2>4 DEF Nested
  <2>5. CASE Descends(e) /\ Len(stack') # n
    <3> DEFINE route == Append(stack[n].path, e)
    <3>1. Len(stack') = n + 1 /\ stack'[n + 1] = Call(To[e], route, stack[n].seen \cup {To[e]})
      BY <2>5 DEF Descends
    <3>2. stack'[n + 1].path = route
      BY <3>1 DEF Call
    <3>3. Len(stack[n].path) = n - 1 /\ stack[n].listed
      BY <1>0, <2>1, <2>2 DEF Trails, OnTrail
    <3>4. route[n] = e /\ \A i \in 1..(n - 1) : route[i] = stack[n].path[i]
      <4>1. stack[n].path \in Seq(GraphEdge)
        BY <1>0, <2>1, TopIs DEF Frame
      <4>2. route[Len(stack[n].path) + 1] = e /\ \A i \in 1..Len(stack[n].path) : route[i] = stack[n].path[i]
        BY <2>2, <4>1, Added
      <4>3. n - 1 + 1 = n
        BY <2>1
      <4> HIDE DEF n, route
      <4> QED BY <3>3, <4>2, <4>3
    <3>5. Done(stack'[n], stack'[n + 1], n)
      <4>1. n \in 1..n /\ 1..(n - 1) \subseteq 1..n
        BY <2>1
      <4>2. stack'[n].listed /\ e \notin stack'[n].left /\ stack'[n].path = stack[n].path
        BY <2>1, <2>2, <3>3, <4>1
      <4>3. stack'[n + 1].path[n] = e /\ \A i \in 1..(n - 1) : stack'[n + 1].path[i] = stack'[n].path[i]
        <5> HIDE DEF n, route
        <5> QED BY <3>2, <3>4, <4>2
      <4> HIDE DEF n, route
      <4> QED BY <4>2, <4>3
    <3>6. ASSUME NEW j \in 1..(n - 1) PROVE Done(stack'[j], stack'[n + 1], j)
      <4>1. Done(stack[j], stack[n], j)
        <5>1. n \in 1..n
          BY <2>1
        <5> HIDE DEF n, Done
        <5> QED BY <1>2, <5>1
      <4>2. j \in 1..(n - 1) /\ \A i \in 1..(j - 1) : i \in 1..(n - 1)
        BY <2>1
      <4> HIDE DEF n, route
      <4> QED BY <2>1, <3>2, <3>4, <4>1, <4>2
    <3>7. \A k \in 1..(n + 1) : k \in 1..n \/ k = n + 1
      BY <2>1
    <3>8. \A j \in 1..(n + 1 - 1) : j \in 1..(n - 1) \/ j = n
      BY <2>1
    <3> HIDE DEF n, Done, route
    <3>9. \A k \in 1..Len(stack') : \A j \in 1..(k - 1) : Done(stack'[j], stack'[k], j)
      <4> SUFFICES ASSUME NEW k \in 1..(n + 1), NEW j \in 1..(k - 1)
                   PROVE  Done(stack'[j], stack'[k], j)
        BY <3>1
      <4>1. CASE k \in 1..n
        BY <2>3, <4>1
      <4>2. CASE k = n + 1
        <5>1. j \in 1..(n - 1) \/ j = n
          BY <2>1, <4>2
        <5> QED BY <3>5, <3>6, <4>2, <5>1
      <4> QED BY <3>7, <4>1, <4>2
    <3> QED BY <3>9 DEF Nested, Done
  <2> QED BY <2>2, <2>4, <2>5
<1>6. CASE Return
  <2>1. Len(stack') = n - 1 /\ n \in Nat \ {0} /\ \A i \in 1..(n - 1) : stack'[i] = stack[i]
    BY <1>0, <1>6, ReturnStep
  <2>2. \A k \in 1..(n - 1) : k \in 1..n /\ \A j \in 1..(k - 1) : j \in 1..(n - 1)
    BY <2>1
  <2> HIDE DEF n
  <2> QED BY <1>2, <2>1, <2>2 DEF Nested
<1>7. CASE UNCHANGED stack
  BY <1>1, <1>7, CallsRest
<1> QED BY <1>3, <1>4, <1>5, <1>6, <1>7, CallSteps

-----------------------------------------------------------------------------
LEMMA SoundStep ==
  ASSUME GInv, [QueryNext]_queryVars,
         \A i \in 1..Len(found') :
            \/ i \in 1..Len(found) /\ found'[i] = found[i]
            \/ IsMatch(found'[i], wasReadable, wasActive)
  PROVE  Sound'
<1>1. wasReadable \subseteq wasReadable' /\ wasActive \subseteq wasActive' /\ ask' = ask
  BY RowsStay DEF GInv
<1>2. \A i \in 1..Len(found') : IsMatch(found'[i], wasReadable, wasActive)
  BY DEF GInv, Sound
<1>3. \A i \in 1..Len(found') : IsMatch(found'[i], wasReadable', wasActive')
  BY <1>1, <1>2, MatchesMore
<1> QED BY <1>1, <1>3 DEF Sound, IsMatch

LEMMA AskIs ==
  ASSUME QueryTypeOK
  PROVE  /\ ask.least \in Nat /\ ask.most \in Nat /\ ask.limit \in Nat
         /\ IF ask.most = 0 THEN ask.least = 0 ELSE ask.least \in 1..ask.most
  BY GraphAssumption DEF QueryTypeOK

LEMMA SoundKept == ASSUME GInv, [QueryNext]_queryVars PROVE Sound'
<1>0. QueryTypeOK /\ Stations /\ Seen /\ Trails
  BY DEF GInv
<1>1. CASE UNCHANGED found
  BY <1>1, SoundStep
<1>2. ASSUME NEW p \in Candidate, found' = Append(found, p), IsMatch(p, wasReadable, wasActive) PROVE Sound'
  <2>1. /\ Len(found') = Len(found) + 1 /\ Len(found) \in Nat
        /\ found'[Len(found) + 1] = p /\ \A i \in 1..Len(found) : found'[i] = found[i]
    BY <1>0, <1>2, FoundMore
  <2> QED BY <1>2, <2>1, SoundStep
<1>3. CASE Find
  <2>1. PICK n \in roots : /\ [start |-> n, path |-> <<>>] \in Candidate /\ Len(<<>>) = 0
                           /\ found' = Append(found, [start |-> n, path |-> <<>>])
    BY <1>0, <1>3, FindFound
  <2> DEFINE p == [start |-> n, path |-> <<>>]
  <2>2. p.start = n /\ p.path = <<>> /\ Len(p.path) = 0
    BY <2>1
  <2>3. n \in Starts /\ n \in wasReadable /\ ask.most = 0 /\ ask.least = 0
    BY <1>0, <1>3, AskIs DEF Seen, Find
  <2> HIDE DEF p
  <2>4. IsMatch(p, wasReadable, wasActive)
    BY <2>2, <2>3 DEF IsMatch, NodeAt
  <2> QED BY <1>2, <2>1, <2>4 DEF p
<1>4. CASE Hop
  <2>1. PICK e \in First(hops, EdgePlace) :
          /\ e \in GraphEdge /\ [start |-> From[e], path |-> <<e>>] \in Candidate
          /\ Len(<<e>>) = 1 /\ <<e>>[1] = e
          /\ IF From[e] \in Starts /\ To[e] \in Targets /\ near = "yes" /\ To[e] \in readable
             THEN found' = Append(found, [start |-> From[e], path |-> <<e>>]) ELSE found' = found
    BY <1>0, <1>4, HopFound
  <2> DEFINE p == [start |-> From[e], path |-> <<e>>]
  <2>2. CASE From[e] \in Starts /\ To[e] \in Targets /\ near = "yes" /\ To[e] \in readable
    <3>1. p.start = From[e] /\ p.path = <<e>> /\ Len(p.path) = 1 /\ p.path[1] = e
      BY <2>1
    <3>2. ask.most = 1 /\ ask.least = 1
      BY <1>0, <1>4, AskIs DEF Stations, Hop
    <3>3. From[e] \in wasReadable /\ To[e] \in wasReadable /\ e \in wasActive
      BY <1>0, <2>1, <2>2, SomeFirst DEF Seen, QueryTypeOK
    <3> HIDE DEF p
    <3>4. NodeAt(p, 0) = From[e] /\ NodeAt(p, 1) = To[e]
      BY <3>1 DEF NodeAt
    <3>5. EndOf(p) = To[e]
      <4>1. p.path # <<>>
        BY <3>1
      <4> QED BY <3>1, <4>1 DEF EndOf
    <3>6. IsMatch(p, wasReadable, wasActive)
      <4>1. \A i \in 0..Len(p.path) : i = 0 \/ i = 1
        BY <3>1
      <4>2. \A i \in 1..Len(p.path) : i = 1 /\ i - 1 = 0
        BY <3>1
      <4>3. p.start \in Starts /\ Len(p.path) \in ask.least..ask.most
        BY <2>2, <3>1, <3>2
      <4>4. \A i \in 0..Len(p.path) : NodeAt(p, i) \in wasReadable
        BY <3>3, <3>4, <4>1
      <4>5. \A i \in 1..Len(p.path) : p.path[i] \in wasActive /\ From[p.path[i]] = NodeAt(p, i - 1)
        <5> SUFFICES ASSUME NEW i \in 1..Len(p.path)
                     PROVE  p.path[i] \in wasActive /\ From[p.path[i]] = NodeAt(p, i - 1)
          OBVIOUS
        <5>1. i = 1 /\ i - 1 = 0
          BY <4>2
        <5> QED BY <3>1, <3>3, <3>4, <5>1
      <4> QED BY <2>2, <3>2, <3>5, <4>3, <4>4, <4>5 DEF IsMatch
    <3> QED BY <1>2, <2>1, <2>2, <3>6 DEF p
  <2>3. CASE found' = found
    BY <1>1, <2>3
  <2> QED BY <2>1, <2>2, <2>3
<1>5. CASE Follow
  <2> DEFINE n == Len(stack)
  <2>1. PICK e \in stack[n].left : e \in GraphEdge /\ (Descends(e) \/ found' = found)
    BY <1>0, <1>5, FollowStep
  <2> DEFINE p == [start |-> stack[1].node, path |-> Append(stack[n].path, e)]
  <2>2. CASE Descends(e) /\ found' # found
    <3>1. /\ To[e] \in readable /\ To[e] \notin stack[n].seen /\ Len(p.path) >= ask.least
          /\ To[e] \in Targets /\ found' = Append(found, p)
      BY <2>2 DEF Descends
    <3>2. stack # <<>> /\ n \in Nat \ {0}
      BY <1>0, <1>5, TopIs DEF Follow
    <3>3. p = [start |-> stack[1].node, path |-> Append(stack[Len(stack)].path, e)]
      OBVIOUS
    <3> HIDE DEF p
    <3>4. p \in Candidate /\ Len(p.path) = n /\ Trail(p, wasReadable, wasActive) /\ EndOf(p) = To[e]
      BY <1>0, <3>1, <3>2, <3>3, WayOn
    <3>5. n <= ask.most
      BY <1>0, <3>2 DEF Trails, OnTrail
    <3>6. Len(p.path) \in ask.least..ask.most
      BY <1>0, <3>1, <3>2, <3>4, <3>5, AskIs
    <3>7. IsMatch(p, wasReadable, wasActive)
      BY <3>1, <3>4, <3>6, TrailMatches
    <3> QED BY <1>2, <3>1, <3>4, <3>7
  <2>3. CASE found' = found
    BY <1>1, <2>3
  <2> QED BY <2>1, <2>2, <2>3
<1> QED BY <1>1, <1>3, <1>4, <1>5 DEF QueryNext, queryVars, Search, GetRow, GetFrom, Root,
           ListOutgoingEdges, Return, Answer, Mutate

-----------------------------------------------------------------------------
\* What is not to come does not come to be.
LEMMA FutureShrinks ==
  ASSUME GInv, [QueryNext]_queryVars, NEW p \in Candidate, Later(p)
  PROVE  Future(p)
<1>0. QueryTypeOK /\ Stations /\ Seen /\ Trails
  BY DEF GInv
<1> DEFINE n == Len(stack)
<1>1. CASE Search
  BY <1>1 DEF Search, Future, FutureOf, Later
<1>2. CASE GetRow
  <2>1. ids' \cup roots' \subseteq ids \cup roots /\ phase' = phase /\ hops' = hops /\ stack' = stack
    BY <1>2, SomeFirst DEF GetRow
  <2> QED BY <2>1 DEF Future, FutureOf, Later, Ahead
<1>3. CASE Find
  <2>1. ids' \cup roots' \subseteq ids \cup roots /\ phase' = phase /\ hops' = hops /\ stack' = stack
    BY <1>3 DEF Find
  <2> QED BY <2>1 DEF Future, FutureOf, Later, Ahead
<1>4. CASE Hop
  <2>1. ids' \cup roots' \subseteq ids \cup roots /\ phase' = phase /\ hops' \subseteq hops /\ stack' = stack
    BY <1>4 DEF Hop
  <2> QED BY <2>1 DEF Future, FutureOf, Later, Ahead
<1>5. CASE Root
  <2>1. PICK m \in roots : Len(stack') = 1 /\ stack'[1] = Call(m, <<>>, {m}) /\ roots' = roots \ {m}
    BY <1>0, <1>5, RootStep
  <2>2. stack'[1].node = m /\ ids' = ids /\ hops' = hops /\ phase' = phase
    BY <1>5, <2>1 DEF Root, Call
  <2>3. ASSUME NEW j \in 1..Len(stack'), Ahead(p, j, stack'[1].node, stack'[j]) PROVE p.start \in roots
    BY <2>1, <2>2, <2>3 DEF Ahead
  <2> QED BY <2>1, <2>2, <2>3 DEF Future, FutureOf, Later
<1>6. CASE ListOutgoingEdges
  <2>1. /\ Len(stack') = n /\ n \in Nat \ {0} /\ ~stack[n].listed
        /\ \A i \in 1..(n - 1) : stack'[i] = stack[i]
        /\ stack'[n].path = stack[n].path
    BY <1>0, <1>6, ListStep
  <2>2. stack'[1].node = stack[1].node /\ UNCHANGED <<ids, roots, hops, phase>>
    BY <1>0, <1>6, FirstCall DEF ListOutgoingEdges
  <2>3. ASSUME NEW j \in 1..Len(stack'), Ahead(p, j, stack'[1].node, stack'[j])
        PROVE  Ahead(p, j, stack[1].node, stack[j]) /\ j \in 1..n
    <3>1. CASE j \in 1..(n - 1)
      BY <2>1, <2>2, <2>3, <3>1 DEF Ahead
    <3>2. CASE j = n
      BY <2>1, <2>2, <2>3, <3>2 DEF Ahead
    <3> QED BY <2>1, <3>1, <3>2
  <2> QED BY <2>2, <2>3 DEF Future, FutureOf, Later
<1>7. CASE Follow
  <2>1. /\ n \in Nat \ {0} /\ stack # <<>> /\ stack[n] \in Frame
        /\ \A i \in 1..(n - 1) : stack'[i] = stack[i]
        /\ stack'[n].path = stack[n].path /\ stack'[n].listed = stack[n].listed
    BY <1>0, <1>7, FollowStep, TopIs
  <2>2. PICK e \in stack[n].left :
          /\ e \in GraphEdge /\ stack'[n].left = stack[n].left \ {e}
          /\ Descends(e) \/ Len(stack') = n
    BY <1>0, <1>7, FollowStep
  <2>3. stack'[1].node = stack[1].node /\ UNCHANGED <<ids, roots, hops, phase>>
    BY <1>0, <1>7, FirstCall DEF Follow
  <2>4. ASSUME NEW j \in 1..n, Ahead(p, j, stack'[1].node, stack'[j])
        PROVE  Ahead(p, j, stack[1].node, stack[j])
    <3>1. CASE j \in 1..(n - 1)
      BY <2>1, <2>3, <2>4, <3>1 DEF Ahead
    <3>2. CASE j = n
      BY <2>1, <2>2, <2>3, <2>4, <3>2 DEF Ahead
    <3> QED BY <2>1, <3>1, <3>2
  <2>5. ASSUME Descends(e), Len(stack') = n + 1, Ahead(p, n + 1, stack'[1].node, stack'[n + 1])
        PROVE  Ahead(p, n, stack[1].node, stack[n])
    <3> DEFINE route == Append(stack[n].path, e)
    <3>1. stack'[n + 1].path = route
      BY <2>1, <2>5 DEF Descends, Call
    <3>2. Len(stack[n].path) = n - 1 /\ stack[n].path \in Seq(GraphEdge)
      BY <1>0, <2>1 DEF Trails, OnTrail, Frame
    <3>3. route[n] = e /\ \A i \in 1..(n - 1) : route[i] = stack[n].path[i]
      <4>1. /\ route[Len(stack[n].path) + 1] = e
            /\ \A i \in 1..Len(stack[n].path) : route[i] = stack[n].path[i]
        BY <2>2, <3>2, Added
      <4>2. Len(stack[n].path) + 1 = n
        BY <2>1, <3>2
      <4> HIDE DEF route
      <4> QED BY <3>2, <4>1, <4>2
    <3>4. /\ p.start = stack'[1].node /\ n + 1 <= Len(p.path)
          /\ \A i \in 1..(n + 1 - 1) : p.path[i] = stack'[n + 1].path[i]
      BY <2>5 DEF Ahead
    <3>5. /\ n <= Len(p.path) /\ n \in 1..(n + 1 - 1) /\ \A i \in 1..(n - 1) : i \in 1..(n + 1 - 1)
      BY <2>1, <3>4 DEF Candidate
    <3> HIDE DEF route, n
    <3>6. p.path[n] = e /\ \A i \in 1..(n - 1) : p.path[i] = stack[n].path[i]
      BY <3>1, <3>3, <3>4, <3>5
    <3> QED BY <2>2, <2>3, <3>4, <3>5, <3>6 DEF Ahead
  <2>6. ASSUME NEW j \in 1..Len(stack'), Ahead(p, j, stack'[1].node, stack'[j])
        PROVE  \E k \in 1..n : Ahead(p, k, stack[1].node, stack[k])
    <3>1. CASE Len(stack') = n
      BY <2>4, <2>6, <3>1
    <3>2. CASE Descends(e) /\ Len(stack') # n
      <4>1. Len(stack') = n + 1
        BY <3>2 DEF Descends
      <4>2. j \in 1..n \/ j = n + 1
        BY <2>1, <4>1
      <4>3. n \in 1..n
        BY <2>1
      <4> HIDE DEF n
      <4> QED BY <2>4, <2>5, <2>6, <3>2, <4>1, <4>2, <4>3
    <3> QED BY <2>2, <3>1, <3>2
  <2> QED BY <2>3, <2>6 DEF Future, FutureOf, Later
<1>8. CASE Return
  <2>1. Len(stack') = n - 1 /\ n \in Nat \ {0} /\ \A i \in 1..(n - 1) : stack'[i] = stack[i]
    BY <1>0, <1>8, ReturnStep
  <2>2. UNCHANGED <<ids, roots, hops, phase>>
    BY <1>8 DEF Return
  <2>3. ASSUME NEW j \in 1..Len(stack'), Ahead(p, j, stack'[1].node, stack'[j])
        PROVE  Ahead(p, j, stack[1].node, stack[j]) /\ j \in 1..n
    <3>1. j \in 1..(n - 1) /\ 1 \in 1..(n - 1) /\ j \in 1..n
      BY <2>1
    <3> HIDE DEF n
    <3> QED BY <2>1, <2>3, <3>1 DEF Ahead
  <2> QED BY <2>2, <2>3 DEF Future, FutureOf, Later
<1>9. CASE GetFrom \/ Mutate \/ UNCHANGED queryVars
  <2>1. UNCHANGED <<ids, roots, hops, phase, stack>>
    BY <1>9 DEF GetFrom, Mutate, queryVars
  <2> QED BY <2>1 DEF Future, FutureOf, Later, Ahead
<1>10. CASE Answer
  <2>1. UNCHANGED <<ids, roots, hops, stack>> /\ phase' # "search"
    BY <1>10 DEF Answer
  <2> QED BY <2>1 DEF Future, FutureOf, Later, Ahead
<1> QED BY <1>1, <1>2, <1>3, <1>4, <1>5, <1>6, <1>7, <1>8, <1>9, <1>10 DEF QueryNext

LEMMA NewFound ==
  ASSUME GInv, [QueryNext]_queryVars, NEW p \in Candidate, found' = Append(found, p),
         Future(p), ~Later(p)
  PROVE  Unrepeated'
<1>0. QueryTypeOK /\ Unrepeated
  BY DEF GInv
<1>1. /\ Len(found') = Len(found) + 1 /\ Len(found) \in Nat
      /\ found'[Len(found) + 1] = p /\ \A i \in 1..Len(found) : found'[i] = found[i]
  BY <1>0, FoundMore
<1>2. \A i \in 1..Len(found) : found[i] \in Candidate /\ found[i] # p
  BY <1>0 DEF QueryTypeOK, Unrepeated
<1>3. \A i \in 1..Len(found) : ~Later(found'[i])
  <2> SUFFICES ASSUME NEW i \in 1..Len(found), NEW q \in Candidate, q = found[i] PROVE ~Later(q)
    BY <1>1, <1>2
  <2> QED BY FutureShrinks DEF GInv, Unrepeated
<1>4. \A i \in 1..Len(found') : i \in 1..Len(found) \/ i = Len(found) + 1
  BY <1>1
<1> QED BY <1>0, <1>1, <1>2, <1>3, <1>4 DEF Unrepeated, Future, Later

LEMMA UnrepeatedKept == ASSUME GInv, [QueryNext]_queryVars PROVE Unrepeated'
<1>0. QueryTypeOK /\ Stations /\ Seen /\ Trails /\ Nested /\ Unrepeated
  BY DEF GInv
<1>1. CASE UNCHANGED found
  <2> SUFFICES ASSUME NEW i \in 1..Len(found), NEW q \in Candidate, q = found[i] PROVE ~Later(q)
    BY <1>0, <1>1 DEF Unrepeated, QueryTypeOK, Future, Later
  <2> QED BY FutureShrinks DEF GInv, Unrepeated
<1>3. CASE Find
  <2>1. PICK n \in roots : /\ [start |-> n, path |-> <<>>] \in Candidate /\ Len(<<>>) = 0
                           /\ found' = Append(found, [start |-> n, path |-> <<>>]) /\ roots' = roots \ {n}
    BY <1>0, <1>3, FindFound
  <2> DEFINE p == [start |-> n, path |-> <<>>]
  <2>2. p \in Candidate /\ p.start = n /\ Len(p.path) = 0 /\ found' = Append(found, p)
    BY <2>1
  <2> HIDE DEF p
  <2>3. Future(p)
    BY <2>1, <2>2 DEF Future, FutureOf, Later
  <2>4. ids' = {} /\ roots' = roots \ {n} /\ Len(stack') = 0 /\ phase' # "search"
    <3>1. stack = <<>> /\ stack' = stack
      BY <1>0, <1>3 DEF Find, Stations
    <3> QED BY <1>3, <2>1, <3>1 DEF Find
  <2>5. ~Later(p)
    BY <2>2, <2>4 DEF Future, FutureOf, Later
  <2> QED BY <2>2, <2>3, <2>5, NewFound
<1>4. CASE Hop
  <2>1. PICK e \in First(hops, EdgePlace) :
          /\ e \in GraphEdge /\ [start |-> From[e], path |-> <<e>>] \in Candidate
          /\ Len(<<e>>) = 1 /\ <<e>>[1] = e /\ hops' = hops \ {e}
          /\ \/ found' = Append(found, [start |-> From[e], path |-> <<e>>])
             \/ found' = found
    BY <1>0, <1>4, HopFound
  <2> DEFINE p == [start |-> From[e], path |-> <<e>>]
  <2>2. CASE found' = Append(found, p)
    <3>1. p \in Candidate /\ Len(p.path) = 1 /\ p.path[1] = e
      BY <2>1
    <3>2. e \in hops
      BY SomeFirst
    <3> HIDE DEF p
    <3>3. Future(p)
      BY <3>1, <3>2 DEF Future, FutureOf, Later
    <3>4. ids' = {} /\ roots' = {} /\ Len(stack') = 0 /\ phase' # "search"
      <4>1. stack = <<>> /\ stack' = stack
        BY <1>0, <1>4 DEF Hop, Stations
      <4> QED BY <1>0, <1>4, <4>1 DEF Hop, Stations
    <3>5. ~Later(p)
      BY <2>1, <3>1, <3>4 DEF Future, FutureOf, Later
    <3> QED BY <2>2, <3>1, <3>3, <3>5, NewFound
  <2>3. CASE found' = found
    BY <1>1, <2>3
  <2> QED BY <2>1, <2>2, <2>3
<1>5. CASE Follow
  <2> DEFINE n == Len(stack)
  <2>1. /\ n \in Nat \ {0} /\ stack # <<>> /\ stack[n] \in Frame
        /\ \A i \in 1..(n - 1) : stack'[i] = stack[i]
        /\ stack'[n].path = stack[n].path /\ stack'[n].listed = stack[n].listed
    BY <1>0, <1>5, FollowStep, TopIs
  <2>2. PICK e \in stack[n].left :
          /\ e \in GraphEdge /\ stack'[n].left = stack[n].left \ {e}
          /\ Descends(e) \/ (Len(stack') = n /\ found' = found)
    BY <1>0, <1>5, FollowStep
  <2>3. stack'[1].node = stack[1].node /\ UNCHANGED <<ids, roots, hops, phase>>
    BY <1>0, <1>5, FirstCall DEF Follow
  <2> DEFINE p == [start |-> stack[1].node, path |-> Append(stack[n].path, e)]
  <2>4. CASE Descends(e) /\ found' # found
    <3>1. /\ To[e] \in readable /\ To[e] \notin stack[n].seen /\ found' = Append(found, p)
          /\ Len(stack') \in {n, n + 1}
      BY <2>4 DEF Descends
    <3>2. p = [start |-> stack[1].node, path |-> Append(stack[Len(stack)].path, e)]
      OBVIOUS
    <3>3. p.start = stack[1].node
      OBVIOUS
    <3> HIDE DEF p
    <3>4. /\ p \in Candidate /\ Len(p.path) = n /\ Len(stack[n].path) = n - 1
          /\ Longer(p, Way(stack[1].node, stack[n]), e)
      <4>1. /\ QueryTypeOK /\ Trails /\ stack # <<>> /\ e \in stack[Len(stack)].left
            /\ To[e] \in readable /\ To[e] \notin stack[Len(stack)].seen
        BY <1>0, <2>1, <3>1
      <4> QED BY <3>2, <4>1, WayOn
    <3>5. p.path[n] = e /\ \A i \in 1..(n - 1) : p.path[i] = stack[n].path[i]
      <4>1. n - 1 + 1 = n
        BY <2>1
      <4>2. Way(stack[1].node, stack[n]).path = stack[n].path
        BY DEF Way
      <4> HIDE DEF n
      <4> QED BY <3>4, <4>1, <4>2 DEF Longer
    <3>6. stack[n].listed
      <4>1. OnTrail(stack[n], n, stack[1].node, ask.most, wasReadable, wasActive)
        BY <1>0, <2>1 DEF Trails
      <4> QED BY <2>2, <4>1 DEF OnTrail
    <3>7. Future(p)
      <4>1. Ahead(p, n, stack[1].node, stack[n]) /\ n \in 1..n
        BY <2>1, <2>2, <3>3, <3>4, <3>5 DEF Ahead
      <4> QED BY <4>1 DEF Future, FutureOf, Later
    <3>8. ASSUME NEW j \in 1..Len(stack') PROVE ~Ahead(p, j, stack'[1].node, stack'[j])
      <4>1. CASE j \in 1..(n - 1)
        <5>1. stack[j].listed /\ stack[n].path[j] \notin stack[j].left
          BY <1>0, <2>1, <4>1 DEF Nested
        <5>2. stack'[j] = stack[j] /\ p.path[j] = stack[n].path[j]
          BY <2>1, <3>5, <4>1
        <5> QED BY <5>1, <5>2 DEF Ahead
      <4>2. CASE j = n
        BY <2>1, <2>2, <3>5, <3>6, <4>2 DEF Ahead
      <4>3. CASE j = n + 1
        BY <2>1, <3>4, <4>3 DEF Ahead
      <4> QED BY <2>1, <3>1, <4>1, <4>2, <4>3
    <3>9. ~Later(p)
      <4>1. ids' = {} /\ p.start \notin roots' /\ hops' = {} /\ phase' # "search"
        BY <1>0, <2>1, <2>3, <3>3 DEF Stations
      <4> QED BY <3>8, <4>1 DEF Future, FutureOf, Later
    <3> QED BY <3>1, <3>4, <3>7, <3>9, NewFound
  <2>5. CASE found' = found
    BY <1>1, <2>5
  <2> QED BY <2>2, <2>4, <2>5
<1> QED BY <1>1, <1>3, <1>4, <1>5 DEF QueryNext, queryVars, Search, GetRow, GetFrom, Root,
           ListOutgoingEdges, Return, Answer, Mutate

-----------------------------------------------------------------------------
LEMMA MatchIs ==
  ASSUME QueryTypeOK, NEW nodes, NEW edges, NEW c
  PROVE  c \in Matches(nodes, edges) <=> c \in Candidate /\ IsMatch(c, nodes, edges)
<1>1. ask.least \in Nat /\ ask.most \in Nat
  BY AskIs
<1>2. ASSUME c \in Matches(nodes, edges) PROVE c \in Candidate /\ IsMatch(c, nodes, edges)
  <2>1. PICK n \in ask.least..ask.most : c.path \in [1..n -> GraphEdge]
    BY <1>2 DEF Matches
  <2>2. n \in Nat
    BY <1>1
  <2>3. c.path \in Seq(GraphEdge)
    BY <2>1, <2>2
  <2>4. c.start \in GraphNode /\ c = [start |-> c.start, path |-> c.path]
    BY <1>2 DEF Matches
  <2> QED BY <1>2, <2>3, <2>4 DEF Matches, Candidate
<1>3. ASSUME c \in Candidate, IsMatch(c, nodes, edges) PROVE c \in Matches(nodes, edges)
  <2>1. c.path \in [1..Len(c.path) -> GraphEdge] /\ Len(c.path) \in ask.least..ask.most
    BY <1>3 DEF Candidate, IsMatch
  <2>2. c.start \in GraphNode /\ c = [start |-> c.start, path |-> c.path]
    BY <1>3 DEF Candidate
  <2> QED BY <1>3, <2>1, <2>2 DEF Matches
<1> QED BY <1>2, <1>3

LEMMA MatchHas ==
  ASSUME QueryTypeOK, NEW nodes, NEW edges, NEW c \in Matches(nodes, edges)
  PROVE  /\ c \in Candidate /\ c.path \in Seq(GraphEdge) /\ Len(c.path) \in Nat
         /\ c.start \in Starts /\ Len(c.path) \in ask.least..ask.most
         /\ c.path # <<>> => EndOf(c) \in Targets
         /\ \A i \in 0..Len(c.path) : NodeAt(c, i) \in nodes
         /\ \A i \in 1..Len(c.path) : c.path[i] \in edges /\ From[c.path[i]] = NodeAt(c, i - 1)
         /\ ask.most > 1 => \A i, j \in 0..Len(c.path) : i # j => NodeAt(c, i) # NodeAt(c, j)
         /\ c.start \in nodes
<1>1. c \in Candidate /\ IsMatch(c, nodes, edges)
  BY MatchIs
<1>2. c.path \in Seq(GraphEdge) /\ Len(c.path) \in Nat
  BY <1>1 DEF Candidate
<1>3. c.start \in nodes
  <2>1. 0 \in 0..Len(c.path) /\ NodeAt(c, 0) = c.start
    BY <1>2 DEF NodeAt
  <2> QED BY <1>1, <2>1 DEF IsMatch
<1> QED BY <1>1, <1>2, <1>3 DEF IsMatch

\* Nothing that is listed or found before a limit is reached is left out.
LEMMA ListedWhole ==
  ASSUME QueryTypeOK, Undisturbed, Search
  PROVE  IF ask.most = 1 THEN hops' = active /\ phase' = "hop"
         ELSE ids' = Starts \cap readable /\ phase' = "walk"
<1>1. CASE ask.most = 1
  <2>1. IsFiniteSet(active) /\ \A x \in active : EdgePlace[x] \in Nat
    <3>1. active \subseteq GraphEdge
      BY DEF QueryTypeOK
    <3> QED BY <3>1, GraphAssumption, FS_Subset
  <2>2. MaxPaths \in Nat /\ Cardinality(active) <= MaxPaths
    BY <1>1, GraphAssumption DEF Undisturbed
  <2>3. Prefix(active, EdgePlace, MaxPaths) = active
    BY <2>1, <2>2, WholePrefix
  <2> QED BY <1>1, <2>3 DEF Search
<1>2. CASE ask.most # 1
  <2> DEFINE all == Starts \cap readable
  <2>1. IsFiniteSet(all) /\ \A x \in all : NodePlace[x] \in Nat
    <3>1. all \subseteq GraphNode
      BY GraphAssumption
    <3> QED BY <3>1, GraphAssumption, FS_Subset
  <2>2. MaxRoots \in Nat /\ Cardinality(all) <= MaxRoots
    BY GraphAssumption DEF Undisturbed
  <2> HIDE DEF all
  <2>3. Prefix(all, NodePlace, MaxRoots) = all
    BY <2>1, <2>2, WholePrefix
  <2> QED BY <1>2, <2>3 DEF Search, all
<1> QED BY <1>1, <1>2

LEMMA FoundStays ==
  ASSUME GInv, [QueryNext]_queryVars
  PROVE  /\ Len(found) \in Nat /\ Len(found') \in Nat /\ Len(found) <= Len(found')
         /\ \A i \in 1..Len(found) : i \in 1..Len(found') /\ found'[i] = found[i]
<1>0. QueryTypeOK
  BY DEF GInv
<1>1. ASSUME NEW p \in Candidate, found' = Append(found, p)
      PROVE  /\ Len(found) \in Nat /\ Len(found') \in Nat /\ Len(found) <= Len(found')
             /\ \A i \in 1..Len(found) : i \in 1..Len(found') /\ found'[i] = found[i]
  <2>1. /\ Len(found') = Len(found) + 1 /\ Len(found) \in Nat
        /\ \A i \in 1..Len(found) : found'[i] = found[i]
    BY <1>0, <1>1, FoundMore
  <2> QED BY <2>1
<1>2. CASE found' = found
  BY <1>0, <1>2 DEF QueryTypeOK
<1>3. CASE Find
  BY <1>0, <1>1, <1>3, FindFound
<1>4. CASE Hop
  BY <1>0, <1>1, <1>2, <1>4, HopFound
<1>5. CASE Follow
  <2>1. PICK e \in stack[Len(stack)].left : e \in GraphEdge /\ (Descends(e) \/ found' = found)
    BY <1>0, <1>5, FollowStep
  <2> DEFINE p == [start |-> stack[1].node, path |-> Append(stack[Len(stack)].path, e)]
  <2>2. p \in Candidate
    BY <1>0, <1>5, <2>1, Deeper DEF Follow
  <2>3. found' = found \/ found' = Append(found, p)
    BY <2>1 DEF Descends
  <2> HIDE DEF p
  <2> QED BY <1>1, <1>2, <2>2, <2>3
<1> QED BY <1>2, <1>3, <1>4, <1>5 DEF QueryNext, queryVars, Search, GetRow, GetFrom, Root,
           ListOutgoingEdges, Return, Answer, Mutate

LEMMA StillUndisturbed ==
  ASSUME GInv, [QueryNext]_queryVars, Undisturbed'
  PROVE  Undisturbed /\ ~Full /\ UNCHANGED <<readable, active, ask>>
<1>0. QueryTypeOK
  BY DEF GInv
<1>1. ~Mutate
  BY <1>0, MutateStep DEF Undisturbed
<1>2. UNCHANGED <<readable, active, mutations, ask>>
  BY <1>1 DEF QueryNext, queryVars, rowVars, Search, GetRow, Find, GetFrom, Hop, Root,
     ListOutgoingEdges, Follow, Return, Answer
<1>3. Len(found') < MaxPaths /\ Len(found) \in Nat /\ Len(found') \in Nat /\ Len(found) <= Len(found') /\ MaxPaths \in Nat
  BY FoundStays, GraphAssumption DEF Undisturbed
<1>4. Len(found) < MaxPaths
  BY <1>3
<1>5. ~Full
  BY <1>3, <1>4 DEF Full
<1> QED BY <1>2, <1>4, <1>5 DEF Undisturbed

\* A match to come is come to, or is found.
LEMMA StillToCome ==
  ASSUME GInv, [QueryNext]_queryVars, Undisturbed',
         NEW c \in Matches(readable, active), Future(c)
  PROVE  Later(c) \/ \E i \in 1..Len(found') : found'[i] = c
<1> USE DEF Future, FutureOf, Later
<1>0. QueryTypeOK /\ Stations /\ Seen /\ Trails /\ Nested /\ Undisturbed /\ ~Full
  BY StillUndisturbed DEF GInv
<1> DEFINE n == Len(stack)
<1>h. /\ c \in Candidate /\ c.path \in Seq(GraphEdge) /\ Len(c.path) \in Nat
      /\ c.start \in Starts /\ Len(c.path) \in ask.least..ask.most
      /\ c.path # <<>> => EndOf(c) \in Targets
      /\ \A i \in 0..Len(c.path) : NodeAt(c, i) \in readable
      /\ \A i \in 1..Len(c.path) : c.path[i] \in active /\ From[c.path[i]] = NodeAt(c, i - 1)
      /\ ask.most > 1 => \A i, j \in 0..Len(c.path) : i # j => NodeAt(c, i) # NodeAt(c, j)
      /\ c.start \in readable
  BY <1>0, MatchHas
<1>a. /\ ask.least \in Nat /\ ask.most \in Nat
      /\ IF ask.most = 0 THEN ask.least = 0 ELSE ask.least \in 1..ask.most
  BY <1>0, AskIs
<1>f. ASSUME NEW p, p = c, found' = Append(found, p) PROVE \E i \in 1..Len(found') : found'[i] = c
  <2>1. Len(found') = Len(found) + 1 /\ Len(found) \in Nat /\ found'[Len(found) + 1] = p
    BY <1>0, <1>h, <1>f, FoundMore
  <2> QED BY <1>f, <2>1
<1>1. CASE Search
  <2>1. CASE ask.most = 1
    <3>1. hops' = active
      BY <1>0, <1>1, <2>1, ListedWhole
    <3> DEFINE len == Len(c.path)
               least == ask.least
               most == ask.most
    <3>2. len = 1
      <4>1. most = 1 /\ 1 <= least /\ least <= len /\ len <= most /\ least \in Nat /\ len \in Nat
        BY <1>a, <1>h, <2>1
      <4> HIDE DEF len, least, most
      <4> QED BY <4>1
    <3>3. c.path[1] \in active
      BY <1>h, <3>2
    <3> QED BY <3>1, <3>2, <3>3
  <2>2. CASE ask.most # 1
    BY <1>0, <1>1, <1>h, <2>2, ListedWhole
  <2> QED BY <2>1, <2>2
<1>2. CASE GetRow
  <2>1. ids' \cup roots' = ids \cup roots \/ c.start \in ids' \cup roots' \/ c.start \notin ids \cup roots
    BY <1>2, <1>h, SomeFirst DEF GetRow, IsReadable
  <2>2. UNCHANGED <<phase, hops, stack>>
    BY <1>2 DEF GetRow
  <2> QED BY <2>1, <2>2
<1>3. CASE Find
  <2>1. PICK m \in roots : /\ [start |-> m, path |-> <<>>] \in Candidate /\ roots' = roots \ {m}
                           /\ found' = Append(found, [start |-> m, path |-> <<>>])
    BY <1>0, <1>3, FindFound
  <2>2. UNCHANGED <<phase, hops, stack, ids>> /\ phase = "walk" /\ ids = {} /\ hops = {} /\ stack = <<>>
    BY <1>0, <1>3 DEF Find, Stations
  <2>3. c.start \in roots
    BY <2>2
  <2>4. CASE c.start = m
    <3>1. Len(c.path) = 0
      BY <1>h, <1>a, <1>3 DEF Find
    <3>2. c.path = <<>>
      BY <1>h, <3>1
    <3>3. [start |-> m, path |-> <<>>] = c
      BY <1>h, <2>4, <3>2 DEF Candidate
    <3> QED BY <1>f, <2>1, <3>3
  <2>5. CASE c.start # m
    BY <2>1, <2>3, <2>5
  <2> QED BY <2>4, <2>5
<1>4. CASE Hop
  <2>1. PICK e \in First(hops, EdgePlace) :
          /\ e \in GraphEdge /\ [start |-> From[e], path |-> <<e>>] \in Candidate
          /\ Len(<<e>>) = 1 /\ <<e>>[1] = e /\ hops' = hops \ {e}
          /\ IF From[e] \in Starts /\ To[e] \in Targets /\ near = "yes" /\ To[e] \in readable
             THEN found' = Append(found, [start |-> From[e], path |-> <<e>>]) ELSE found' = found
    BY <1>0, <1>4, HopFound
  <2>2. phase # "search" /\ ids = {} /\ roots = {} /\ stack = <<>>
    BY <1>0, <1>4 DEF Hop, Stations
  <2>3. Len(c.path) = 1 /\ c.path[1] \in hops
    BY <2>2
  <2>4. CASE c.path[1] = e
    <3>1. NodeAt(c, 0) = c.start /\ NodeAt(c, 1) = To[e]
      BY <2>4 DEF NodeAt
    <3>2. From[e] = c.start /\ c.start \in readable /\ To[e] \in readable
      <4>1. 1 \in 1..Len(c.path) /\ 1 \in 0..Len(c.path) /\ 1 - 1 = 0
        BY <2>3
      <4> QED BY <1>h, <2>4, <3>1, <4>1
    <3>3. To[e] \in Targets
      <4>1. c.path # <<>>
        BY <2>3
      <4>2. EndOf(c) = To[e]
        BY <2>3, <2>4, <4>1 DEF EndOf
      <4> QED BY <1>h, <4>1, <4>2
    <3>4. near = "yes"
      BY <1>0, <1>4, <2>1, <3>2 DEF Hop, Seen, QueryTypeOK, Undisturbed
    <3>5. c.path = <<e>>
      BY <1>h, <2>1, <2>3, <2>4
    <3>6. [start |-> From[e], path |-> <<e>>] = c
      BY <1>h, <3>2, <3>5 DEF Candidate
    <3> QED BY <1>f, <1>h, <2>1, <3>2, <3>3, <3>4, <3>6
  <2>5. CASE c.path[1] # e
    BY <2>1, <2>3, <2>5
  <2> QED BY <2>4, <2>5
<1>5. CASE Root
  <2>1. PICK m \in roots : Len(stack') = 1 /\ stack'[1] = Call(m, <<>>, {m}) /\ roots' = roots \ {m}
    BY <1>0, <1>5, RootStep
  <2>2. phase # "search" /\ ids = {} /\ hops = {} /\ stack = <<>> /\ ask.most > 1
    BY <1>0, <1>5 DEF Root, Stations
  <2>3. c.start \in roots
    BY <2>2
  <2>4. CASE c.start = m
    <3>1. 1 <= Len(c.path)
      BY <1>h, <1>a, <2>2
    <3>2. stack'[1].node = m /\ ~stack'[1].listed
      BY <2>1 DEF Call
    <3>3. Ahead(c, 1, stack'[1].node, stack'[1])
      BY <2>4, <3>1, <3>2 DEF Ahead
    <3>4. 1 \in 1..Len(stack')
      BY <2>1
    <3> QED BY <3>3, <3>4
  <2>5. CASE c.start # m
    BY <2>1, <2>3, <2>5
  <2> QED BY <2>4, <2>5
<1>6. CASE ListOutgoingEdges
  <2>0. stack # <<>>
    BY <1>6 DEF ListOutgoingEdges
  <2>1. /\ Len(stack') = n /\ n \in Nat \ {0}
        /\ \A i \in 1..(n - 1) : stack'[i] = stack[i]
        /\ stack'[n].path = stack[n].path /\ stack'[n].listed /\ ~stack[n].listed
        /\ stack'[n].left = {e \in active : From[e] = stack[n].node}
    BY <1>0, <1>6, ListStep
  <2>2. stack'[1].node = stack[1].node /\ UNCHANGED <<ids, roots, hops, phase>>
    BY <1>0, <1>6, FirstCall DEF ListOutgoingEdges
  <2>3. ASSUME NEW j \in 1..n, Ahead(c, j, stack[1].node, stack[j])
        PROVE  Ahead(c, j, stack'[1].node, stack'[j])
    <3>1. CASE j \in 1..(n - 1)
      BY <2>1, <2>2, <2>3, <3>1
    <3>2. CASE j = n
      <4>1. c.start = stack[1].node /\ n <= Len(c.path) /\ \A i \in 1..(n - 1) : c.path[i] = stack[n].path[i]
        BY <2>3, <3>2 DEF Ahead
      <4>2. stack[n].node = NodeAt(Way(stack[1].node, stack[n]), n - 1)
        BY <1>0, <2>0, <2>1 DEF Trails, OnTrail
      <4>3. NodeAt(Way(stack[1].node, stack[n]), n - 1) = NodeAt(c, n - 1)
        BY <2>1, <4>1 DEF NodeAt, Way
      <4>4. n \in 1..Len(c.path)
        BY <1>h, <2>1, <4>1
      <4>5. c.path[n] \in stack'[n].left
        <5> HIDE DEF n
        <5> QED BY <1>h, <2>1, <4>2, <4>3, <4>4
      <4> HIDE DEF n
      <4> QED BY <2>1, <2>2, <3>2, <4>1, <4>5 DEF Ahead
    <3> QED BY <2>1, <3>1, <3>2
  <2> QED BY <2>1, <2>2, <2>3
<1>7. CASE Follow
  <2>1. /\ n \in Nat \ {0} /\ stack # <<>>
        /\ \A i \in 1..(n - 1) : stack'[i] = stack[i]
        /\ stack'[n].path = stack[n].path /\ stack'[n].listed = stack[n].listed
    BY <1>0, <1>7, FollowStep
  <2>2. PICK e \in stack[n].left :
          /\ e \in GraphEdge /\ stack'[n].left = stack[n].left \ {e}
          /\ \/ Descends(e)
             \/ /\ Len(stack') = n /\ found' = found
                /\ To[e] \notin readable \/ To[e] \in stack[n].seen
    BY <1>0, <1>7, FollowStep
  <2>3. stack'[1].node = stack[1].node /\ UNCHANGED <<ids, roots, hops, phase>>
    BY <1>0, <1>7, FirstCall DEF Follow
  <2>4. Len(stack') \in {n, n + 1} /\ ask.most > 1
    BY <1>0, <2>1, <2>2 DEF Descends, Stations
  <2>5. PICK j \in 1..n : Ahead(c, j, stack[1].node, stack[j])
        \/ c.start \in roots
    <3>1. phase # "search" /\ ids = {} /\ hops = {}
      BY <1>0, <2>1 DEF Stations
    <3> QED BY <2>1, <3>1
  <2>6. CASE c.start \in roots
    BY <2>3, <2>6
  <2>7. CASE Ahead(c, j, stack[1].node, stack[j]) /\ j \in 1..(n - 1)
    <3>1. Ahead(c, j, stack'[1].node, stack'[j]) /\ j \in 1..Len(stack')
      BY <2>1, <2>3, <2>4, <2>7
    <3> QED BY <3>1
  <2>8. CASE Ahead(c, n, stack[1].node, stack[n])
    <3>1. c.start = stack[1].node /\ n <= Len(c.path) /\ \A i \in 1..(n - 1) : c.path[i] = stack[n].path[i]
      BY <2>8 DEF Ahead
    <3>2. stack[n].listed /\ c.path[n] \in stack[n].left
      <4>1. OnTrail(stack[n], n, stack[1].node, ask.most, wasReadable, wasActive)
        BY <1>0, <2>1 DEF Trails
      <4>2. stack[n].listed
        BY <2>2, <4>1 DEF OnTrail
      <4> QED BY <2>8, <4>2 DEF Ahead
    <3>3. CASE c.path[n] # e
      <4>1. Ahead(c, n, stack'[1].node, stack'[n])
        BY <2>1, <2>2, <2>3, <3>1, <3>2, <3>3 DEF Ahead
      <4>2. n \in 1..Len(stack')
        BY <2>1, <2>4
      <4> QED BY <4>1, <4>2
    <3>4. CASE c.path[n] = e
      <4> DEFINE way == Way(stack[1].node, stack[n])
                 route == Append(stack[n].path, e)
      <4>1. n \in 0..Len(c.path) /\ n \in 1..Len(c.path) /\ NodeAt(c, n) = To[e]
        BY <1>h, <2>1, <3>1, <3>4 DEF NodeAt
      <4>2. To[e] \in readable
        BY <1>h, <4>1
      <4>3. stack[n].seen = {NodeAt(way, i) : i \in 0..(n - 1)} /\ Len(stack[n].path) = n - 1
        <5>1. OnTrail(stack[n], n, stack[1].node, ask.most, wasReadable, wasActive)
          BY <1>0, <2>1 DEF Trails
        <5> QED BY <5>1 DEF OnTrail
      <4>4. \A i \in 0..(n - 1) : NodeAt(way, i) = NodeAt(c, i)
        BY <2>1, <3>1 DEF NodeAt, Way
      <4>5. \A i \in 0..(n - 1) : i \in 0..Len(c.path) /\ i # n
        BY <1>h, <2>1, <3>1
      <4>6. To[e] \notin stack[n].seen
        <5> HIDE DEF n, way
        <5> QED BY <1>h, <2>4, <4>1, <4>3, <4>4, <4>5
      <4>7. Descends(e)
        BY <2>2, <4>2, <4>6
      <4>8. /\ route \in Seq(GraphEdge) /\ Len(route) = n
            /\ route[n] = e /\ \A i \in 1..(n - 1) : route[i] = stack[n].path[i]
        <5>1. stack[n].path \in Seq(GraphEdge) /\ n - 1 + 1 = n
          BY <1>0, <2>1, TopIs DEF Frame
        <5>2. /\ route \in Seq(GraphEdge) /\ Len(route) = Len(stack[n].path) + 1
              /\ route[Len(stack[n].path) + 1] = e
              /\ \A i \in 1..Len(stack[n].path) : route[i] = stack[n].path[i]
          BY <2>2, <5>1, Added
        <5> HIDE DEF n, route
        <5> QED BY <4>3, <5>1, <5>2
      <4>9. \A i \in 1..n : route[i] = c.path[i]
        <5>1. \A i \in 1..n : i = n \/ i \in 1..(n - 1)
          BY <2>1
        <5> HIDE DEF n, route
        <5> QED BY <3>1, <3>4, <4>8, <5>1
      <4>10. CASE Len(c.path) = n
        <5>1. route = c.path
          <6> HIDE DEF n, route
          <6> QED BY <1>h, <4>8, <4>9, <4>10, SeqEqual
        <5>2. [start |-> stack[1].node, path |-> route] = c
          BY <1>h, <3>1, <5>1 DEF Candidate
        <5>3. Len(route) >= ask.least /\ To[e] \in Targets
          <6>1. c.path # <<>>
            BY <4>1
          <6>2. EndOf(c) = To[e]
            BY <3>4, <4>10, <6>1 DEF EndOf
          <6>3. Len(c.path) >= ask.least
            BY <1>a, <1>h
          <6> QED BY <1>h, <5>1, <6>1, <6>2, <6>3
        <5>4. found' = Append(found, [start |-> stack[1].node, path |-> route])
          BY <4>7, <5>3 DEF Descends
        <5> HIDE DEF route
        <5> QED BY <1>f, <5>2, <5>4
      <4>11. CASE Len(c.path) # n
        <5>1. n + 1 <= Len(c.path) /\ n < ask.most
          BY <1>a, <1>h, <2>1, <3>1, <4>11
        <5>2. Len(stack') = n + 1 /\ stack'[n + 1] = Call(To[e], route, stack[n].seen \cup {To[e]})
          BY <4>7, <4>8, <5>1 DEF Descends
        <5>3. stack'[n + 1].path = route /\ ~stack'[n + 1].listed
          BY <5>2 DEF Call
        <5>4. n + 1 \in 1..(n + 1) /\ n + 1 - 1 = n
          BY <2>1
        <5> DEFINE k == n + 1
        <5>5. k <= Len(c.path) /\ k - 1 = n /\ k \in 1..Len(stack')
          BY <5>1, <5>2, <5>4
        <5>6. stack'[k].path = route /\ ~stack'[k].listed
          BY <5>3
        <5> HIDE DEF k, n, route
        <5>7. Ahead(c, k, stack'[1].node, stack'[k])
          BY <2>3, <3>1, <4>9, <5>5, <5>6 DEF Ahead
        <5> QED BY <5>5, <5>7
      <4> QED BY <4>10, <4>11
    <3> QED BY <3>3, <3>4
  <2> QED BY <2>1, <2>5, <2>6, <2>7, <2>8
<1>8. CASE Return
  <2>1. /\ Len(stack') = n - 1 /\ n \in Nat \ {0} /\ \A i \in 1..(n - 1) : stack'[i] = stack[i]
        /\ stack[n].listed /\ stack[n].left = {}
    BY <1>0, <1>8, ReturnStep
  <2>2. UNCHANGED <<ids, roots, hops, phase>>
    BY <1>8 DEF Return
  <2>3. ASSUME NEW j \in 1..n, Ahead(c, j, stack[1].node, stack[j])
        PROVE  j \in 1..Len(stack') /\ Ahead(c, j, stack'[1].node, stack'[j])
    <3>1. j # n
      BY <2>1, <2>3 DEF Ahead
    <3>2. j \in 1..(n - 1) /\ 1 \in 1..(n - 1)
      BY <2>1, <3>1
    <3> HIDE DEF n
    <3> QED BY <2>1, <2>3, <3>2
  <2> QED BY <2>2, <2>3
<1>9. CASE GetFrom \/ UNCHANGED queryVars
  <2>1. UNCHANGED <<ids, roots, hops, phase, stack>>
    BY <1>9 DEF GetFrom, queryVars
  <2> QED BY <2>1
<1>10. CASE Answer
  BY <1>0, <1>10 DEF Answer
<1>11. ~Mutate
  BY <1>0, MutateStep DEF Undisturbed
<1> QED BY <1>1, <1>2, <1>3, <1>4, <1>5, <1>6, <1>7, <1>8, <1>9, <1>10, <1>11 DEF QueryNext

LEMMA UnmissedKept == ASSUME GInv, [QueryNext]_queryVars PROVE Unmissed'
<1> SUFFICES ASSUME Undisturbed', NEW c \in Matches(readable, active)'
             PROVE  Later(c) \/ \E i \in 1..Len(found') : found'[i] = c
  BY DEF Unmissed, Future, Later
<1>1. Undisturbed /\ UNCHANGED <<readable, active, ask>>
  BY StillUndisturbed
<1>2. c \in Matches(readable, active)
  BY <1>1 DEF Matches, IsMatch
<1>3. CASE Future(c)
  BY <1>2, <1>3, StillToCome
<1>4. CASE \E i \in 1..Len(found) : found[i] = c
  BY <1>4, FoundStays
<1> QED BY <1>1, <1>2, <1>3, <1>4 DEF GInv, Unmissed

LEMMA GInvStep == ASSUME GInv, [QueryNext]_queryVars PROVE GInv'
  BY QueryTyped, StationsKept, SeenKept, TrailsKept, NestedKept, SoundKept, UnrepeatedKept, UnmissedKept
     DEF GInv

LEMMA GInvInductive == QuerySpec => []GInv
  BY GInvStep, InitGInv, PTL DEF QuerySpec

\* The state of a query is well typed: the calls of walk hold paths of edges and the nodes seen
\* on them, and no row is answered that was not found (query/executor.go).
THEOREM QueryTypeCorrect == QuerySpec => []QueryTypeOK
<1>1. GInv => QueryTypeOK
  BY DEF GInv
<1> QED BY <1>1, GInvInductive, PTL

\* A sequence of different elements has as many as it is long.
LEMMA AllDifferent ==
  ASSUME NEW S, NEW s \in Seq(S), \A i, j \in 1..Len(s) : s[i] = s[j] => i = j
  PROVE  IsFiniteSet(Members(s)) /\ Cardinality(Members(s)) = Len(s)
<1>1. s \in Bijection(1..Len(s), Members(s))
  <2>1. s \in [1..Len(s) -> Members(s)] /\ DOMAIN s = 1..Len(s)
    BY DEF Members
  <2>2. \A m \in Members(s) : \E i \in 1..Len(s) : s[i] = m
    BY <2>1 DEF Members
  <2> QED BY <2>1, <2>2 DEF Bijection, Injection, Surjection, IsInjective
<1>2. IsFiniteSet(1..Len(s)) /\ Cardinality(1..Len(s)) = Len(s)
  <2>1. Len(s) \in Nat /\ 1 \in Int /\ Len(s) \in Int
    OBVIOUS
  <2>2. Cardinality(1..Len(s)) = IF 1 > Len(s) THEN 0 ELSE Len(s) - 1 + 1
    BY <2>1, FS_Interval
  <2> QED BY <2>1, <2>2, FS_Interval
<1>3. ExistsBijection(1..Len(s), Members(s))
  BY <1>1 DEF ExistsBijection
<1> QED BY <1>2, <1>3, FS_Bijection

\* executeFind and executeMatch (query/executor.go) return rows that were there, none twice,
\* and no more than asked for; when no row changes under the query and no limit cuts it
\* short, they are the first of exactly the matches.
THEOREM QueriesAreExact == QuerySpec => []QueryIsExact
<1>1. ASSUME GInv PROVE QueryIsExact
  <2> SUFFICES ASSUME phase = "done"
               PROVE  /\ \A c \in Members(found) : IsMatch(c, wasReadable, wasActive)
                      /\ Cardinality(Members(found)) = Len(found) /\ Cardinality(answer) <= ask.limit
                      /\ Undisturbed => answer \in FirstOf(Matches(readable, active), ask.limit)
    BY DEF QueryIsExact, Undisturbed
  <2>0. QueryTypeOK /\ Stations /\ Seen /\ Sound /\ Unrepeated /\ Unmissed /\ found \in Seq(Candidate)
    BY <1>1 DEF GInv, QueryTypeOK
  <2>1. \A c : c \in Members(found) <=> \E i \in 1..Len(found) : c = found[i]
    BY <2>0 DEF Members
  <2>2. \A c \in Members(found) : c \in Candidate /\ IsMatch(c, wasReadable, wasActive)
    BY <2>0, <2>1 DEF Sound
  <2>3. IsFiniteSet(Members(found)) /\ Cardinality(Members(found)) = Len(found)
    BY <2>0, AllDifferent DEF Unrepeated
  <2>4. answer \in FirstOf(Members(found), ask.limit)
    BY <2>0 DEF Stations
  <2>5. Cardinality(answer) <= ask.limit
    <3>1. Len(found) \in Nat /\ ask.limit \in Nat
      BY <2>0, AskIs
    <3>2. Cardinality(answer) = IF Len(found) < ask.limit THEN Len(found) ELSE ask.limit
      BY <2>3, <2>4 DEF FirstOf
    <3> QED BY <3>1, <3>2
  <2>6. ASSUME Undisturbed PROVE Members(found) = Matches(readable, active)
    <3>1. wasReadable = readable /\ wasActive = active
      BY <2>0, <2>6 DEF Seen, Undisturbed
    <3>2. ids = {} /\ roots = {} /\ hops = {} /\ stack = <<>>
      <4>1. ~Full
        <5>1. Len(found) < MaxPaths /\ Len(found) \in Nat /\ MaxPaths \in Nat
          BY <2>0, <2>6, GraphAssumption DEF Undisturbed
        <5> QED BY <5>1 DEF Full
      <4> QED BY <2>0, <4>1 DEF Stations
    <3>3. \A c : ~Future(c)
      BY <3>2 DEF Future, FutureOf
    <3>4. \A c \in Matches(readable, active) : c \in Members(found)
      BY <2>0, <2>1, <2>6, <3>3 DEF Unmissed
    <3>5. \A c \in Members(found) : c \in Matches(readable, active)
      BY <2>0, <2>2, <3>1, MatchIs
    <3> QED BY <3>4, <3>5
  <2> QED BY <2>2, <2>3, <2>4, <2>5, <2>6
<1> QED BY <1>1, GInvInductive, PTL

-----------------------------------------------------------------------------
(* The parts together.                                                      *)

LEMMA MemoryStarts == MemoryInit => DInv /\ FInv /\ PInv /\ TInv /\ GInv
  BY InitDInv, InitFInv, InitPInv, InitTInv, InitGInv DEF MemoryInit

LEMMA MemorySteps ==
  ASSUME [MemoryNext]_memoryVars
  PROVE  /\ [MemorydNext]_memorydVars /\ [CaptureNext]_captureVars /\ [PoolNext]_poolVars
         /\ [TaskNext]_taskVars /\ [QueryNext]_queryVars
  BY DEF MemoryNext, memoryVars

\* Each step of memoryd is one of a part, and leaves the state of all parts well typed.
THEOREM MemoryTypeCorrect == MemorySpec => []MemoryTypeOK
<1>1. ASSUME DInv, [MemorydNext]_memorydVars PROVE DInv'
  BY <1>1, DInvStep
<1>2. ASSUME FInv, [CaptureNext]_captureVars PROVE FInv'
  BY <1>2, FInvStep
<1>3. ASSUME PInv, [PoolNext]_poolVars PROVE PInv'
  BY <1>3, PInvStep
<1>4. ASSUME TInv, [TaskNext]_taskVars PROVE TInv'
  BY <1>4, TInvStep
<1>5. ASSUME GInv, [QueryNext]_queryVars PROVE GInv'
  BY <1>5, GInvStep
<1> DEFINE All == DInv /\ FInv /\ PInv /\ TInv /\ GInv
<1>6. ASSUME All, [MemoryNext]_memoryVars PROVE All'
  BY <1>1, <1>2, <1>3, <1>4, <1>5, <1>6, MemorySteps
<1>7. All => MemoryTypeOK
  BY DEF DInv, FInv, PInv, TInv, GInv, MemoryTypeOK
<1> QED BY <1>6, <1>7, MemoryStarts, PTL DEF MemorySpec
=============================================================================
