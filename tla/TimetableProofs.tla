--------------------------- MODULE TimetableProofs ---------------------------
(***************************************************************************)
(* Proofs about the fill of the bot's database, the expansion of weekly    *)
(* lessons and the reading of a page, for any pool of workers, any groups, *)
(* pages, rooms and lessons, and any number of failures and midnights.     *)
(*                                                                         *)
(* The error that the fill reports: as long as the main goroutine still    *)
(* looks at the channel of errors, whatever has cancelled the context is   *)
(* in it, so that no cancellation can take its place (RootInv).  The       *)
(* success that it reports: as long as no worker has failed, every group   *)
(* sent is in the channel of jobs, with a worker who still has the lessons *)
(* that are missing, unread, or there (CoverInv).                          *)
(*                                                                         *)
(* The expansion: the slots of a lesson are those of one day's reading of  *)
(* the clock, or there are none yet (ExpandInv); that they are whole and   *)
(* alternate is arithmetic with the calendar (NextOfKind).  The reading:   *)
(* the lessons read are those that the loops have passed, each at the rank *)
(* of its place in the table (ReadInv).                                    *)
(***************************************************************************)
EXTENDS Timetable, TLAPS, FiniteSetTheorems

-----------------------------------------------------------------------------
\* The fill.

Lessons(g) == {LessonsOf[g][k] : k \in DOMAIN LessonsOf[g]}
Lesson == UNION {Lessons(g) : g \in Group}

Stations == {"receive", "parse", "lock", "save", "report", "cancel", "returned"}

FillTypeOK ==
  /\ main \in {"faculties", "groups", "panicked", "send", "join_error", "join_canceled", "join",
               "returned"}
  /\ faculty \in Nat \ {0} /\ allGroups \in Seq(Group) /\ seen \subseteq DOMAIN Faculties
  /\ sent \in 0 .. Len(allGroups)
  /\ jobs \in Seq(Group)
  /\ closed \in BOOLEAN /\ canceled \in BOOLEAN
  /\ worker \in [Worker -> Stations]
  /\ job \in [Worker -> SUBSET Group]
  /\ todo \in [Worker -> Seq(Lesson)]
  /\ err \in [Worker -> {"none", "database", "canceled"}]

\* No group has been sent: the pages of the faculties are read.
Early == main \in {"faculties", "groups"}

\* The main goroutine has not yet taken an error or returned.
Listening == Early \/ main \in {"send", "join_canceled", "join"}

\* What stops the fill is in the channel before anybody is stopped by it.
RootInv ==
  /\ result \in {"none", "nil", "database"}
  /\ Listening => result = "none"
  /\ Listening =>
       /\ errCh \in {<<>>, <<"database">>}
       /\ canceled => errCh = <<"database">>
       /\ \A w \in Worker :
            /\ worker[w] = "cancel" => errCh = <<"database">>
            /\ worker[w] = "report" => err[w] = "database" \/ (err[w] = "canceled" /\ canceled)
  /\ main = "join_canceled" => canceled

\* No worker has met an error.
Untroubled ==
  /\ Early \/ main \in {"send", "join"}
  /\ errCh = <<>>
  /\ \A w \in Worker : worker[w] \notin {"report", "cancel"}

Filled(g) == \A k \in DOMAIN LessonsOf[g] : <<LessonsOf[g][k], g>> \in attends

\* Worker w has group g, and the lessons of it that are missing.
Has(w, g) ==
  /\ job[w] = {g}
  /\ \/ worker[w] = "parse"
     \/ /\ worker[w] \in {"lock", "save"}
        /\ \A k \in DOMAIN LessonsOf[g] :
             \/ <<LessonsOf[g][k], g>> \in attends
             \/ \E i \in 1 .. Len(todo[w]) : todo[w][i] = LessonsOf[g][k]

Covered(g) ==
  \/ g \in unread
  \/ Filled(g)
  \/ \E i \in 1 .. Len(jobs) : jobs[i] = g
  \/ \E w \in Worker : Has(w, g)

\* Where the work is.
PlaceInv ==
  /\ Early \/ main = "panicked" => sent = 0 /\ ~closed
  /\ main = "join" => sent = Len(allGroups)
  /\ closed => main # "send"
  /\ \A w \in Worker : worker[w] \in {"parse", "lock", "save"} => \E g \in Group : job[w] = {g}

\* Without an error no group is lost, and who leaves has left nothing behind.
CoverInv ==
  Untroubled =>
    /\ \A k \in 1 .. sent : Covered(allGroups[k])
    /\ \A w \in Worker : worker[w] = "returned" => jobs = <<>> /\ closed

Found(g) == \E i \in 1 .. Len(allGroups) : allGroups[i] = g

DoneInv ==
  result = "nil" =>
    /\ main = "returned"
    /\ \A g : Found(g) => g \in unread \/ Filled(g)

\* The groups of every faculty whose page was read have been found.
SeenInv == \A f \in seen : \A g \in GroupsOf(f) : Found(g)

FillInv == PlaceInv /\ CoverInv /\ DoneInv /\ SeenInv

FullInv == FillTypeOK /\ RootInv /\ FillInv

\* The steps of the main goroutine before there are workers.
Reads == ParseFaculties \/ ParseGroups \/ ReaderPanics \/ StartWorkers

-----------------------------------------------------------------------------
\* Types, and the error.

LEMMA GroupsTyped ==
  /\ Faculties \in Seq(Seq(Group))
  /\ \A g \in Group : LessonsOf[g] \in Seq(Lesson)
<1>1. ASSUME NEW g \in Group PROVE LessonsOf[g] \in Seq(Lesson)
  <2>1. LessonsOf[g] \in Seq(Lessons(g))
    BY FillAssumption DEF Lessons
  <2>2. Lessons(g) \subseteq Lesson
    BY DEF Lesson
  <2>. QED  BY <2>1, <2>2
<1>. QED  BY <1>1, FillAssumption

LEMMA Joined ==
  ASSUME NEW S, NEW a \in Seq(S), NEW b \in Seq(S)
  PROVE  a \o b \in Seq(S) /\ Len(a) <= Len(a \o b)
OBVIOUS

LEMMA FillTypeInit == Init => FillTypeOK
<1>. SUFFICES ASSUME Init PROVE FillTypeOK
  OBVIOUS
<1>1. /\ main = "faculties" /\ faculty = 1 /\ allGroups = <<>> /\ seen = {} /\ sent = 0
      /\ jobs = <<>> /\ closed = FALSE /\ canceled = FALSE
      /\ worker = [w \in Worker |-> "receive"] /\ job = [w \in Worker |-> {}]
      /\ err = [w \in Worker |-> "none"]
  BY DEF Init
<1>2. todo \in [Worker -> Seq(Lesson)]
  BY DEF Init
<1>4. allGroups \in Seq(Group) /\ sent \in 0 .. Len(allGroups)
  BY <1>1
<1>5. jobs \in Seq(Group)
  BY <1>1
<1>6. /\ worker \in [Worker -> Stations] /\ job \in [Worker -> SUBSET Group]
      /\ err \in [Worker -> {"none", "database", "canceled"}]
  BY <1>1 DEF Stations
<1>7. closed \in BOOLEAN /\ canceled \in BOOLEAN
  BY <1>1
<1>8. main = "faculties" /\ faculty \in Nat \ {0} /\ seen \subseteq DOMAIN Faculties
  BY <1>1
<1>. QED  BY <1>2, <1>4, <1>5, <1>6, <1>7, <1>8 DEF FillTypeOK

LEMMA FillTypeKept ==
  ASSUME FillTypeOK, [Next]_vars
  PROVE  FillTypeOK'
<1>. USE GroupsTyped DEF FillTypeOK, Stations, mainVars, readVars, workerVars, Goto
<1>1. CASE Send
  <2>1. allGroups[sent + 1] \in Group
    BY <1>1 DEF Send
  <2>. QED  BY <1>1, <2>1 DEF Send
<1>2. CASE TakeError
  BY <1>2 DEF TakeError
<1>3. CASE SeeCanceled
  BY <1>3 DEF SeeCanceled
<1>4. CASE CloseJobs
  BY <1>4 DEF CloseJobs
<1>5. CASE Return
  BY <1>5 DEF Return
<1>6. ASSUME NEW w \in Worker, Receive(w) PROVE FillTypeOK'
  BY <1>6 DEF Receive
<1>7. ASSUME NEW w \in Worker, Leave(w) PROVE FillTypeOK'
  BY <1>7 DEF Leave
<1>8. ASSUME NEW w \in Worker, Parse(w) PROVE FillTypeOK'
  <2>1. todo' \in [Worker -> Seq(Lesson)]
    <3>1. \A s \in Seq(Lesson) : [todo EXCEPT ![w] = s] \in [Worker -> Seq(Lesson)]
      OBVIOUS
    <3>2. PICK g \in job[w] : \/ todo' = [todo EXCEPT ![w] = LessonsOf[g]]
                               \/ todo' = [todo EXCEPT ![w] = <<>>]
      BY <1>8 DEF Parse
    <3>3. LessonsOf[g] \in Seq(Lesson) /\ <<>> \in Seq(Lesson)
      OBVIOUS
    <3>. QED  BY <3>1, <3>2, <3>3
  <2>. QED  BY <1>8, <2>1 DEF Parse
<1>9. ASSUME NEW w \in Worker, Lock(w) PROVE FillTypeOK'
  BY <1>9 DEF Lock
<1>10. ASSUME NEW w \in Worker, Save(w) PROVE FillTypeOK'
  BY <1>10 DEF Save
<1>11. ASSUME NEW w \in Worker, SaveFails(w) PROVE FillTypeOK'
  BY <1>11 DEF SaveFails
<1>12. ASSUME NEW w \in Worker, Saved(w) PROVE FillTypeOK'
  BY <1>12 DEF Saved
<1>13. ASSUME NEW w \in Worker, Report(w) PROVE FillTypeOK'
  BY <1>13 DEF Report
<1>14. ASSUME NEW w \in Worker, CancelOthers(w) PROVE FillTypeOK'
  BY <1>14 DEF CancelOthers
<1>16. CASE Reads
  <2>1. CASE ParseGroups
    <3>1. /\ faculty \in DOMAIN Faculties /\ Faculties[faculty] \in Seq(Group)
      BY <2>1 DEF ParseGroups
    <3>2. allGroups' \in Seq(Group) /\ Len(allGroups) <= Len(allGroups')
      <4>1. /\ allGroups \o Faculties[faculty] \in Seq(Group)
            /\ Len(allGroups) <= Len(allGroups \o Faculties[faculty])
        BY <3>1, Joined
      <4>2. allGroups' \in {allGroups \o Faculties[faculty], allGroups}
        BY <2>1 DEF ParseGroups
      <4>3. Len(allGroups) <= Len(allGroups)
        OBVIOUS
      <4>. QED  BY <4>1, <4>2, <4>3
    <3>3. faculty' \in Nat \ {0} /\ seen' \subseteq DOMAIN Faculties
      BY <2>1, <3>1 DEF ParseGroups
    <3>4. sent' \in 0 .. Len(allGroups')
      BY <2>1, <3>2 DEF ParseGroups
    <3>. QED  BY <2>1, <3>2, <3>3, <3>4 DEF ParseGroups
  <2>. QED  BY <1>16, <2>1 DEF Reads, ParseFaculties, ReaderPanics, StartWorkers
<1>15. CASE UNCHANGED vars
  BY <1>15 DEF vars
<1>. QED
  BY <1>1, <1>2, <1>3, <1>4, <1>5, <1>6, <1>7, <1>8, <1>9, <1>10, <1>11, <1>12, <1>13, <1>14, <1>15, <1>16 DEF Next, Main, Reads, Interrupted, Work

\* No step lets a cancellation into the channel before the error that caused it.
LEMMA RootKept ==
  ASSUME FillTypeOK, RootInv, [Next]_vars
  PROVE  RootInv'
<1>. USE DEF FillTypeOK, Stations, RootInv, Listening, Early, mainVars, readVars, workerVars, Goto
<1>1. CASE Send
  BY <1>1 DEF Send
<1>2. CASE TakeError
  <2>1. errCh = <<"database">>
    BY <1>2 DEF TakeError
  <2>2. Head(errCh) = "database"
    BY <2>1
  <2>. QED  BY <1>2, <2>2 DEF TakeError
<1>3. CASE SeeCanceled
  BY <1>3 DEF SeeCanceled
<1>4. CASE CloseJobs
  BY <1>4 DEF CloseJobs
<1>5. CASE Return
  <2>1. main \in {"join", "join_canceled"} /\ errCh # <<>> => Head(errCh) = "database"
    OBVIOUS
  <2>2. main' = "returned" /\ main \in {"join_error", "join_canceled", "join"}
    BY <1>5 DEF Return
  <2>3. main = "join_error" => result' = result
    BY <1>5 DEF Return
  <2>4. main # "join_error" /\ errCh # <<>> => result' = Head(errCh)
    BY <1>5 DEF Return
  <2>5. main = "join" /\ errCh = <<>> => result' = "nil"
    BY <1>5 DEF Return
  <2>6. main = "join_canceled" => errCh # <<>>
    <3>1. <<"database">> # <<>>
      OBVIOUS
    <3>. QED  BY <3>1
  <2>7. result' \in {"none", "nil", "database"}
    BY <2>1, <2>2, <2>3, <2>4, <2>5, <2>6
  <2>. QED  BY <2>2, <2>7
<1>6. ASSUME NEW w \in Worker, Receive(w) \/ Leave(w) \/ Parse(w) \/ Lock(w) \/ Save(w) \/ Saved(w)
      PROVE  RootInv'
  <2>1. /\ UNCHANGED <<main, result, errCh, canceled, err>>
        /\ \A v \in Worker : worker'[v] = worker[v] \/ worker'[v] \notin {"report", "cancel"}
    BY <1>6 DEF Receive, Leave, Parse, Lock, Save, Saved
  <2>. QED  BY <2>1
<1>7. ASSUME NEW w \in Worker, SaveFails(w) PROVE RootInv'
  BY <1>7 DEF SaveFails
<1>8. ASSUME NEW w \in Worker, Report(w) PROVE RootInv'
  BY <1>8 DEF Report
<1>9. ASSUME NEW w \in Worker, CancelOthers(w) PROVE RootInv'
  BY <1>9 DEF CancelOthers
<1>11. CASE Reads
  BY <1>11 DEF Reads, ParseFaculties, ParseGroups, ReaderPanics, StartWorkers
<1>10. CASE UNCHANGED vars
  BY <1>10 DEF vars
<1>. QED
  BY <1>1, <1>2, <1>3, <1>4, <1>5, <1>6, <1>7, <1>8, <1>9, <1>10, <1>11 DEF Next, Main, Reads, Interrupted, Work

-----------------------------------------------------------------------------
\* The lessons.

\* What is saved or found unreadable stays so, and a worker that does not move
\* keeps what it has.
LEMMA FilledStays ==
  ASSUME attends \subseteq attends', NEW g, Filled(g)
  PROVE  Filled(g)'
BY DEF Filled

LEMMA HasStays ==
  ASSUME attends \subseteq attends', NEW w, NEW g, Has(w, g),
         worker'[w] = worker[w], job'[w] = job[w], todo'[w] = todo[w]
  PROVE  Has(w, g)'
BY DEF Has

\* A worker that has left the save with nothing more to do has filled its group.
LEMMA NothingMissing ==
  ASSUME NEW w, NEW g, Has(w, g), worker[w] = "save", todo[w] = <<>>
  PROVE  Filled(g)
<1>1. 1 .. Len(todo[w]) = {}
  OBVIOUS
<1>. QED  BY <1>1 DEF Has, Filled

\* A worker saves the first of its lessons.
LEMMA SaveAdvances ==
  ASSUME FillTypeOK, NEW w \in Worker, Save(w), NEW g, Has(w, g)
  PROVE  Has(w, g)'
<1>1. /\ todo[w] \in Seq(Lesson) /\ todo[w] # <<>> /\ todo'[w] = Tail(todo[w])
      /\ worker' = worker /\ worker[w] = "save" /\ job' = job
      /\ attends' = attends \cup ({Head(todo[w])} \X job[w])
  BY DEF Save, FillTypeOK
<1>2. job[w] = {g}
  BY DEF Has
<1>3. <<Head(todo[w]), g>> \in attends'
  BY <1>1, <1>2
<1>4. ASSUME NEW k \in DOMAIN LessonsOf[g]
      PROVE  \/ <<LessonsOf[g][k], g>> \in attends'
             \/ \E i \in 1 .. Len(todo'[w]) : todo'[w][i] = LessonsOf[g][k]
  <2>1. CASE <<LessonsOf[g][k], g>> \in attends
    BY <1>1, <2>1
  <2>2. ASSUME NEW i \in 1 .. Len(todo[w]), todo[w][i] = LessonsOf[g][k]
        PROVE  \/ <<LessonsOf[g][k], g>> \in attends'
               \/ \E j \in 1 .. Len(todo'[w]) : todo'[w][j] = LessonsOf[g][k]
    <3>1. CASE i = 1
      BY <1>1, <1>3, <2>2, <3>1
    <3>2. CASE i # 1
      <4>1. i - 1 \in 1 .. Len(Tail(todo[w])) /\ Tail(todo[w])[i - 1] = todo[w][i]
        BY <1>1, <3>2
      <4>. QED  BY <1>1, <2>2, <4>1
    <3>. QED  BY <3>1, <3>2
  <2>. QED  BY <1>1, <2>1, <2>2 DEF Has
<1>. QED  BY <1>1, <1>2, <1>4 DEF Has

\* Nobody takes a failed worker for one that has done its work.
LEMMA StillTroubled ==
  ASSUME FillTypeOK, RootInv, [Next]_vars, Untroubled'
  PROVE  Untroubled
<1>. USE DEF FillTypeOK, RootInv, Listening, Early, Untroubled, Stations, mainVars, readVars, workerVars, Goto
<1>1. CASE Main
  BY <1>1 DEF Main, ParseFaculties, ParseGroups, ReaderPanics, StartWorkers, Send, Interrupted,
              TakeError, SeeCanceled, CloseJobs, Return
<1>2. ASSUME NEW w \in Worker, Receive(w) \/ Leave(w) \/ Parse(w) \/ Lock(w) \/ Save(w) \/ Saved(w)
      PROVE  Untroubled
  <2>1. /\ UNCHANGED <<main, errCh>>
        /\ \A v \in Worker : worker'[v] = worker[v] \/ worker[v] \notin {"report", "cancel"}
    BY <1>2 DEF Receive, Leave, Parse, Lock, Save, Saved
  <2>. QED  BY <2>1
<1>3. ASSUME NEW w \in Worker, SaveFails(w) PROVE Untroubled
  BY <1>3 DEF SaveFails
<1>4. ASSUME NEW w \in Worker, Report(w) PROVE Untroubled
  BY <1>4 DEF Report
<1>5. ASSUME NEW w \in Worker, CancelOthers(w) PROVE Untroubled
  <2>1. errCh' = errCh /\ main' = main /\ worker[w] = "cancel"
    BY <1>5 DEF CancelOthers
  <2>2. <<"database">> # <<>>
    OBVIOUS
  <2>. QED  BY <2>1, <2>2
<1>6. CASE UNCHANGED vars
  BY <1>6 DEF vars
<1>. QED  BY <1>1, <1>2, <1>3, <1>4, <1>5, <1>6 DEF Next, Work

\* Jobs are taken by workers in "receive" only, and the channel is closed last.
LEMMA PlaceKept ==
  ASSUME FillTypeOK, PlaceInv, [Next]_vars
  PROVE  PlaceInv'
<1>. USE DEF FillTypeOK, PlaceInv, Early, Stations, mainVars, readVars, workerVars, Goto
<1>1. CASE Main
  <2>1. CASE Send
    BY <1>1, <2>1 DEF Send
  <2>2. CASE CloseJobs
    BY <1>1, <2>2 DEF CloseJobs
  <2>3. CASE TakeError \/ SeeCanceled \/ Return
    BY <1>1, <2>3 DEF TakeError, SeeCanceled, Return
  <2>4. CASE Reads
    <3>1. /\ UNCHANGED <<worker, job, sent, closed>> /\ Early
          /\ main' \in {"faculties", "groups", "send", "panicked"}
      BY <2>4 DEF Reads, ParseFaculties, ParseGroups, ReaderPanics, StartWorkers
    <3>2. sent' = 0 /\ ~closed'
      BY <3>1
    <3>. QED  BY <3>1, <3>2
  <2>. QED  BY <1>1, <2>1, <2>2, <2>3, <2>4 DEF Main, Reads, Interrupted
<1>2. ASSUME NEW w \in Worker, Receive(w) PROVE PlaceInv'
  <2>1. Head(jobs) \in Group /\ job'[w] = {Head(jobs)}
    BY <1>2 DEF Receive
  <2>2. UNCHANGED mainVars /\ \A v \in Worker \ {w} : worker'[v] = worker[v] /\ job'[v] = job[v]
    BY <1>2 DEF Receive
  <2>. QED  BY <2>1, <2>2
<1>3. ASSUME NEW w \in Worker, Parse(w) \/ Lock(w) \/ Save(w) \/ SaveFails(w)
      PROVE  PlaceInv'
  <2>1. /\ UNCHANGED mainVars /\ job' = job
        /\ \A v \in Worker : worker'[v] \in {"parse", "lock", "save"} =>
                               worker[v] \in {"parse", "lock", "save"}
    BY <1>3 DEF Parse, Lock, Save, SaveFails
  <2>. QED  BY <2>1
<1>4. ASSUME NEW w \in Worker, Leave(w) \/ Saved(w) \/ Report(w) \/ CancelOthers(w)
      PROVE  PlaceInv'
  <2>1. /\ UNCHANGED mainVars
        /\ \A v \in Worker : worker'[v] \in {"parse", "lock", "save"} =>
                               worker'[v] = worker[v] /\ job'[v] = job[v]
    BY <1>4 DEF Leave, Saved, Report, CancelOthers
  <2>. QED  BY <2>1
<1>5. CASE UNCHANGED vars
  BY <1>5 DEF vars
<1>. QED  BY <1>1, <1>2, <1>3, <1>4, <1>5 DEF Next, Work

\* A group stays covered if its job and its worker are accounted for.
LEMMA CoveredStays ==
  ASSUME attends \subseteq attends', unread \subseteq unread', NEW g, Covered(g),
         \A i \in 1 .. Len(jobs) : jobs[i] = g => Covered(g)',
         \A w \in Worker : Has(w, g) => Covered(g)'
  PROVE  Covered(g)'
<1>1. g \in unread => g \in unread'
  OBVIOUS
<1>2. Filled(g) => Filled(g)'
  BY FilledStays
<1>3. g \in unread' \/ Filled(g)' => Covered(g)'
  BY DEF Covered
<1>. QED  BY <1>1, <1>2, <1>3 DEF Covered

\* The main goroutine loses no group.
LEMMA MainCovers ==
  ASSUME FullInv, Main, Untroubled, Untroubled'
  PROVE  CoverInv'
<1>. USE DEF mainVars, readVars, workerVars
<1>1. UNCHANGED <<workerVars, attends, unread>>
  BY DEF Main, ParseFaculties, ParseGroups, ReaderPanics, StartWorkers, Send, Interrupted,
         TakeError, SeeCanceled, CloseJobs, Return
<1>2. \A w, g : Has(w, g) => Has(w, g)'
  BY <1>1, HasStays
<1>3. jobs \in Seq(Group) /\ sent \in 0 .. Len(allGroups) /\ Len(allGroups) \in Nat
      /\ allGroups \in Seq(Group)
  BY DEF FullInv, FillTypeOK
<1>4. CASE Send
  <2>1. /\ jobs' = Append(jobs, allGroups[sent + 1]) /\ sent' = sent + 1
        /\ allGroups[sent + 1] \in Group /\ allGroups' = allGroups
    BY <1>3, <1>4 DEF Send
  <2>2. \A i \in 1 .. Len(jobs) : i \in 1 .. Len(jobs') /\ jobs'[i] = jobs[i]
    BY <1>3, <2>1
  <2>3. Len(jobs') \in 1 .. Len(jobs') /\ jobs'[Len(jobs')] = allGroups[sent + 1]
    BY <1>3, <2>1
  <2>4. ASSUME NEW k \in 1 .. sent PROVE Covered(allGroups[k])'
    <3>1. Covered(allGroups[k])
      BY DEF FullInv, FillInv, CoverInv
    <3>2. \A i \in 1 .. Len(jobs) : jobs[i] = allGroups[k] => Covered(allGroups[k])'
      BY <2>1, <2>2 DEF Covered
    <3>3. \A w \in Worker : Has(w, allGroups[k]) => Covered(allGroups[k])'
      BY <1>2, <2>1 DEF Covered
    <3>. QED  BY <1>1, <2>1, <3>1, <3>2, <3>3, CoveredStays
  <2>5. ASSUME NEW k \in {sent + 1} PROVE Covered(allGroups[k])'
    BY <2>1, <2>3 DEF Covered
  <2>6. \A w \in Worker : worker'[w] # "returned"
    BY <1>1, <1>4 DEF Send, FullInv, FillInv, PlaceInv, CoverInv
  <2>7. ASSUME NEW k \in 1 .. sent' PROVE Covered(allGroups[k])'
    <3>1. k \in 1 .. sent \/ k \in {sent + 1}
      BY <1>3, <2>1
    <3>. QED  BY <2>4, <2>5, <3>1
  <2>. QED  BY <2>6, <2>7 DEF CoverInv
<1>5. CASE CloseJobs
  <2>1. sent' = sent /\ jobs' = jobs /\ closed' = TRUE /\ allGroups' = allGroups
    BY <1>5 DEF CloseJobs
  <2>2. ASSUME NEW k \in 1 .. sent PROVE Covered(allGroups[k])'
    <3>1. Covered(allGroups[k])
      BY DEF FullInv, FillInv, CoverInv
    <3>2. \A i \in 1 .. Len(jobs) : jobs[i] = allGroups[k] => Covered(allGroups[k])'
      BY <2>1 DEF Covered
    <3>3. \A w \in Worker : Has(w, allGroups[k]) => Covered(allGroups[k])'
      BY <1>2, <2>1 DEF Covered
    <3>. QED  BY <1>1, <2>1, <3>1, <3>2, <3>3, CoveredStays
  <2>. QED  BY <1>1, <2>1, <2>2 DEF CoverInv, FullInv, FillInv
<1>6. CASE Interrupted \/ Return
  <2>1. main' \in {"join_error", "join_canceled", "returned"}
    BY <1>6 DEF Interrupted, TakeError, SeeCanceled, Return
  <2>. QED  BY <2>1 DEF Untroubled, Early
<1>7. CASE Reads
  <2>1. sent' = 0 /\ jobs' = jobs /\ closed' = closed /\ worker' = worker
    BY <1>7 DEF Reads, ParseFaculties, ParseGroups, ReaderPanics, StartWorkers, FullInv, FillInv,
                PlaceInv, Early
  <2>2. 1 .. sent' = {}
    BY <2>1
  <2>. QED  BY <2>1, <2>2 DEF CoverInv, FullInv, FillInv
<1>. QED  BY <1>4, <1>5, <1>6, <1>7 DEF Main, Reads

\* A worker loses no group either, unless it fails.
LEMMA WorkCovers ==
  ASSUME FullInv, NEW w \in Worker, Work(w), Untroubled, Untroubled'
  PROVE  CoverInv'
<1>. USE DEF mainVars, readVars, workerVars, Goto
<1>1. /\ UNCHANGED mainVars /\ attends \subseteq attends' /\ unread \subseteq unread'
      /\ \A v \in Worker \ {w} :
           worker'[v] = worker[v] /\ job'[v] = job[v] /\ todo'[v] = todo[v]
  BY DEF Work, Receive, Leave, Parse, Lock, Save, SaveFails, Saved, Report, CancelOthers,
         FullInv, FillTypeOK
<1>2. /\ jobs \in Seq(Group) /\ \A k \in 1 .. sent : Covered(allGroups[k])
      /\ \A v \in Worker : worker[v] = "returned" => jobs = <<>> /\ closed
  BY DEF FullInv, FillTypeOK, FillInv, CoverInv
<1>3. \A v \in Worker \ {w}, g \in Group : Has(v, g) => Has(v, g)'
  BY <1>1, HasStays
<1>4. worker[w] \notin {"report", "cancel"} /\ worker'[w] \notin {"report", "cancel"}
  BY DEF Untroubled
<1>5. allGroups' = allGroups /\ \A k \in 1 .. sent : allGroups[k] \in Group
  BY <1>1 DEF FullInv, FillTypeOK
<1>6. ASSUME \A g \in Group : \A i \in 1 .. Len(jobs) : jobs[i] = g => Covered(g)',
             \A g \in Group : Has(w, g) => Covered(g)',
             \A v \in Worker : worker'[v] = "returned" => jobs' = <<>> /\ closed'
      PROVE  CoverInv'
  <2>1. ASSUME NEW k \in 1 .. sent PROVE Covered(allGroups[k])'
    <3>1. Covered(allGroups[k]) /\ allGroups[k] \in Group
      BY <1>2, <1>5
    <3>2. \A v \in Worker : Has(v, allGroups[k]) => Covered(allGroups[k])'
      BY <1>3, <1>5, <1>6, <3>1 DEF Covered
    <3>. QED  BY <1>1, <1>5, <1>6, <3>1, <3>2, CoveredStays
  <2>2. sent' = sent
    BY <1>1
  <2>. QED  BY <1>6, <2>1, <2>2 DEF CoverInv
<1>7. jobs' = jobs =>
        \A g \in Group : \A i \in 1 .. Len(jobs) : jobs[i] = g => Covered(g)'
  BY DEF Covered
<1>8. jobs' = jobs /\ worker'[w] # "returned" =>
        \A v \in Worker : worker'[v] = "returned" => jobs' = <<>> /\ closed'
  BY <1>1, <1>2
<1>9. CASE Receive(w)
  <2>1. /\ jobs # <<>> /\ jobs' = Tail(jobs) /\ worker[w] = "receive"
        /\ worker'[w] = "parse" /\ job'[w] = {Head(jobs)}
    BY <1>9 DEF Receive, FullInv, FillTypeOK
  <2>2. ASSUME NEW g \in Group, NEW i \in 1 .. Len(jobs), jobs[i] = g PROVE Covered(g)'
    <3>1. CASE i = 1
      <4>1. Has(w, g)'
        BY <1>2, <2>1, <2>2, <3>1 DEF Has
      <4>. QED  BY <4>1 DEF Covered
    <3>2. CASE i # 1
      <4>1. i - 1 \in 1 .. Len(jobs') /\ jobs'[i - 1] = g
        BY <1>2, <2>1, <2>2, <3>2
      <4>. QED  BY <4>1 DEF Covered
    <3>. QED  BY <3>1, <3>2
  <2>3. \A g \in Group : ~Has(w, g)
    BY <2>1 DEF Has
  <2>4. \A v \in Worker : worker'[v] # "returned"
    BY <1>1, <1>2, <2>1
  <2>. QED  BY <1>6, <2>2, <2>3, <2>4
<1>10. CASE Leave(w)
  <2>1. jobs' = jobs /\ jobs = <<>> /\ closed' /\ worker[w] = "receive"
    BY <1>10 DEF Leave
  <2>2. \A g \in Group : ~Has(w, g)
    BY <2>1 DEF Has
  <2>. QED  BY <1>6, <1>7, <2>1, <2>2
<1>11. CASE Parse(w)
  <2>1. jobs' = jobs /\ worker'[w] = "lock" /\ job' = job
    BY <1>11 DEF Parse, FullInv, FillTypeOK
  <2>2. ASSUME NEW g \in Group, Has(w, g) PROVE Covered(g)'
    <3>1. job[w] = {g}
      BY <2>2 DEF Has
    <3>2. CASE g \in unread'
      BY <3>2 DEF Covered
    <3>3. CASE todo'[w] = LessonsOf[g]
      <4>1. \A k \in DOMAIN LessonsOf[g] : k \in 1 .. Len(todo'[w])
        BY <3>3, GroupsTyped
      <4>2. Has(w, g)'
        BY <2>1, <3>1, <3>3, <4>1 DEF Has
      <4>. QED  BY <4>2 DEF Covered
    <3>. QED  BY <1>11, <3>1, <3>2, <3>3 DEF Parse, FullInv, FillTypeOK
  <2>. QED  BY <1>6, <1>7, <1>8, <2>1, <2>2
<1>12. CASE Lock(w)
  <2>1. /\ jobs' = jobs /\ worker[w] = "lock" /\ worker'[w] = "save"
        /\ job' = job /\ todo' = todo /\ attends' = attends
    BY <1>12 DEF Lock, FullInv, FillTypeOK
  <2>2. ASSUME NEW g \in Group, Has(w, g) PROVE Covered(g)'
    <3>1. Has(w, g)'
      BY <2>1, <2>2 DEF Has
    <3>. QED  BY <3>1 DEF Covered
  <2>. QED  BY <1>6, <1>7, <1>8, <2>1, <2>2
<1>13. CASE Save(w)
  <2>1. jobs' = jobs /\ worker'[w] = "save"
    BY <1>13 DEF Save
  <2>2. ASSUME NEW g \in Group, Has(w, g) PROVE Covered(g)'
    <3>1. Has(w, g)'
      BY <1>13, <2>2, SaveAdvances DEF FullInv
    <3>. QED  BY <3>1 DEF Covered
  <2>. QED  BY <1>6, <1>7, <1>8, <2>1, <2>2
<1>14. CASE Saved(w)
  <2>1. /\ jobs' = jobs /\ worker[w] = "save" /\ todo[w] = <<>> /\ worker'[w] = "receive"
    BY <1>14 DEF Saved, FullInv, FillTypeOK
  <2>2. ASSUME NEW g \in Group, Has(w, g) PROVE Covered(g)'
    <3>1. Filled(g)
      BY <2>1, <2>2, NothingMissing
    <3>2. Filled(g)'
      BY <1>1, <3>1, FilledStays
    <3>. QED  BY <3>2 DEF Covered
  <2>. QED  BY <1>6, <1>7, <1>8, <2>1, <2>2
<1>15. CASE SaveFails(w) \/ Report(w) \/ CancelOthers(w)
  BY <1>4, <1>15 DEF SaveFails, Report, CancelOthers, FullInv, FillTypeOK
<1>. QED  BY <1>9, <1>10, <1>11, <1>12, <1>13, <1>14, <1>15 DEF Work

LEMMA CoverKept ==
  ASSUME FullInv, [Next]_vars
  PROVE  CoverInv'
<1>1. CASE ~Untroubled'
  BY <1>1 DEF CoverInv
<1>2. CASE Untroubled'
  <2>1. Untroubled
    BY <1>2, StillTroubled DEF FullInv
  <2>2. CASE UNCHANGED vars
    <3>1. \A g : Covered(g)' <=> Covered(g)
      BY <2>2 DEF vars, mainVars, readVars, workerVars, Covered, Filled, Has
    <3>. QED  BY <2>1, <2>2, <3>1 DEF vars, mainVars, readVars, workerVars, FullInv, FillInv, CoverInv
  <2>. QED  BY <1>2, <2>1, <2>2, MainCovers, WorkCovers DEF Next
<1>. QED  BY <1>1, <1>2

\* Only a return without an error reports success, when all groups have been
\* sent and taken and every worker has ended its last one.
LEMMA DoneKept ==
  ASSUME FullInv, [Next]_vars
  PROVE  DoneInv'
<1>. USE DEF mainVars, readVars, workerVars
<1>1. attends \subseteq attends' /\ unread \subseteq unread'
  BY DEF Next, Main, ParseFaculties, ParseGroups, ReaderPanics, StartWorkers, Send, Interrupted, TakeError, SeeCanceled, CloseJobs, Return, Work, Receive,
         Leave, Parse, Lock, Save, SaveFails, Saved, Report, CancelOthers, vars, FullInv, FillTypeOK
<1>2. CASE Return /\ main = "join" /\ errCh = <<>>
  <2>1. /\ main' = "returned" /\ UNCHANGED <<workerVars, jobs, attends, unread, allGroups>>
        /\ \A w \in Worker : worker[w] = "returned"
    BY <1>2 DEF Return
  <2>2. Untroubled /\ sent = Len(allGroups)
    BY <1>2, <2>1 DEF Untroubled, FullInv, FillInv, PlaceInv
  <2>3. jobs = <<>>
    BY <2>1, <2>2, FillAssumption DEF FullInv, FillInv, CoverInv
  <2>4. ASSUME NEW g, Found(g), g \notin unread PROVE Filled(g)
    <3>1. PICK k \in 1 .. sent : g = allGroups[k]
      BY <2>2, <2>4 DEF Found
    <3>2. Covered(g)
      BY <2>2, <3>1 DEF FullInv, FillInv, CoverInv
    <3>3. \A w \in Worker : ~Has(w, g)
      BY <2>1 DEF Has
    <3>4. 1 .. Len(jobs) = {}
      BY <2>3
    <3>. QED  BY <2>4, <3>2, <3>3, <3>4 DEF Covered
  <2>5. \A g : Found(g)' <=> Found(g)
    BY <2>1 DEF Found
  <2>. QED  BY <1>1, <2>1, <2>4, <2>5, FilledStays DEF DoneInv
<1>3. CASE Return /\ ~(main = "join" /\ errCh = <<>>)
  <2>1. main' = "returned" /\ UNCHANGED <<attends, unread, allGroups>>
    BY <1>3 DEF Return
  <2>2. result' = "nil" => main = "join_error" /\ result = "nil"
    <3>1. main \in {"join", "join_canceled"} /\ errCh # <<>> => Head(errCh) = "database"
      BY DEF FullInv, RootInv, Listening
    <3>. QED  BY <1>3, <3>1 DEF Return
  <2>3. result # "nil" \/ main = "returned"
    BY DEF FullInv, FillInv, DoneInv
  <2>. QED  BY <2>2, <2>3 DEF DoneInv
<1>4. CASE ~Return
  <2>1. result' = "nil" => result = "nil" /\ main' = main
    <3>1. CASE TakeError
      <4>1. Head(errCh) = "database"
        BY <3>1 DEF TakeError, FullInv, RootInv, Listening
      <4>. QED  BY <3>1, <4>1 DEF TakeError
    <3>2. CASE Reads \/ Send \/ SeeCanceled \/ CloseJobs
      BY <3>2 DEF Reads, ParseFaculties, ParseGroups, ReaderPanics, StartWorkers, Send, SeeCanceled,
                  CloseJobs, FullInv, RootInv, Listening, Early
    <3>3. ASSUME NEW w \in Worker, Work(w) PROVE UNCHANGED <<main, result>>
      BY <3>3 DEF Work, Receive, Leave, Parse, Lock, Save, SaveFails, Saved, Report, CancelOthers
    <3>. QED  BY <1>4, <3>1, <3>2, <3>3 DEF Next, Main, Reads, Interrupted, vars
  <2>2. result = "nil" => main = "returned"
    BY DEF FullInv, FillInv, DoneInv
  <2>3. result = "nil" /\ main = "returned" => allGroups' = allGroups
    BY DEF Next, Main, ParseFaculties, ParseGroups, ReaderPanics, StartWorkers, Send, Interrupted,
           TakeError, SeeCanceled, CloseJobs, Return, Work, Receive, Leave, Parse, Lock, Save,
           SaveFails, Saved, Report, CancelOthers, vars
  <2>4. allGroups' = allGroups => \A g : Found(g)' <=> Found(g)
    BY DEF Found
  <2>. QED  BY <1>1, <2>1, <2>2, <2>3, <2>4, FilledStays DEF FullInv, FillInv, DoneInv
<1>. QED  BY <1>2, <1>3, <1>4

\* What has been found stays so, and a page of a faculty adds its groups.
LEMMA SeenKept ==
  ASSUME FullInv, [Next]_vars
  PROVE  SeenInv'
<1>. USE DEF mainVars, readVars, workerVars
<1>1. CASE UNCHANGED <<allGroups, seen>>
  <2>1. \A g : Found(g)' <=> Found(g)
    BY <1>1 DEF Found
  <2>. QED  BY <1>1, <2>1 DEF FullInv, FillInv, SeenInv
<1>2. CASE ParseGroups /\ ~UNCHANGED <<allGroups, seen>>
  <2>1. /\ faculty \in DOMAIN Faculties /\ Faculties[faculty] \in Seq(Group)
        /\ allGroups \in Seq(Group)
        /\ allGroups' = allGroups \o Faculties[faculty] /\ seen' = seen \cup {faculty}
    BY <1>2, GroupsTyped DEF ParseGroups, FullInv, FillTypeOK
  <2>2. ASSUME NEW g, Found(g) PROVE Found(g)'
    <3>1. PICK i \in 1 .. Len(allGroups) : allGroups[i] = g
      BY <2>2 DEF Found
    <3>2. i \in 1 .. Len(allGroups') /\ allGroups'[i] = g
      BY <2>1, <3>1
    <3>. QED  BY <3>2 DEF Found
  <2>3. ASSUME NEW g \in GroupsOf(faculty) PROVE Found(g)'
    <3>1. PICK k \in DOMAIN Faculties[faculty] : g = Faculties[faculty][k]
      BY DEF GroupsOf
    <3>2. /\ Len(allGroups) + k \in 1 .. Len(allGroups')
          /\ allGroups'[Len(allGroups) + k] = g
      BY <2>1, <3>1
    <3>. QED  BY <3>2 DEF Found
  <2>. QED  BY <2>1, <2>2, <2>3 DEF FullInv, FillInv, SeenInv
<1>3. ~ParseGroups => UNCHANGED <<allGroups, seen>>
  BY DEF Next, Main, ParseFaculties, ReaderPanics, StartWorkers, Send, Interrupted, TakeError,
         SeeCanceled, CloseJobs, Return, Work, Receive, Leave, Parse, Lock, Save, SaveFails, Saved,
         Report, CancelOthers, vars
<1>. QED  BY <1>1, <1>2, <1>3

-----------------------------------------------------------------------------

LEMMA FullInvariant == Spec => []FullInv
<1>1. Init => FullInv
  <2>. SUFFICES ASSUME Init PROVE FullInv
    OBVIOUS
  <2>1. RootInv
    BY DEF Init, RootInv, Listening, Early
  <2>2. PlaceInv /\ CoverInv /\ DoneInv /\ SeenInv
    BY DEF Init, PlaceInv, CoverInv, DoneInv, SeenInv, Early
  <2>. QED  BY <2>1, <2>2, FillTypeInit DEF FullInv, FillInv
<1>2. FullInv /\ [Next]_vars => FullInv'
  <2>. SUFFICES ASSUME FullInv, [Next]_vars PROVE FullInv'
    OBVIOUS
  <2>1. FillTypeOK' /\ RootInv' /\ PlaceInv'
    BY FillTypeKept, RootKept, PlaceKept DEF FullInv, FillInv
  <2>. QED  BY <2>1, CoverKept, DoneKept, SeenKept DEF FullInv, FillInv
<1>. QED  BY <1>1, <1>2, PTL DEF Spec

\* fillGroupsParallel returns the error that stopped the fill, never the
\* cancellation it caused, whichever worker or channel is looked at first.
THEOREM RootCauseIsReported == Spec => []RootCauseReported
<1>1. FullInv => RootCauseReported
  BY DEF FullInv, RootInv, RootCauseReported
<1>. QED  BY <1>1, FullInvariant, PTL

\* When it returns no error the timetable is as complete as the pages that could
\* be had: no faculty's groups are lost on the way to the channel, no group
\* between the channel and the workers, and none is left half saved.
THEOREM SuccessIsComplete == Spec => []SuccessMeansFilled
<1>1. FullInv => SuccessMeansFilled
  BY DEF FullInv, FillInv, DoneInv, SeenInv, Filled, SuccessMeansFilled
<1>. QED  BY <1>1, FullInvariant, PTL

-----------------------------------------------------------------------------
\* The calendar.

\* The days of the years that ParserService knows.
Last == Parser!JanuaryFirst(2099)
Days == {day \in Nat : day < Last}

LEMMA LastDay == Last = 27394
BY DEF Last, Parser!JanuaryFirst

\* Every fourth year is longer by a day.
LEMMA YearLength ==
  ASSUME NEW y \in 2024 .. 2099
  PROVE  /\ Parser!JanuaryFirst(y) \in Nat
         /\ Parser!JanuaryFirst(y + 1) - Parser!JanuaryFirst(y) \in {365, 366}
BY DEF Parser!JanuaryFirst

LEMMA YearsAscend ==
  ASSUME NEW y \in 2024 .. 2099, NEW z \in 2024 .. 2099, y < z
  PROVE  Parser!JanuaryFirst(y + 1) <= Parser!JanuaryFirst(z)
BY DEF Parser!JanuaryFirst

\* YearOf chooses the year that the day is in.
LEMMA YearFound ==
  ASSUME NEW day \in Days
  PROVE  /\ Parser!YearOf(day) \in 2024 .. 2099
         /\ Parser!JanuaryFirst(Parser!YearOf(day)) <= day
         /\ day < Parser!JanuaryFirst(Parser!YearOf(day) + 1)
<1>. DEFINE k == (4 * day) \div 1461
            y == 2024 + k
<1>0. day \in Nat /\ day < 27394
  BY LastDay DEF Days
<1>1. /\ k \in 0 .. 75 /\ 365 * k + (k + 3) \div 4 <= day
      /\ day < 365 * (k + 1) + (k + 4) \div 4
  BY <1>0
<1>. HIDE DEF k
<1>2. /\ Parser!JanuaryFirst(y) = 365 * k + (k + 3) \div 4
      /\ Parser!JanuaryFirst(y + 1) = 365 * (k + 1) + (k + 4) \div 4
  BY <1>1 DEF Parser!JanuaryFirst
<1>3. y \in 2024 .. 2099 /\ Parser!JanuaryFirst(y) <= day /\ day < Parser!JanuaryFirst(y + 1)
  BY <1>1, <1>2
<1>. HIDE DEF y
<1>. QED  BY <1>3 DEF Parser!YearOf

LEMMA YearIs ==
  ASSUME NEW day \in Days, NEW y \in 2024 .. 2099,
         Parser!JanuaryFirst(y) <= day, day < Parser!JanuaryFirst(y + 1)
  PROVE  Parser!YearOf(day) = y
<1>. DEFINE z == Parser!YearOf(day)
<1>1. z \in 2024 .. 2099 /\ Parser!JanuaryFirst(z) <= day /\ day < Parser!JanuaryFirst(z + 1)
  BY YearFound
<1>. HIDE DEF z
<1>2. /\ Parser!JanuaryFirst(y) \in Nat /\ Parser!JanuaryFirst(z) \in Nat /\ day \in Nat
      /\ Parser!JanuaryFirst(y + 1) \in Int /\ Parser!JanuaryFirst(z + 1) \in Int
  BY <1>1 DEF Days, Parser!JanuaryFirst
<1>3. ~(y < z) /\ ~(z < y)
  BY <1>1, <1>2, YearsAscend
<1>4. z = y
  BY <1>1, <1>3
<1>. QED  BY <1>4 DEF z

\* Weeks are counted up, and begin again after the 52nd or the 53rd.
LEMMA WeekAfter ==
  ASSUME NEW day \in Nat, day + 14 \in Days
  PROVE  /\ Parser!IsoWeek(day) \in 1 .. 53
         /\ \/ Parser!IsoWeek(day + 7) = Parser!IsoWeek(day) + 1
            \/ Parser!IsoWeek(day + 7) = 1 /\ Parser!IsoWeek(day) \in {52, 53}
<1>. DEFINE t == day - (day % 7) + 3
            y == Parser!YearOf(t)
            a == Parser!JanuaryFirst(y)
            b == Parser!JanuaryFirst(y + 1)
            u == (day + 7) - ((day + 7) % 7) + 3
<1>1. t \in Nat /\ t \in Days /\ t + 7 \in Days /\ u = t + 7
  <2>1. day + 14 < Last /\ Last \in Nat
    BY LastDay DEF Days
  <2>2. t \in Nat /\ t < Last /\ t + 7 < Last
    BY <2>1
  <2>3. (day + 7) % 7 = day % 7
    OBVIOUS
  <2>4. u = t + 7
    BY <2>3
  <2>. HIDE DEF t, u
  <2>. QED  BY <2>2, <2>4 DEF Days
<1>a. Parser!IsoWeek(day) = (t - a) \div 7 + 1
  BY DEF Parser!IsoWeek
<1>b. Parser!IsoWeek(day + 7) = (u - Parser!JanuaryFirst(Parser!YearOf(u))) \div 7 + 1
  BY DEF Parser!IsoWeek
<1>. HIDE DEF t, u
<1>2. y \in 2024 .. 2099 /\ a <= t /\ t < b /\ a \in Nat /\ b - a \in {365, 366} /\ b \in Nat
  <2>1. y \in 2024 .. 2099 /\ a <= t /\ t < b
    BY <1>1, YearFound
  <2>2. a \in Nat /\ b - a \in {365, 366}
    BY <2>1, YearLength
  <2>3. b \in Int
    BY <2>1 DEF Parser!JanuaryFirst
  <2>. HIDE DEF y, a, b
  <2>. QED  BY <2>1, <2>2, <2>3
<1>3. /\ Parser!IsoWeek(day) = (t - a) \div 7 + 1
      /\ Parser!IsoWeek(day + 7) = ((t + 7) - Parser!JanuaryFirst(Parser!YearOf(t + 7))) \div 7 + 1
  <2>1. t + 7 = u
    BY <1>1
  <2>2. Parser!IsoWeek(day + 7) = ((t + 7) - Parser!JanuaryFirst(Parser!YearOf(t + 7))) \div 7 + 1
    BY Zenon, <1>b, <2>1
  <2>. QED  BY <1>a, <2>2
<1>. HIDE DEF y
<1>4. CASE t + 7 < b
  <2>1. Parser!YearOf(t + 7) = y
    <3>. HIDE DEF a, b
    <3>. QED  BY <1>1, <1>2, <1>4, YearIs DEF a, b
  <2>2. Parser!IsoWeek(day + 7) = ((t + 7) - a) \div 7 + 1
    BY <1>3, <2>1
  <2>. HIDE DEF a, b
  <2>. QED  BY <1>1, <1>2, <1>3, <2>2
<1>5. CASE ~(t + 7 < b)
  <2>1. y + 1 \in 2024 .. 2099
    <3>1. y = 2099 => a = Last
      BY DEF Last
    <3>2. t < Last /\ Last \in Nat
      BY <1>1, LastDay DEF Days
    <3>. HIDE DEF a, b
    <3>. QED  BY <1>1, <1>2, <3>1, <3>2
  <2>2. t + 7 < Parser!JanuaryFirst((y + 1) + 1) /\ Parser!JanuaryFirst(y + 1) <= t + 7
    <3>1. /\ Parser!JanuaryFirst((y + 1) + 1) - b \in {365, 366}
          /\ Parser!JanuaryFirst((y + 1) + 1) \in Int
      BY <2>1, YearLength DEF Parser!JanuaryFirst
    <3>. HIDE DEF a
    <3>. QED  BY <1>1, <1>2, <1>5, <3>1
  <2>3. Parser!YearOf(t + 7) = y + 1
    BY <1>1, <2>1, <2>2, YearIs
  <2>4. Parser!IsoWeek(day + 7) = ((t + 7) - b) \div 7 + 1
    BY <1>3, <2>3
  <2>. HIDE DEF a, b
  <2>. QED  BY <1>1, <1>2, <1>3, <1>5, <2>4
<1>. QED  BY <1>4, <1>5

\* The week begins with Monday.
LEMMA WeekStartIs ==
  ASSUME NEW day \in Nat
  PROVE  /\ Parser!WeekStart(day) = day - (day % 7) /\ Parser!WeekStart(day) \in Nat
         /\ Parser!WeekStart(day) % 7 = 0
<1>1. (day - (day % 7)) % 7 = 0 /\ day - (day % 7) \in Nat
  OBVIOUS
<1>2. Parser!WeekStart(day) = day - (day % 7)
  BY DEF Parser!WeekStart, Parser!WeekdayOf
<1>. QED  BY <1>1, <1>2

\* Days of one weekday are whole weeks apart.
LEMMA SameWeekday ==
  ASSUME NEW s \in Nat, NEW t \in Nat, s < t, Parser!WeekdayOf(s) = Parser!WeekdayOf(t)
  PROVE  t = s + 7 \/ t = s + 14 \/ t = s + 21 \/ t > s + 21
BY DEF Parser!WeekdayOf

LEMMA NextWeek ==
  ASSUME NEW day \in Nat
  PROVE  Parser!WeekdayOf(day + 7) = Parser!WeekdayOf(day)
BY DEF Parser!WeekdayOf

-----------------------------------------------------------------------------
\* Weekly lessons.

\* A lesson on the days of its weekday and kind of week, from Monday on.
LEMMA DaysOfLesson ==
  ASSUME NEW today \in Nat, NEW lesson, lesson.weekday \in 0 .. 6
  PROVE  Parser!DaysOf(lesson, today) =
           {day \in today - (today % 7) .. today - (today % 7) + 7 * WeeksAhead - 1 :
              Parser!WeekdayOf(day) = lesson.weekday /\ Parser!MatchesWeek(lesson.week, day)}
<1>. DEFINE first == today - (today % 7)
            o == Parser!WeekdayOffset(lesson.weekday)
<1>0. Parser!WeekStart(today) = first /\ Parser!WeekStart(today) \in Nat /\ Parser!WeekStart(today) % 7 = 0
  BY WeekStartIs
<1>1. first \in Nat /\ first % 7 = 0 /\ Parser!WeekStart(today) = first /\ WeeksAhead \in Nat
  <2>1. WeeksAhead \in Nat
    BY ParserAssumption
  <2>. HIDE DEF first
  <2>. QED  BY <1>0, <2>1
<1>2. o \in 0 .. 6 /\ (o + 1) % 7 = lesson.weekday
  <2>. DEFINE w == lesson.weekday
  <2>1. w \in 0 .. 6 /\ o = IF w = 0 THEN 6 ELSE w - 1
    BY DEF Parser!WeekdayOffset
  <2>. HIDE DEF w, o
  <2>2. (o + 1) % 7 = w
    BY <2>1
  <2>. QED  BY <2>1, <2>2 DEF w
<1>. HIDE DEF first, o
<1>3. ASSUME NEW week \in 0 .. WeeksAhead - 1
      PROVE  /\ first + 7 * week + o \in first .. first + 7 * WeeksAhead - 1
             /\ Parser!WeekdayOf(first + 7 * week + o) = lesson.weekday
  <2>1. (first + 7 * week + o) % 7 = o
    BY <1>1, <1>2
  <2>2. (first + 7 * week + o + 1) % 7 = (o + 1) % 7
    BY <1>1, <1>2
  <2>. QED  BY <1>1, <1>2, <2>2 DEF Parser!WeekdayOf
<1>4. ASSUME NEW day \in first .. first + 7 * WeeksAhead - 1, Parser!WeekdayOf(day) = lesson.weekday
      PROVE  \E week \in 0 .. WeeksAhead - 1 : day = first + 7 * week + o
  <2>. DEFINE week == (day - first) \div 7
  <2>1. week \in 0 .. WeeksAhead - 1
    BY <1>1
  <2>2. (day - first) % 7 = o
    BY <1>1, <1>2, <1>4 DEF Parser!WeekdayOf
  <2>3. day = first + 7 * week + o
    BY <1>1, <2>2
  <2>. HIDE DEF week
  <2>. QED  BY <2>1, <2>3
<1>5. Parser!DaysOf(lesson, today) =
        {day \in {first + 7 * week + o : week \in 0 .. WeeksAhead - 1} : Parser!MatchesWeek(lesson.week, day)}
  BY <1>1 DEF Parser!DaysOf, o
<1>. QED  BY <1>3, <1>4, <1>5 DEF first

\* The kinds of two weeks, the second after the first.
LEMMA Kinds ==
  ASSUME NEW x \in 1 .. 53, NEW y, y = x + 1 \/ (y = 1 /\ x \in {52, 53})
  PROVE  /\ x % 2 = 0 => y % 2 # 0
         /\ (x % 2 # 0 /\ y % 2 # 0) => (x = 53 /\ y = 1)
         /\ (x % 2 # 0 /\ y % 2 = 0) => y = x + 1
<1>1. CASE y = x + 1
  <2>1. (x % 2 = 0 /\ (x + 1) % 2 = 1) \/ (x % 2 = 1 /\ (x + 1) % 2 = 0)
    OBVIOUS
  <2>. QED  BY <1>1, <2>1
<1>2. CASE y = 1 /\ x = 52
  BY <1>2
<1>3. CASE y = 1 /\ x = 53
  BY <1>3
<1>. QED  BY <1>1, <1>2, <1>3

\* Odd weeks follow each other only after a 53rd, and even weeks then are three apart.
LEMMA NextOfKind ==
  ASSUME NEW today \in Nat, today + 7 * WeeksAhead + 7 < Last,
         NEW lesson, lesson.weekday \in 0 .. 6, lesson.week \in {"odd", "even"},
         NEW s \in Parser!DaysOf(lesson, today), NEW t \in Parser!DaysOf(lesson, today), s < t,
         \A u \in Parser!DaysOf(lesson, today) : u <= s \/ u >= t
  PROVE  \/ t - s = 14
         \/ /\ \E day \in s .. t : Parser!IsoWeek(day) = 53
            /\ t - s = (IF lesson.week = "odd" THEN 7 ELSE 21)
<1>. DEFINE first == today - (today % 7)
            end == first + 7 * WeeksAhead - 1
            n(d) == Parser!IsoWeek(d)
<1>1. /\ first \in Nat /\ first <= today /\ end \in Int /\ WeeksAhead \in Nat
      /\ Parser!DaysOf(lesson, today) =
           {day \in first .. end :
              Parser!WeekdayOf(day) = lesson.weekday /\ Parser!MatchesWeek(lesson.week, day)}
  <2>1. Parser!WeekStart(today) = first /\ Parser!WeekStart(today) \in Nat
    BY WeekStartIs
  <2>2. WeeksAhead \in Nat
    BY ParserAssumption
  <2>3. first <= today
    OBVIOUS
  <2>4. Parser!DaysOf(lesson, today) =
          {day \in first .. end :
             Parser!WeekdayOf(day) = lesson.weekday /\ Parser!MatchesWeek(lesson.week, day)}
    BY DaysOfLesson
  <2>. HIDE DEF first
  <2>. QED  BY <2>1, <2>2, <2>3, <2>4
<1>. HIDE DEF first
<1>2. /\ s \in Nat /\ t \in Nat /\ t <= end /\ first <= s
      /\ Parser!WeekdayOf(s) = lesson.weekday /\ Parser!WeekdayOf(t) = lesson.weekday
      /\ Parser!MatchesWeek(lesson.week, s) /\ Parser!MatchesWeek(lesson.week, t)
  <2>. HIDE DEF end
  <2>. QED  BY <1>1
<1>3. ASSUME NEW d \in Nat, d + 7 <= t
      PROVE  d + 14 \in Days
  <2>1. d + 14 < Last
    BY <1>1, <1>2, <1>3, LastDay
  <2>. QED  BY <2>1 DEF Days
<1>. HIDE DEF end
<1>4. ASSUME NEW d \in Nat, s < d, d < t, Parser!WeekdayOf(d) = lesson.weekday
      PROVE  ~Parser!MatchesWeek(lesson.week, d)
  BY <1>1, <1>2, <1>4
<1>5. t = s + 7 \/ t = s + 14 \/ t = s + 21 \/ t > s + 21
  BY <1>2, SameWeekday
<1>6. /\ Parser!WeekdayOf(s + 7) = lesson.weekday /\ Parser!WeekdayOf(s + 14) = lesson.weekday
      /\ Parser!WeekdayOf(s + 21) = lesson.weekday
  BY <1>2, NextWeek
<1>7. ASSUME NEW d \in Nat, d + 7 <= t
      PROVE  /\ n(d) \in 1 .. 53
             /\ n(d + 7) = n(d) + 1 \/ (n(d + 7) = 1 /\ n(d) \in {52, 53})
  BY <1>3, <1>7, WeekAfter
<1>8. \A d \in Nat : Parser!MatchesWeek(lesson.week, d) <=>
        IF lesson.week = "odd" THEN n(d) % 2 # 0 ELSE n(d) % 2 = 0
  BY DEF Parser!MatchesWeek
<1>. DEFINE match(d) == Parser!MatchesWeek(lesson.week, d)
<1>9. /\ n(s) \in 1 .. 53
      /\ n(s + 7) = n(s) + 1 \/ (n(s + 7) = 1 /\ n(s) \in {52, 53})
      /\ match(s) /\ match(t)
  BY <1>2, <1>5, <1>7
<1>10. t # s + 7 =>
         /\ s + 14 <= t /\ ~match(s + 7)
         /\ n(s + 7) \in 1 .. 53
         /\ n(s + 14) = n(s + 7) + 1 \/ (n(s + 14) = 1 /\ n(s + 7) \in {52, 53})
  <2>. SUFFICES ASSUME t # s + 7
                PROVE  /\ s + 14 <= t /\ ~match(s + 7)
                       /\ n(s + 7) \in 1 .. 53
                       /\ n((s + 7) + 7) = n(s + 7) + 1 \/ (n((s + 7) + 7) = 1 /\ n(s + 7) \in {52, 53})
    BY <1>2
  <2>1. s + 14 <= t /\ s + 7 \in Nat /\ s + 7 < t /\ (s + 7) + 7 <= t
    BY <1>2, <1>5
  <2>2. ~match(s + 7)
    BY <1>2, <1>4, <1>6, <2>1
  <2>. HIDE DEF n, match
  <2>. QED  BY <1>7, <2>1, <2>2
<1>11. t # s + 7 /\ t # s + 14 =>
         /\ s + 21 <= t /\ ~match(s + 14)
         /\ n(s + 14) \in 1 .. 53
         /\ n(s + 21) = n(s + 14) + 1 \/ (n(s + 21) = 1 /\ n(s + 14) \in {52, 53})
  <2>. SUFFICES ASSUME t # s + 7, t # s + 14
                PROVE  /\ s + 21 <= t /\ ~match(s + 14)
                       /\ n(s + 14) \in 1 .. 53
                       /\ n((s + 14) + 7) = n(s + 14) + 1 \/ (n((s + 14) + 7) = 1 /\ n(s + 14) \in {52, 53})
    BY <1>2
  <2>1. s + 21 <= t /\ s + 14 \in Nat /\ s + 14 < t /\ (s + 14) + 7 <= t
    BY <1>2, <1>5
  <2>2. ~match(s + 14)
    BY <1>2, <1>4, <1>6, <2>1
  <2>. HIDE DEF n, match
  <2>. QED  BY <1>7, <2>1, <2>2
<1>12. s + 21 < t => ~match(s + 21)
  BY <1>2, <1>4, <1>6
<1>13. /\ match(s) <=> IF lesson.week = "odd" THEN n(s) % 2 # 0 ELSE n(s) % 2 = 0
       /\ match(s + 7) <=> IF lesson.week = "odd" THEN n(s + 7) % 2 # 0 ELSE n(s + 7) % 2 = 0
       /\ match(s + 14) <=> IF lesson.week = "odd" THEN n(s + 14) % 2 # 0 ELSE n(s + 14) % 2 = 0
       /\ match(s + 21) <=> IF lesson.week = "odd" THEN n(s + 21) % 2 # 0 ELSE n(s + 21) % 2 = 0
  BY <1>2, <1>8
<1>. HIDE DEF n, match
<1>14. CASE lesson.week = "odd"
  <2>1. CASE t = s + 7
    <3>1. match(s + 7)
      BY <1>9, <2>1
    <3>2. n(s) % 2 # 0 /\ n(s + 7) % 2 # 0
      BY <1>9, <1>13, <1>14, <3>1
    <3>3. n(s) = 53
      BY <1>9, <3>2, Kinds
    <3>. QED  BY <1>2, <1>14, <2>1, <3>3 DEF n
  <2>2. CASE t # s + 7
    <3>a. n(s + 7) % 2 = 0
      BY <1>10, <1>13, <1>14, <2>2
    <3>b. n(s + 14) % 2 # 0
      BY <1>10, <2>2, <3>a, Kinds
    <3>1. match(s + 14)
      BY <1>13, <1>14, <3>b
    <3>2. t = s + 14
      BY <1>11, <2>2, <3>1
    <3>. QED  BY <1>2, <3>2
  <2>. QED  BY <2>1, <2>2
<1>15. CASE lesson.week = "even"
  <2>1. lesson.week # "odd"
    BY <1>15
  <2>2. n(s) % 2 = 0
    BY <1>9, <1>13, <2>1
  <2>3. n(s + 7) % 2 # 0
    BY <1>9, <2>2, Kinds
  <2>4. t # s + 7
    BY <1>9, <1>13, <2>1, <2>3
  <2>5. CASE t = s + 14
    BY <1>2, <2>5
  <2>6. CASE t # s + 14
    <3>1. n(s + 14) % 2 # 0
      BY <1>11, <1>13, <2>1, <2>4, <2>6
    <3>2. n(s + 14) = 1 /\ n(s + 7) = 53
      BY <1>10, <2>3, <2>4, <3>1, Kinds
    <3>3. n(s + 21) = 2
      BY <1>11, <2>4, <2>6, <3>2
    <3>a. n(s + 21) % 2 = 0
      BY <3>3
    <3>4. match(s + 21)
      BY <1>13, <2>1, <3>a
    <3>5. t = s + 21
      BY <1>2, <1>5, <1>12, <2>4, <2>6, <3>4
    <3>6. \E day \in s .. t : Parser!IsoWeek(day) = 53
      <4>1. s + 7 \in s .. t
        BY <1>2, <3>5
      <4>. QED  BY <3>2, <4>1 DEF n
    <3>. QED  BY <1>2, <2>1, <3>5, <3>6
  <2>. QED  BY <2>5, <2>6
<1>. QED  BY <1>14, <1>15

-----------------------------------------------------------------------------
\* A run of the parser.

\* The lessons that are expanded: those of the rooms visited, and the first of
\* the room at hand.
Expanded(i, k) == i <= visited \/ (i = visited + 1 /\ k <= pending)

\* The slots of a lesson are all there, from one day's reading of the clock, or
\* none is there yet.
LessonByLesson ==
  \A i \in DOMAIN Rooms : \A k \in DOMAIN WeeklyOf[Rooms[i]] :
    IF Expanded(i, k)
    THEN \E today \in began .. now : Parser!SlotsOf(Rooms[i], k) = Parser!Expand(Rooms[i], k, today)
    ELSE Parser!SlotsOf(Rooms[i], k) = {}

Progress ==
  /\ began \in FirstDays /\ now \in began .. began + MaxMidnights
  /\ visited \in 0 .. Len(Rooms) /\ pending \in Nat
  /\ stage = "expand" =>
       visited < Len(Rooms) /\ pending <= Len(WeeklyOf[Rooms[visited + 1]])
  /\ stage \in {"rooms", "fetch", "replace", "imported"} => pending = 0
  /\ stage \in {"replace", "imported"} => visited = Len(Rooms)

SlotsOfLessons == \A s \in slots : s.room \in Parser!Room /\ s.of \in DOMAIN WeeklyOf[s.room]

ExpandInv == Progress /\ SlotsOfLessons /\ LessonByLesson

\* A lesson's slots carry its room, its number, its period and one of its days.
LEMMA ExpandSlots ==
  ASSUME NEW room, NEW k, NEW today
  PROVE  /\ \A s \in Parser!Expand(room, k, today) :
              /\ s.room = room /\ s.of = k /\ s.day \in Parser!DaysOf(WeeklyOf[room][k], today)
         /\ {s.day : s \in Parser!Expand(room, k, today)} = Parser!DaysOf(WeeklyOf[room][k], today)
<1>. DEFINE slot(day) == [room |-> room, day |-> day, period |-> WeeklyOf[room][k].period, of |-> k]
            days == Parser!DaysOf(WeeklyOf[room][k], today)
<1>1. Parser!Expand(room, k, today) = {slot(day) : day \in days}
  BY DEF Parser!Expand
<1>2. \A day : slot(day).room = room /\ slot(day).of = k /\ slot(day).day = day
  OBVIOUS
<1>. HIDE DEF slot, days
<1>3. \A s \in {slot(day) : day \in days} : s.room = room /\ s.of = k /\ s.day \in days
  BY <1>2
<1>4. {s.day : s \in {slot(day) : day \in days}} = days
  BY <1>2
<1>. QED  BY <1>1, <1>3, <1>4 DEF days

\* A list's indices.
LEMMA ListLength ==
  ASSUME NEW s, IsList(s)
  PROVE  Len(s) \in Nat /\ DOMAIN s = 1 .. Len(s)
<1>. DEFINE S == {s[k] : k \in DOMAIN s}
<1>1. s \in Seq(S)
  BY DEF IsList
<1>. HIDE DEF S
<1>. QED  BY <1>1

LEMMA RoomLessons ==
  ASSUME NEW i \in DOMAIN Rooms
  PROVE  /\ Rooms[i] \in Parser!Room
         /\ Len(WeeklyOf[Rooms[i]]) \in Nat
         /\ DOMAIN WeeklyOf[Rooms[i]] = 1 .. Len(WeeklyOf[Rooms[i]])
         /\ \A k \in DOMAIN WeeklyOf[Rooms[i]] :
              /\ WeeklyOf[Rooms[i]][k].weekday \in 0 .. 6
              /\ WeeklyOf[Rooms[i]][k].week \in {"every", "odd", "even"}
<1>1. Rooms[i] \in Parser!Room
  BY DEF Parser!Room
<1>2. IsList(WeeklyOf[Rooms[i]])
  BY <1>1, WeeklyAssumption
<1>3. /\ Len(WeeklyOf[Rooms[i]]) \in Nat
      /\ DOMAIN WeeklyOf[Rooms[i]] = 1 .. Len(WeeklyOf[Rooms[i]])
  BY <1>2, ListLength
<1>4. \A k \in DOMAIN WeeklyOf[Rooms[i]] :
        /\ WeeklyOf[Rooms[i]][k].weekday \in 0 .. 6
        /\ WeeklyOf[Rooms[i]][k].week \in {"every", "odd", "even"}
  BY <1>1, WeeklyAssumption
<1>. QED  BY <1>1, <1>3, <1>4

LEMMA RoomsCounted == Len(Rooms) \in Nat /\ DOMAIN Rooms = 1 .. Len(Rooms)
BY RoomsAssumption

LEMMA ExpandInit == Parser!Init => ExpandInv
<1>. SUFFICES ASSUME Parser!Init
              PROVE  ExpandInv
  OBVIOUS
<1>1. /\ stage = "rooms" /\ began \in FirstDays /\ now = began
      /\ visited = 0 /\ pending = 0 /\ slots = {}
  BY DEF Parser!Init
<1>2. began \in Nat /\ MaxMidnights \in Nat
  BY <1>1, ParserAssumption
<1>3. Progress
  BY <1>1, <1>2, RoomsCounted DEF Progress
<1>4. SlotsOfLessons
  BY <1>1 DEF SlotsOfLessons
<1>5. LessonByLesson
  <2>. SUFFICES ASSUME NEW i \in DOMAIN Rooms, NEW k \in DOMAIN WeeklyOf[Rooms[i]]
                PROVE  ~Expanded(i, k) /\ Parser!SlotsOf(Rooms[i], k) = {}
    BY DEF LessonByLesson
  <2>0. /\ DOMAIN WeeklyOf[Rooms[i]] = 1 .. Len(WeeklyOf[Rooms[i]])
        /\ Len(WeeklyOf[Rooms[i]]) \in Nat
    BY RoomLessons
  <2>1. i \in Nat \ {0} /\ k \in Nat \ {0}
    BY <2>0, RoomsCounted
  <2>. QED  BY <1>1, <2>1 DEF Expanded, Parser!SlotsOf
<1>. QED  BY <1>3, <1>4, <1>5 DEF ExpandInv

\* Nothing is expanded, and the clock only goes on.
LEMMA NothingExpanded ==
  ASSUME LessonByLesson, began' = began, now \in Int, now' \in Int, began \in Int, now <= now',
         slots' = slots,
         \A i \in DOMAIN Rooms : \A k \in DOMAIN WeeklyOf[Rooms[i]] : Expanded(i, k)' = Expanded(i, k)
  PROVE  LessonByLesson'
<1>. SUFFICES ASSUME NEW i \in DOMAIN Rooms, NEW k \in DOMAIN WeeklyOf[Rooms[i]]
              PROVE  IF Expanded(i, k)'
                     THEN \E today \in began' .. now' :
                            Parser!SlotsOf(Rooms[i], k)' = Parser!Expand(Rooms[i], k, today)
                     ELSE Parser!SlotsOf(Rooms[i], k)' = {}
  BY DEF LessonByLesson
<1>1. Parser!SlotsOf(Rooms[i], k)' = Parser!SlotsOf(Rooms[i], k)
  BY DEF Parser!SlotsOf
<1>2. Expanded(i, k)' = Expanded(i, k)
  OBVIOUS
<1>3. \A today \in began .. now : today \in began' .. now'
  OBVIOUS
<1>4. IF Expanded(i, k)
      THEN \E today \in began .. now : Parser!SlotsOf(Rooms[i], k) = Parser!Expand(Rooms[i], k, today)
      ELSE Parser!SlotsOf(Rooms[i], k) = {}
  BY DEF LessonByLesson
<1>. QED  BY <1>1, <1>2, <1>3, <1>4

LEMMA ExpandStep == ExpandInv /\ [Parser!Next]_(Parser!vars) => ExpandInv'
<1>. SUFFICES ASSUME ExpandInv, [Parser!Next]_(Parser!vars)
              PROVE  ExpandInv'
  OBVIOUS
<1>0. Progress /\ SlotsOfLessons /\ LessonByLesson
  BY DEF ExpandInv
<1>1. /\ began \in Nat /\ now \in Nat /\ MaxMidnights \in Nat /\ began <= now
      /\ now <= began + MaxMidnights /\ visited \in Nat /\ pending \in Nat
      /\ visited <= Len(Rooms)
  <2>1. began \in Nat /\ MaxMidnights \in Nat
    BY <1>0, ParserAssumption DEF Progress
  <2>2. now \in began .. began + MaxMidnights /\ visited \in 0 .. Len(Rooms) /\ pending \in Nat
    BY <1>0 DEF Progress
  <2>. QED  BY <2>1, <2>2, RoomsCounted
<1>2. ASSUME visited' = visited, pending' = pending, NEW i, NEW k
      PROVE  Expanded(i, k)' = Expanded(i, k)
  BY Zenon, <1>2 DEF Expanded
<1>3. ASSUME slots' = slots
      PROVE  SlotsOfLessons'
  BY <1>0, <1>3 DEF SlotsOfLessons
<1>4. CASE UNCHANGED Parser!vars
  <2>1. UNCHANGED <<stage, now, began, visited, pending, slots>>
    BY <1>4 DEF Parser!vars
  <2>2. Progress'
    BY <1>0, <2>1 DEF Progress
  <2>3. LessonByLesson'
    BY <1>0, <1>1, <1>2, <2>1, NothingExpanded
  <2>. QED  BY <1>3, <2>1, <2>2, <2>3 DEF ExpandInv
<1>5. CASE Parser!ParseRooms \/ Parser!FetchRoom \/ Parser!AllRoomsDone \/ Parser!Replace
           \/ Parser!Fail \/ Parser!Cancel
  <2>1. UNCHANGED <<now, began, visited, pending, slots>>
    BY <1>5 DEF Parser!ParseRooms, Parser!FetchRoom, Parser!AllRoomsDone, Parser!Replace,
                Parser!Fail, Parser!Cancel
  <2>2. LessonByLesson'
    BY <1>0, <1>1, <1>2, <2>1, NothingExpanded
  <2>3. \/ stage' = stage
        \/ stage' = "failed"
        \/ stage = "rooms" /\ stage' = "fetch"
        \/ stage = "fetch" /\ stage' = "expand" /\ visited < Len(Rooms)
        \/ stage = "fetch" /\ stage' = "replace" /\ visited = Len(Rooms)
        \/ stage = "replace" /\ stage' = "imported"
    <3>1. CASE Parser!ParseRooms \/ Parser!FetchRoom
      BY <3>1 DEF Parser!ParseRooms, Parser!FetchRoom, Parser!Proceed
    <3>2. CASE Parser!AllRoomsDone \/ Parser!Replace
      BY <3>2 DEF Parser!AllRoomsDone, Parser!Replace, Parser!Proceed
    <3>3. CASE Parser!Fail \/ Parser!Cancel
      BY <3>3 DEF Parser!Fail, Parser!Cancel
    <3>. QED  BY <1>5, <3>1, <3>2, <3>3
  <2>4. visited < Len(Rooms) => Len(WeeklyOf[Rooms[visited + 1]]) \in Nat
    BY <1>1, RoomsCounted, RoomLessons
  <2>5. Progress'
    BY <1>0, <2>1, <2>3, <2>4 DEF Progress
  <2>. QED  BY <1>3, <2>1, <2>2, <2>5 DEF ExpandInv
<1>6. CASE Parser!ExpandLesson
  <2>. DEFINE room == Rooms[visited + 1]
              more == Parser!Expand(room, pending + 1, now)
  <2>1. /\ stage = "expand" /\ stage' = "expand" /\ pending < Len(WeeklyOf[room])
        /\ pending' = pending + 1 /\ slots' = slots \cup more
        /\ UNCHANGED <<now, began, visited>>
    BY <1>6 DEF Parser!ExpandLesson, Parser!Proceed
  <2>2. visited + 1 \in DOMAIN Rooms
    BY <1>0, <1>1, <2>1, RoomsCounted DEF Progress
  <2>3. /\ room \in Parser!Room /\ pending + 1 \in DOMAIN WeeklyOf[room]
        /\ Len(WeeklyOf[room]) \in Nat
    BY <1>1, <2>1, <2>2, RoomLessons
  <2>4. \A s \in more : s.room = room /\ s.of = pending + 1
    BY ExpandSlots
  <2>. HIDE DEF more
  <2>5. Progress'
    BY <1>0, <1>1, <2>1, <2>3 DEF Progress
  <2>6. SlotsOfLessons'
    BY <1>0, <2>1, <2>3, <2>4 DEF SlotsOfLessons
  <2>7. LessonByLesson'
    <3>. SUFFICES ASSUME NEW i \in DOMAIN Rooms, NEW k \in DOMAIN WeeklyOf[Rooms[i]]
                  PROVE  IF Expanded(i, k)'
                         THEN \E today \in began .. now :
                                Parser!SlotsOf(Rooms[i], k)' = Parser!Expand(Rooms[i], k, today)
                         ELSE Parser!SlotsOf(Rooms[i], k)' = {}
      BY <2>1 DEF LessonByLesson
    <3>0. /\ i \in Nat /\ k \in Nat /\ k <= Len(WeeklyOf[Rooms[i]])
          /\ IF Expanded(i, k)
             THEN \E today \in began .. now : Parser!SlotsOf(Rooms[i], k) = Parser!Expand(Rooms[i], k, today)
             ELSE Parser!SlotsOf(Rooms[i], k) = {}
      BY <1>0, RoomsCounted, RoomLessons DEF LessonByLesson
    <3>1. CASE i = visited + 1 /\ k = pending + 1
      <4>1. ~Expanded(i, k) /\ Expanded(i, k)'
        BY <1>1, <2>1, <3>1 DEF Expanded
      <4>2. \A s \in slots : ~(s.room = room /\ s.of = pending + 1)
        BY <3>0, <3>1, <4>1 DEF Parser!SlotsOf
      <4>3. {s \in slots \cup more : s.room = room /\ s.of = pending + 1} = more
        BY <2>4, <4>2
      <4>4. Parser!SlotsOf(Rooms[i], k)' = Parser!Expand(Rooms[i], k, now)
        BY <2>1, <3>1, <4>3 DEF Parser!SlotsOf, more
      <4>5. now \in began .. now
        BY <1>1
      <4>. QED  BY <4>1, <4>4, <4>5
    <3>2. CASE ~(i = visited + 1 /\ k = pending + 1)
      <4>1. Expanded(i, k)' = Expanded(i, k)
        BY <1>1, <2>1, <3>0, <3>2 DEF Expanded
      <4>2. ~(Rooms[i] = room /\ k = pending + 1)
        BY <2>2, <3>2, RoomsAssumption
      <4>3. Parser!SlotsOf(Rooms[i], k)' = Parser!SlotsOf(Rooms[i], k)
        BY <2>1, <2>4, <4>2 DEF Parser!SlotsOf
      <4>. QED  BY <3>0, <4>1, <4>3
    <3>. QED  BY <3>1, <3>2
  <2>. QED  BY <2>5, <2>6, <2>7 DEF ExpandInv
<1>7. CASE Parser!RoomDone
  <2>1. /\ stage = "expand" /\ stage' = "fetch" /\ pending = Len(WeeklyOf[Rooms[visited + 1]])
        /\ visited' = visited + 1 /\ pending' = 0 /\ UNCHANGED <<now, began, slots>>
    BY <1>7 DEF Parser!RoomDone, Parser!Proceed
  <2>2. visited < Len(Rooms)
    BY <1>0, <2>1 DEF Progress
  <2>3. Progress'
    BY <1>0, <1>1, <2>1, <2>2, RoomsCounted DEF Progress
  <2>4. ASSUME NEW i \in DOMAIN Rooms, NEW k \in DOMAIN WeeklyOf[Rooms[i]]
        PROVE  Expanded(i, k)' = Expanded(i, k)
    <3>1. i \in Nat /\ k \in Nat \ {0} /\ k <= Len(WeeklyOf[Rooms[i]])
      BY RoomsCounted, RoomLessons
    <3>2. i = visited + 1 => k <= pending
      BY <2>1, <3>1
    <3>. QED  BY <1>1, <2>1, <3>1, <3>2 DEF Expanded
  <2>5. LessonByLesson'
    BY <1>0, <1>1, <2>1, <2>4, NothingExpanded
  <2>. QED  BY <1>3, <2>1, <2>3, <2>5 DEF ExpandInv
<1>8. CASE Parser!Midnight
  <2>1. /\ now' = now + 1 /\ now < began + MaxMidnights
        /\ UNCHANGED <<stage, began, visited, pending, slots>>
    BY <1>8 DEF Parser!Midnight
  <2>2. Progress'
    BY <1>0, <1>1, <2>1 DEF Progress
  <2>3. now' \in Int /\ now <= now'
    BY <1>1, <2>1
  <2>4. LessonByLesson'
    BY <1>0, <1>1, <1>2, <2>1, <2>3, NothingExpanded
  <2>. QED  BY <1>3, <2>1, <2>2, <2>4 DEF ExpandInv
<1>. QED  BY <1>4, <1>5, <1>6, <1>7, <1>8 DEF Parser!Next

\* What the slots of a lesson say, once it is expanded.
LEMMA SlotsAreDays ==
  ASSUME ExpandInv, visited = Len(Rooms),
         NEW i \in DOMAIN Rooms, NEW k \in DOMAIN WeeklyOf[Rooms[i]]
  PROVE  \E today \in began .. now :
           /\ today \in Nat /\ today + 7 * WeeksAhead + 7 < Last
           /\ {s.day : s \in Parser!SlotsOf(Rooms[i], k)} = Parser!DaysOf(WeeklyOf[Rooms[i]][k], today)
<1>1. i <= visited
  BY RoomsCounted
<1>2. PICK today \in began .. now :
         Parser!SlotsOf(Rooms[i], k) = Parser!Expand(Rooms[i], k, today)
  BY <1>1 DEF ExpandInv, LessonByLesson, Expanded
<1>3. began \in FirstDays /\ now \in began .. began + MaxMidnights
  BY DEF ExpandInv, Progress
<1>4. /\ began \in Nat /\ MaxMidnights \in Nat /\ WeeksAhead \in Nat
      /\ began + MaxMidnights + 7 * WeeksAhead + 7 < Last
  BY <1>3, ParserAssumption DEF Last
<1>5. today \in Nat /\ today + 7 * WeeksAhead + 7 < Last
  BY <1>2, <1>3, <1>4, LastDay
<1>6. {s.day : s \in Parser!SlotsOf(Rooms[i], k)} = Parser!DaysOf(WeeklyOf[Rooms[i]][k], today)
  BY <1>2, ExpandSlots
<1>. QED  BY <1>2, <1>5, <1>6

LEMMA IsoWeekCounts ==
  ASSUME NEW day \in Nat, day + 7 < Last
  PROVE  Parser!IsoWeek(day) \in Int
<1>. DEFINE thursday == day - (day % 7) + 3
<1>1. thursday \in Nat /\ thursday < Last
  BY LastDay
<1>2. Parser!IsoWeek(day) = (thursday - Parser!JanuaryFirst(Parser!YearOf(thursday))) \div 7 + 1
  BY DEF Parser!IsoWeek
<1>. HIDE DEF thursday
<1>3. Parser!YearOf(thursday) \in 2024 .. 2099
  BY <1>1, YearFound DEF Days
<1>4. Parser!JanuaryFirst(Parser!YearOf(thursday)) \in Nat
  BY <1>3, YearLength
<1>. QED  BY <1>1, <1>2, <1>4

\* Every slot is one of a lesson's.
LEMMA SlotOfLesson ==
  ASSUME ExpandInv, NEW s \in slots
  PROVE  \E i \in DOMAIN Rooms :
           /\ s.room = Rooms[i] /\ s.of \in DOMAIN WeeklyOf[Rooms[i]]
           /\ s \in Parser!SlotsOf(Rooms[i], s.of)
BY DEF ExpandInv, SlotsOfLessons, Parser!Room, Parser!SlotsOf

LEMMA WholeHolds == ExpandInv /\ visited = Len(Rooms) => Parser!Whole
<1>. SUFFICES ASSUME ExpandInv, visited = Len(Rooms),
                     NEW i \in DOMAIN Rooms, NEW k \in DOMAIN WeeklyOf[Rooms[i]]
              PROVE  \E today \in began .. now :
                       {s.day : s \in Parser!SlotsOf(Rooms[i], k)} =
                         {day \in today - (today % 7) .. today - (today % 7) + 7 * WeeksAhead - 1 :
                            Parser!Fits([room |-> Rooms[i], of |-> k, day |-> day])}
  BY DEF Parser!Whole, Parser!Room
<1>. DEFINE lesson == WeeklyOf[Rooms[i]][k]
<1>1. PICK today \in began .. now :
        /\ today \in Nat /\ today + 7 * WeeksAhead + 7 < Last
        /\ {s.day : s \in Parser!SlotsOf(Rooms[i], k)} = Parser!DaysOf(lesson, today)
  BY SlotsAreDays
<1>. DEFINE first == today - (today % 7)
            ahead == first .. first + 7 * WeeksAhead - 1
            printed(day) == [room |-> Rooms[i], of |-> k, day |-> day]
<1>2. lesson.weekday \in 0 .. 6 /\ lesson.week \in {"every", "odd", "even"}
  BY RoomLessons
<1>3. Parser!DaysOf(lesson, today) =
        {day \in ahead : Parser!WeekdayOf(day) = lesson.weekday /\ Parser!MatchesWeek(lesson.week, day)}
  BY <1>1, <1>2, DaysOfLesson
<1>4. \A day \in ahead : Parser!IsoWeek(day) \in Int
  <2>1. first \in Nat /\ first <= today
    BY <1>1, WeekStartIs
  <2>2. WeeksAhead \in Nat
    BY ParserAssumption
  <2>. HIDE DEF first
  <2>3. ASSUME NEW day \in ahead
        PROVE  day \in Nat /\ day + 7 < Last
    BY <1>1, <2>1, <2>2, LastDay
  <2>. QED  BY <2>3, IsoWeekCounts
<1>5. ASSUME NEW day
      PROVE  Parser!Fits(printed(day)) <=>
               /\ Parser!WeekdayOf(day) = lesson.weekday
               /\ lesson.week = "every" \/ (lesson.week = "odd") = (Parser!IsoWeek(day) % 2 = 1)
  <2>1. printed(day).room = Rooms[i] /\ printed(day).of = k /\ printed(day).day = day
    OBVIOUS
  <2>. HIDE DEF printed
  <2>. QED  BY <2>1 DEF Parser!Fits
<1>. HIDE DEF ahead, lesson, printed
<1>6. ASSUME NEW day \in ahead
      PROVE  Parser!Fits(printed(day)) <=>
               Parser!WeekdayOf(day) = lesson.weekday /\ Parser!MatchesWeek(lesson.week, day)
  <2>1. \/ Parser!IsoWeek(day) % 2 = 0 /\ Parser!IsoWeek(day) % 2 # 1
        \/ Parser!IsoWeek(day) % 2 = 1 /\ Parser!IsoWeek(day) % 2 # 0
    BY <1>4
  <2>. QED  BY <1>2, <1>5, <2>1 DEF Parser!MatchesWeek
<1>7. Parser!DaysOf(lesson, today) = {day \in ahead : Parser!Fits(printed(day))}
  BY <1>3, <1>6
<1>. QED  BY <1>1, <1>7 DEF ahead, lesson, printed

LEMMA NoSlotTwiceHolds == ExpandInv /\ visited = Len(Rooms) => Parser!NoSlotTwice
<1>. SUFFICES ASSUME ExpandInv, visited = Len(Rooms), NEW s \in slots, NEW t \in slots,
                     s.room = t.room, s.day = t.day
              PROVE  /\ WeeklyOf[s.room][s.of].weekday = WeeklyOf[t.room][t.of].weekday
                     /\ {WeeklyOf[s.room][s.of].week, WeeklyOf[t.room][t.of].week} # {"odd", "even"}
  BY DEF Parser!NoSlotTwice
<1>1. ASSUME NEW u \in slots
      PROVE  LET lesson == WeeklyOf[u.room][u.of]
             IN  Parser!WeekdayOf(u.day) = lesson.weekday /\ Parser!MatchesWeek(lesson.week, u.day)
  <2>1. PICK i \in DOMAIN Rooms : /\ u.room = Rooms[i] /\ u.of \in DOMAIN WeeklyOf[Rooms[i]]
                                  /\ u \in Parser!SlotsOf(Rooms[i], u.of)
    BY SlotOfLesson
  <2>. DEFINE lesson == WeeklyOf[Rooms[i]][u.of]
  <2>2. PICK today \in began .. now :
          /\ today \in Nat
          /\ {v.day : v \in Parser!SlotsOf(Rooms[i], u.of)} = Parser!DaysOf(lesson, today)
    BY <2>1, SlotsAreDays
  <2>3. u.day \in Parser!DaysOf(lesson, today)
    BY <2>1, <2>2
  <2>4. lesson.weekday \in 0 .. 6
    BY <2>1, RoomLessons
  <2>5. Parser!WeekdayOf(u.day) = lesson.weekday /\ Parser!MatchesWeek(lesson.week, u.day)
    BY <2>2, <2>3, <2>4, DaysOfLesson
  <2>. QED  BY <2>1, <2>5
<1>. DEFINE a == WeeklyOf[s.room][s.of]
            b == WeeklyOf[t.room][t.of]
<1>2. a.weekday = b.weekday
  BY <1>1
<1>3. ~(a.week = "odd" /\ b.week = "even") /\ ~(a.week = "even" /\ b.week = "odd")
  BY <1>1 DEF Parser!MatchesWeek
<1>. QED  BY <1>2, <1>3

LEMMA EverySecondWeekHolds == ExpandInv /\ visited = Len(Rooms) => Parser!EverySecondWeek
<1>. SUFFICES ASSUME ExpandInv, visited = Len(Rooms), NEW s \in slots, NEW t \in slots,
                     s.room = t.room, s.of = t.of, s.day < t.day,
                     WeeklyOf[s.room][s.of].week # "every",
                     \A u \in Parser!SlotsOf(s.room, s.of) : u.day <= s.day \/ u.day >= t.day
              PROVE  \/ t.day - s.day = 14
                     \/ /\ \E day \in s.day .. t.day : Parser!IsoWeek(day) = 53
                        /\ t.day - s.day = (IF WeeklyOf[s.room][s.of].week = "odd" THEN 7 ELSE 21)
  BY DEF Parser!EverySecondWeek
<1>1. PICK i \in DOMAIN Rooms : /\ s.room = Rooms[i] /\ s.of \in DOMAIN WeeklyOf[Rooms[i]]
                                /\ s \in Parser!SlotsOf(Rooms[i], s.of)
  BY SlotOfLesson
<1>. DEFINE lesson == WeeklyOf[Rooms[i]][s.of]
            own == Parser!SlotsOf(Rooms[i], s.of)
<1>2. PICK today \in began .. now :
        /\ today \in Nat /\ today + 7 * WeeksAhead + 7 < Last
        /\ {v.day : v \in own} = Parser!DaysOf(lesson, today)
  BY <1>1, SlotsAreDays
<1>3. lesson.weekday \in 0 .. 6 /\ lesson.week \in {"odd", "even"}
  BY <1>1, RoomLessons
<1>4. s \in own /\ t \in own
  BY <1>1 DEF Parser!SlotsOf
<1>5. s.day \in Parser!DaysOf(lesson, today) /\ t.day \in Parser!DaysOf(lesson, today)
  BY <1>2, <1>4
<1>6. \A d \in Parser!DaysOf(lesson, today) : d <= s.day \/ d >= t.day
  BY <1>1, <1>2
<1>. HIDE DEF own
<1>. QED  BY <1>1, <1>2, <1>3, <1>5, <1>6, NextOfKind

\* StoredIsWhole: whatever days a run of the parser begins and ends on, what it hands
\* over (service.go) has every lesson on all its days up to the last week ahead, no
\* slot that alternating lessons share, and the lessons of odd and of even weeks
\* every second week, but for the New Year after a year of 53 weeks.
THEOREM TimetablesAreWhole == Parser!Spec => []StoredIsWhole
<1>1. Parser!Init => ExpandInv
  BY ExpandInit
<1>2. ExpandInv /\ [Parser!Next]_(Parser!vars) => ExpandInv'
  BY ExpandStep
<1>3. ExpandInv => StoredIsWhole
  <2>1. ExpandInv /\ stage = "imported" => visited = Len(Rooms)
    BY DEF ExpandInv, Progress
  <2>. QED  BY <2>1, WholeHolds, NoSlotTwiceHolds, EverySecondWeekHolds
            DEF StoredIsWhole, Parser!StoredIsWhole
<1>. QED  BY <1>1, <1>2, <1>3, PTL DEF Parser!Spec

-----------------------------------------------------------------------------
\* The reading of a page.

Place == [row : DOMAIN page.rows, day : DOMAIN Reading!Days, cell : Nat]

\* The lesson at a place, as the reader at work takes it.
LessonAt(p) ==
  [subject |-> Reading!Entry(p).subject, weekday |-> Reading!Days[p.day],
   time |-> page.rows[p.row][1].time,
   groups |-> Reading!FoundGroups(Reading!CellsAt(p.row, p.day), p.cell)]

LessonsHere == {LessonAt(p) : p \in Reading!Wanted}

\* The places that the loops have passed.
Passed(p) ==
  \/ p.row < row
  \/ p.row = row /\ pc = "cells" /\ (p.day + 1 < col \/ (p.day + 1 = col /\ p.cell < cell))

Done == {p \in Reading!Wanted : Passed(p)}

\* The places up to one, in the order of the table.
UpTo(p) == {q \in Reading!Wanted : Reading!Before(q, p)}

Loops ==
  /\ page \in Pages /\ reader \in Reading!Reader
  /\ pc \in {"fetch", "rows", "cells", "returned"}
  /\ row \in Nat \ {0} /\ col \in Nat \ {0} /\ cell \in Nat \ {0}
  /\ pc = "fetch" => row = 1
  /\ pc \in {"rows", "cells"} => Reading!Readable
  /\ pc = "cells" => row <= Len(page.rows) /\ col > 1 /\ Reading!StartTime # NoTime
  /\ ~Reading!Readable => pc \in {"fetch", "returned"} /\ lessons = <<>>
  /\ outcome = "lessons" =>
       /\ pc = "returned"
       /\ IF Reading!Readable THEN row > Len(page.rows) ELSE reader # "booking"

ReadSoFar ==
  /\ lessons \in Seq(LessonsHere)
  /\ IsFiniteSet(Done) /\ Len(lessons) = Cardinality(Done)
  /\ \A p \in Done : lessons[Cardinality(UpTo(p))] = LessonAt(p)

ReadInv == Loops /\ ReadSoFar

-----------------------------------------------------------------------------
LEMMA PageLists ==
  ASSUME page \in Pages
  PROVE  /\ Len(page.rows) \in Nat /\ DOMAIN page.rows = 1 .. Len(page.rows)
         /\ \A r \in DOMAIN page.rows :
              /\ Len(page.rows[r]) \in Nat /\ DOMAIN page.rows[r] = 1 .. Len(page.rows[r])
              /\ \A c \in DOMAIN page.rows[r] :
                   /\ Len(page.rows[r][c].cells) \in Nat
                   /\ DOMAIN page.rows[r][c].cells = 1 .. Len(page.rows[r][c].cells)
<1>1. /\ IsList(page.rows)
      /\ \A r \in DOMAIN page.rows :
           IsList(page.rows[r]) /\ \A c \in DOMAIN page.rows[r] : IsList(page.rows[r][c].cells)
  BY PagesAssumption
<1>. QED  BY Zenon, <1>1, ListLength

LEMMA DaysCounted ==
  ASSUME page \in Pages
  PROVE  /\ Len(Reading!Days) \in Nat
         /\ DOMAIN Reading!Days = 1 .. Len(Reading!Days)
<1>. DEFINE s == page.header
            S == {s[k] : k \in DOMAIN s}
<1>1. s \in Seq(S)
  BY PagesAssumption DEF IsList
<1>2. Reading!Days = SubSeq(s, 2, Len(s))
  BY DEF Reading!Days
<1>. HIDE DEF s, S
<1>3. SubSeq(s, 2, Len(s)) \in Seq(S)
  BY <1>1
<1>4. Reading!Days \in Seq(S)
  BY <1>2, <1>3
<1>. QED  BY <1>4

\* The places of the lessons that the reader wants.
LEMMA WantedIs ==
  ASSUME page \in Pages, NEW p
  PROVE  p \in Reading!Wanted <=>
           /\ p \in Place
           /\ p.day < Len(page.rows[p.row])
           /\ p.cell \in DOMAIN page.rows[p.row][p.day + 1].cells
           /\ page.rows[p.row][1].time # NoTime
           /\ page.rows[p.row][p.day + 1].cells[p.cell].subject # NoText
           /\ reader = "booking" => page.rows[p.row][p.day + 1].cells[p.cell].subject # Reserved
<1>. DEFINE at(r, day) == Reading!CellsAt(r, day)
            here(r, day) == [row : {r}, day : {day}, cell : DOMAIN at(r, day)]
            all == UNION {here(r, day) : r \in DOMAIN page.rows, day \in DOMAIN Reading!Days}
<1>1. p \in Reading!Wanted <=>
        /\ p \in all /\ page.rows[p.row][1].time # NoTime
        /\ at(p.row, p.day)[p.cell].subject # NoText
        /\ reader = "booking" => at(p.row, p.day)[p.cell].subject # Reserved
  BY DEF Reading!Wanted, Reading!Printed, Reading!Entry
<1>2. p \in all <=>
        \E r \in DOMAIN page.rows, day \in DOMAIN Reading!Days :
          p \in [row : {r}, day : {day}, cell : DOMAIN at(r, day)]
  <2>1. ASSUME NEW r, NEW day
        PROVE  p \in here(r, day) <=> p \in [row : {r}, day : {day}, cell : DOMAIN at(r, day)]
    OBVIOUS
  <2>. HIDE DEF here, at
  <2>2. p \in all <=> \E r \in DOMAIN page.rows, day \in DOMAIN Reading!Days : p \in here(r, day)
    OBVIOUS
  <2>. QED  BY <2>1, <2>2
<1>3. /\ \A r \in DOMAIN page.rows : Len(page.rows[r]) \in Nat
      /\ \A day \in DOMAIN Reading!Days : day \in Nat \ {0}
  BY PageLists, DaysCounted
<1>4. ASSUME NEW r \in DOMAIN page.rows, NEW day \in DOMAIN Reading!Days
      PROVE  /\ day < Len(page.rows[r]) => at(r, day) = page.rows[r][day + 1].cells
             /\ ~(day < Len(page.rows[r])) => at(r, day) = <<>>
  BY DEF Reading!CellsAt
<1>. HIDE DEF at, all
<1>5. ASSUME NEW r \in DOMAIN page.rows, NEW day \in DOMAIN Reading!Days, day < Len(page.rows[r])
      PROVE  DOMAIN at(r, day) \subseteq Nat
  <2>1. day + 1 \in DOMAIN page.rows[r]
    BY <1>3, <1>5, PageLists
  <2>2. DOMAIN page.rows[r][day + 1].cells \subseteq Nat
    BY <2>1, PageLists
  <2>. QED  BY <1>4, <1>5, <2>2
<1>6. ASSUME NEW r \in DOMAIN page.rows, NEW day \in DOMAIN Reading!Days, ~(day < Len(page.rows[r]))
      PROVE  DOMAIN at(r, day) = {}
  BY <1>4, <1>6
<1>7. p \in all <=>
        p \in Place /\ p.day < Len(page.rows[p.row]) /\ p.cell \in DOMAIN at(p.row, p.day)
  <2>1. ASSUME p \in all
        PROVE  p \in Place /\ p.day < Len(page.rows[p.row]) /\ p.cell \in DOMAIN at(p.row, p.day)
    <3>1. PICK r \in DOMAIN page.rows, day \in DOMAIN Reading!Days :
            p \in [row : {r}, day : {day}, cell : DOMAIN at(r, day)]
      BY <1>2, <2>1
    <3>2. p.row = r /\ p.day = day /\ p.cell \in DOMAIN at(r, day)
      BY <3>1
    <3>3. day < Len(page.rows[r])
      BY <1>6, <3>2
    <3>4. p.cell \in Nat
      BY <1>5, <3>2, <3>3
    <3>5. p = [row |-> p.row, day |-> p.day, cell |-> p.cell]
      BY <3>1
    <3>6. p \in Place
      BY <3>2, <3>4, <3>5 DEF Place
    <3>. QED  BY <3>2, <3>3, <3>6
  <2>2. ASSUME p \in Place, p.cell \in DOMAIN at(p.row, p.day)
        PROVE  p \in all
    <3>1. /\ p.row \in DOMAIN page.rows /\ p.day \in DOMAIN Reading!Days
          /\ p = [row |-> p.row, day |-> p.day, cell |-> p.cell]
      BY <2>2 DEF Place
    <3>2. p \in [row : {p.row}, day : {p.day}, cell : DOMAIN at(p.row, p.day)]
      BY <2>2, <3>1
    <3>. QED  BY <1>2, <3>1, <3>2
  <2>. QED  BY <2>1, <2>2
<1>8. p \in Place => p.row \in DOMAIN page.rows /\ p.day \in DOMAIN Reading!Days
  BY DEF Place
<1>9. p \in Place /\ p.day < Len(page.rows[p.row]) =>
        at(p.row, p.day) = page.rows[p.row][p.day + 1].cells
  BY <1>4, <1>8
<1>. QED  BY <1>1, <1>7, <1>9

LEMMA PlaceNumbers ==
  ASSUME page \in Pages, NEW p \in Place
  PROVE  p.row \in Nat \ {0} /\ p.row <= Len(page.rows) /\ p.day \in Nat \ {0} /\ p.cell \in Nat
<1>1. p.row \in DOMAIN page.rows /\ p.day \in DOMAIN Reading!Days /\ p.cell \in Nat
  BY DEF Place
<1>. QED  BY <1>1, PageLists, DaysCounted

\* What is printed is the same as long as the page and the reader are.
LEMMA PageStays ==
  ASSUME page' = page, reader' = reader
  PROVE  /\ Reading!Wanted' = Reading!Wanted /\ LessonsHere' = LessonsHere
         /\ \A p : LessonAt(p)' = LessonAt(p) /\ UpTo(p)' = UpTo(p)
<1>1. Reading!Wanted' = Reading!Wanted
  BY DEF Reading!Wanted, Reading!Printed, Reading!Entry, Reading!CellsAt, Reading!Days
<1>2. \A p : LessonAt(p)' = LessonAt(p)
  BY DEF LessonAt, Reading!Entry, Reading!CellsAt, Reading!Days, Reading!FoundGroups
<1>3. LessonsHere' = LessonsHere
  BY <1>1, <1>2 DEF LessonsHere
<1>4. \A p : UpTo(p)' = UpTo(p)
  BY <1>1 DEF UpTo, Reading!Before
<1>. QED  BY <1>1, <1>2, <1>3, <1>4

\* Loops that pass over nothing that the reader wants.
LEMMA NothingPassed ==
  ASSUME ReadSoFar, page' = page, reader' = reader, lessons' = lessons,
         \A p \in Reading!Wanted : Passed(p)' <=> Passed(p)
  PROVE  ReadSoFar'
<1>1. Reading!Wanted' = Reading!Wanted
  BY PageStays
<1>2. \A p : LessonAt(p)' = LessonAt(p)
  BY PageStays
<1>3. LessonsHere' = LessonsHere
  BY PageStays
<1>4. \A p : UpTo(p)' = UpTo(p)
  BY PageStays
<1>5. Done' = Done
  BY <1>1 DEF Done
<1>. QED  BY <1>2, <1>3, <1>4, <1>5 DEF ReadSoFar

LEMMA ReadInit == Reading!Init => ReadInv
<1>. SUFFICES ASSUME Reading!Init
              PROVE  ReadInv
  OBVIOUS
<1>1. /\ page \in Pages /\ reader \in Reading!Reader /\ pc = "fetch" /\ outcome = "none"
      /\ row = 1 /\ col = 1 /\ cell = 1 /\ lessons = <<>>
  BY DEF Reading!Init
<1>2. Loops
  BY <1>1 DEF Loops
<1>3. Done = {}
  <2>1. ASSUME NEW p \in Reading!Wanted
        PROVE  ~Passed(p)
    <3>1. p \in Place
      BY <1>1, WantedIs
    <3>2. p.row \in Nat \ {0}
      BY <1>1, <3>1, PlaceNumbers
    <3>. QED  BY <1>1, <3>2 DEF Passed
  <2>. QED  BY <2>1 DEF Done
<1>4. lessons \in Seq(LessonsHere) /\ Len(lessons) = 0
  BY <1>1
<1>5. IsFiniteSet(Done) /\ Cardinality(Done) = 0
  BY <1>3, FS_EmptySet
<1>6. ReadSoFar
  BY <1>3, <1>4, <1>5 DEF ReadSoFar
<1>. QED  BY <1>2, <1>6 DEF ReadInv

\* A wanted lesson is read: it comes after all that the loops have passed.
LEMMA LessonRead ==
  ASSUME page \in Pages, row \in Nat \ {0}, col \in Nat \ {0}, cell \in Nat \ {0},
         pc = "cells", pc' = pc, row' = row, col' = col, cell' = cell + 1,
         page' = page, reader' = reader, ReadSoFar,
         NEW c \in Reading!Wanted, c.row = row, c.day + 1 = col, c.cell = cell,
         lessons' = Append(lessons, LessonAt(c))
  PROVE  ReadSoFar'
<1>1. Reading!Wanted' = Reading!Wanted
  BY PageStays
<1>2. \A p : LessonAt(p)' = LessonAt(p)
  BY PageStays
<1>3. LessonsHere' = LessonsHere
  BY PageStays
<1>4. \A p : UpTo(p)' = UpTo(p)
  BY PageStays
<1>5. ASSUME NEW p \in Reading!Wanted
      PROVE  /\ p.row \in Nat /\ p.day \in Nat /\ p.cell \in Nat
             /\ p = [row |-> p.row, day |-> p.day, cell |-> p.cell]
  <2>1. p \in Place
    BY WantedIs
  <2>. QED  BY <2>1, PlaceNumbers DEF Place
<1>6. ASSUME NEW p \in Reading!Wanted
      PROVE  /\ p = c <=> (p.row = row /\ p.day + 1 = col /\ p.cell = cell)
             /\ Passed(p)' <=> (Passed(p) \/ p = c)
             /\ Reading!Before(p, c) <=> (Passed(p) \/ p = c)
             /\ Reading!Before(p, p)
  <2>1. p = c <=> (p.row = row /\ p.day = c.day /\ p.cell = cell)
    BY <1>5
  <2>2. c.day \in Nat
    BY <1>5
  <2>3. p = c <=> (p.row = row /\ p.day + 1 = col /\ p.cell = cell)
    BY <1>5, <2>1, <2>2
  <2>4. Passed(p)' <=> \/ p.row < row
                       \/ p.row = row /\ (p.day + 1 < col \/ (p.day + 1 = col /\ p.cell < cell + 1))
    BY DEF Passed
  <2>5. Passed(p)' <=> (Passed(p) \/ p = c)
    BY <1>5, <2>3, <2>4 DEF Passed
  <2>6. Reading!Before(p, c) <=> (Passed(p) \/ p = c)
    BY <1>5, <2>2, <2>3 DEF Passed, Reading!Before
  <2>7. Reading!Before(p, p)
    BY <1>5 DEF Reading!Before
  <2>. QED  BY <2>3, <2>5, <2>6, <2>7
<1>7. c \notin Done
  BY <1>5 DEF Done, Passed
<1>8. Done' = Done \cup {c}
  BY <1>1, <1>6 DEF Done
<1>9. UpTo(c) = Done \cup {c}
  BY <1>6 DEF UpTo, Done
<1>10. ASSUME NEW p \in Done
       PROVE  UpTo(p) \subseteq Done /\ p \in UpTo(p)
  <2>1. p \in Reading!Wanted /\ Passed(p)
    BY DEF Done
  <2>2. p \in UpTo(p)
    BY <1>6, <2>1 DEF UpTo
  <2>3. ASSUME NEW q \in Reading!Wanted, Reading!Before(q, p)
        PROVE  Passed(q)
    BY <1>5, <2>1, <2>3 DEF Passed, Reading!Before
  <2>. QED  BY <2>2, <2>3 DEF UpTo, Done
<1>11. /\ lessons \in Seq(LessonsHere) /\ IsFiniteSet(Done) /\ Len(lessons) = Cardinality(Done)
       /\ \A p \in Done : lessons[Cardinality(UpTo(p))] = LessonAt(p)
  BY DEF ReadSoFar
<1>12. /\ IsFiniteSet(Done \cup {c}) /\ Cardinality(Done \cup {c}) = Len(lessons) + 1
       /\ Len(lessons) \in Nat
  BY <1>7, <1>11, FS_AddElement
<1>13. LessonAt(c) \in LessonsHere
  BY DEF LessonsHere
<1>14. /\ lessons' \in Seq(LessonsHere) /\ Len(lessons') = Len(lessons) + 1
       /\ lessons'[Len(lessons) + 1] = LessonAt(c)
       /\ \A k \in 1 .. Len(lessons) : lessons'[k] = lessons[k]
  BY <1>11, <1>13
<1>15. ASSUME NEW p \in Done
       PROVE  Cardinality(UpTo(p)) \in 1 .. Len(lessons)
  <2>1. IsFiniteSet(UpTo(p)) /\ Cardinality(UpTo(p)) <= Cardinality(Done)
    BY <1>10, <1>11, FS_Subset
  <2>2. Cardinality(UpTo(p)) \in Nat /\ Cardinality(UpTo(p)) # 0
    BY <1>10, <2>1, FS_CardinalityType, FS_EmptySet
  <2>. QED  BY <1>11, <1>12, <2>1, <2>2
<1>16. ASSUME NEW p \in Done \cup {c}
       PROVE  lessons'[Cardinality(UpTo(p))] = LessonAt(p)
  <2>1. CASE p \in Done
    BY <1>11, <1>14, <1>15, <2>1
  <2>2. CASE p = c
    BY <1>9, <1>12, <1>14, <2>2
  <2>. QED  BY <2>1, <2>2
<1>. QED  BY <1>2, <1>3, <1>4, <1>8, <1>12, <1>14, <1>16 DEF ReadSoFar

LEMMA ReadStep == ReadInv /\ [Reading!Next]_(Reading!vars) => ReadInv'
<1>. SUFFICES ASSUME ReadInv, [Reading!Next]_(Reading!vars)
              PROVE  ReadInv'
  OBVIOUS
<1>0. Loops /\ ReadSoFar
  BY DEF ReadInv
<1>1. /\ page \in Pages /\ row \in Nat \ {0} /\ col \in Nat \ {0} /\ cell \in Nat \ {0}
  BY <1>0 DEF Loops
<1>2. /\ Len(page.rows) \in Nat /\ DOMAIN page.rows = 1 .. Len(page.rows)
      /\ \A r \in DOMAIN page.rows :
           Len(page.rows[r]) \in Nat /\ DOMAIN page.rows[r] = 1 .. Len(page.rows[r])
  BY <1>1, PageLists
<1>3. ASSUME NEW p \in Reading!Wanted
      PROVE  /\ p \in Place /\ p.row \in Nat \ {0} /\ p.row <= Len(page.rows)
             /\ p.day \in Nat \ {0} /\ p.cell \in Nat
             /\ p.day <= Len(Reading!Days) /\ Len(Reading!Days) \in Nat
  <2>1. p \in Place
    BY <1>1, WantedIs
  <2>2. p.day \in DOMAIN Reading!Days
    BY <2>1 DEF Place
  <2>. QED  BY <1>1, <2>1, <2>2, PlaceNumbers, DaysCounted
<1>4. pc = "cells" => row \in DOMAIN page.rows /\ Reading!Columns = page.rows[row]
  BY <1>0, <1>1, <1>2 DEF Loops, Reading!Columns
<1>5. CASE UNCHANGED Reading!vars
  <2>1. UNCHANGED <<page, reader, got, pc, row, col, cell, lessons, outcome>>
    BY <1>5 DEF Reading!vars
  <2>2. Loops'
    BY <1>0, <2>1 DEF Loops, Reading!Readable, Reading!StartTime, Reading!Columns
  <2>3. \A p \in Reading!Wanted : Passed(p)' <=> Passed(p)
    BY <2>1 DEF Passed
  <2>4. ReadSoFar'
    BY <1>0, <2>1, <2>3, NothingPassed
  <2>. QED  BY <2>2, <2>4 DEF ReadInv
<1>6. CASE Reading!Fetch
  <2>1. /\ pc = "fetch" /\ pc' = "rows" /\ Reading!Readable
        /\ UNCHANGED <<page, reader, got, row, col, cell, lessons, outcome>>
    BY <1>6 DEF Reading!Fetch
  <2>2. Loops'
    BY <1>0, <2>1 DEF Loops, Reading!Readable
  <2>3. \A p \in Reading!Wanted : Passed(p)' <=> Passed(p)
    BY <2>1 DEF Passed
  <2>4. ReadSoFar'
    BY <1>0, <2>1, <2>3, NothingPassed
  <2>. QED  BY <2>2, <2>4 DEF ReadInv
<1>7. CASE Reading!FetchFails
  <2>1. /\ pc = "fetch" /\ pc' = "returned" /\ ~Reading!Readable
        /\ outcome' = "lessons" => reader # "booking"
        /\ UNCHANGED <<page, reader, got, row, col, cell, lessons>>
    BY <1>7 DEF Reading!FetchFails, Reading!Return
  <2>2. Loops'
    BY <1>0, <2>1 DEF Loops, Reading!Readable
  <2>3. \A p \in Reading!Wanted : Passed(p)' <=> Passed(p)
    BY <2>1 DEF Passed
  <2>4. ReadSoFar'
    BY <1>0, <2>1, <2>3, NothingPassed
  <2>. QED  BY <2>2, <2>4 DEF ReadInv
<1>8. CASE Reading!ReadRow
  <2>1. /\ pc = "rows" /\ row <= Len(page.rows)
        /\ UNCHANGED <<page, reader, got, lessons, outcome>>
    BY <1>8 DEF Reading!ReadRow
  <2>2. Reading!Readable /\ Reading!Readable' = Reading!Readable
    BY <1>0, <2>1 DEF Loops, Reading!Readable
  <2>3. CASE Reading!StartTime = NoTime
    <3>1. row' = row + 1 /\ col' = 1 /\ cell' = 1 /\ pc' = "rows"
      BY <1>8, <2>3 DEF Reading!ReadRow, Reading!NextRow
    <3>2. Loops'
      BY <1>0, <1>1, <2>1, <2>2, <3>1 DEF Loops
    <3>3. ASSUME NEW p \in Reading!Wanted
          PROVE  p.row # row
      <4>1. p.day < Len(page.rows[p.row]) /\ page.rows[p.row][1].time # NoTime
        BY <1>1, WantedIs
      <4>2. p.row = row => page.rows[row] = <<>>
        BY <2>3, <4>1 DEF Reading!StartTime, Reading!Columns
      <4>. QED  BY <1>3, <4>1, <4>2
    <3>4. \A p \in Reading!Wanted : Passed(p)' <=> Passed(p)
      BY <1>1, <1>3, <2>1, <3>1, <3>3 DEF Passed
    <3>5. ReadSoFar'
      BY <1>0, <2>1, <3>4, NothingPassed
    <3>. QED  BY <3>2, <3>5 DEF ReadInv
  <2>4. CASE Reading!StartTime # NoTime
    <3>1. row' = row /\ col' = 2 /\ cell' = 1 /\ pc' = "cells"
      BY <1>8, <2>4 DEF Reading!ReadRow
    <3>2. Reading!StartTime' = Reading!StartTime
      BY <2>1, <3>1 DEF Reading!StartTime, Reading!Columns
    <3>3. Loops'
      BY <1>0, <1>1, <2>1, <2>2, <2>4, <3>1, <3>2 DEF Loops
    <3>4. ASSUME NEW p \in Reading!Wanted
          PROVE  p.cell # 0
      <4>1. p.cell \in DOMAIN page.rows[p.row][p.day + 1].cells /\ p.day < Len(page.rows[p.row])
        BY <1>1, WantedIs
      <4>2. p.row \in DOMAIN page.rows /\ p.day + 1 \in DOMAIN page.rows[p.row]
        BY <1>2, <1>3, <4>1
      <4>. QED  BY <1>1, <4>1, <4>2, PageLists
    <3>5. \A p \in Reading!Wanted : Passed(p)' <=> Passed(p)
      BY <1>1, <1>3, <2>1, <3>1, <3>4 DEF Passed
    <3>6. ReadSoFar'
      BY <1>0, <2>1, <3>5, NothingPassed
    <3>. QED  BY <3>3, <3>6 DEF ReadInv
  <2>. QED  BY <2>3, <2>4
<1>9. CASE Reading!EndRow
  <2>1. /\ pc = "cells" /\ col > Len(page.rows[row]) /\ row \in DOMAIN page.rows
        /\ row' = row + 1 /\ col' = 1 /\ cell' = 1 /\ pc' = "rows"
        /\ UNCHANGED <<page, reader, got, lessons, outcome>>
    BY <1>4, <1>9 DEF Reading!EndRow, Reading!NextRow
  <2>2. Loops'
    BY <1>0, <1>1, <2>1 DEF Loops, Reading!Readable
  <2>3. ASSUME NEW p \in Reading!Wanted
        PROVE  Passed(p)' <=> Passed(p)
    <3>1. p.day < Len(page.rows[p.row])
      BY <1>1, WantedIs
    <3>2. p.row = row => p.day + 1 < col
      BY <1>1, <1>2, <1>3, <2>1, <3>1
    <3>. QED  BY <1>1, <1>3, <2>1, <3>2 DEF Passed
  <2>4. ReadSoFar'
    BY <1>0, <2>1, <2>3, NothingPassed
  <2>. QED  BY <2>2, <2>4 DEF ReadInv
<1>10. CASE Reading!NextColumn
  <2>1. /\ pc = "cells" /\ row \in DOMAIN page.rows /\ col <= Len(page.rows[row])
        /\ col - 1 > Len(Reading!Days) \/ cell > Len(page.rows[row][col].cells)
        /\ col' = col + 1 /\ cell' = 1
        /\ UNCHANGED <<page, reader, got, pc, row, lessons, outcome>>
    BY <1>4, <1>10 DEF Reading!NextColumn, Reading!Weekday
  <2>2. Reading!StartTime' = Reading!StartTime
    BY <2>1 DEF Reading!StartTime, Reading!Columns
  <2>3. Loops'
    BY <1>0, <1>1, <2>1, <2>2 DEF Loops, Reading!Readable
  <2>4. ASSUME NEW p \in Reading!Wanted
        PROVE  Passed(p)' <=> Passed(p)
    <3>1. p.cell \in DOMAIN page.rows[p.row][p.day + 1].cells /\ p.day < Len(page.rows[p.row])
      BY <1>1, WantedIs
    <3>2. p.row \in DOMAIN page.rows /\ p.day + 1 \in DOMAIN page.rows[p.row]
      BY <1>2, <1>3, <3>1
    <3>3. /\ p.cell \in Nat \ {0} /\ p.cell <= Len(page.rows[p.row][p.day + 1].cells)
          /\ Len(page.rows[p.row][p.day + 1].cells) \in Nat
      <4>. DEFINE theirs == page.rows[p.row][p.day + 1].cells
      <4>1. Len(theirs) \in Nat /\ DOMAIN theirs = 1 .. Len(theirs)
        BY <1>1, <3>2, PageLists
      <4>2. p.cell \in DOMAIN theirs
        BY <3>1
      <4>. HIDE DEF theirs
      <4>3. p.cell \in Nat \ {0} /\ p.cell <= Len(theirs) /\ Len(theirs) \in Nat
        BY <4>1, <4>2
      <4>. QED  BY <4>3 DEF theirs
    <3>4. ASSUME p.row = row, p.day + 1 = col
          PROVE  p.cell < cell
      <4>1. p.cell \in Nat /\ p.cell <= Len(page.rows[row][col].cells)
            /\ Len(page.rows[row][col].cells) \in Nat
        BY <3>3, <3>4
      <4>2. ~(col - 1 > Len(Reading!Days))
        BY <1>1, <1>3, <3>4
      <4>3. cell > Len(page.rows[row][col].cells)
        BY <2>1, <4>2
      <4>. QED  BY <1>1, <4>1, <4>3
    <3>5. /\ row \in Nat /\ col \in Nat /\ cell \in Nat
          /\ p.row \in Nat /\ p.day \in Nat /\ p.cell \in Nat /\ ~(p.cell < 1)
      BY <1>1, <1>3, <3>3
    <3>6. Passed(p)' <=>
            p.row < row \/ (p.row = row /\ (p.day + 1 < col \/ p.day + 1 = col))
      <4>1. Passed(p)' <=>
              \/ p.row < row
              \/ p.row = row /\ (p.day + 1 < col + 1 \/ (p.day + 1 = col + 1 /\ p.cell < 1))
        BY <2>1 DEF Passed
      <4>2. p.day + 1 < col + 1 <=> (p.day + 1 < col \/ p.day + 1 = col)
        BY <3>5
      <4>. QED  BY <3>5, <4>1, <4>2
    <3>7. Passed(p) <=>
            \/ p.row < row
            \/ p.row = row /\ (p.day + 1 < col \/ (p.day + 1 = col /\ p.cell < cell))
      BY <2>1 DEF Passed
    <3>. QED  BY <3>4, <3>6, <3>7
  <2>5. ReadSoFar'
    BY <1>0, <2>1, <2>4, NothingPassed
  <2>. QED  BY <2>3, <2>5 DEF ReadInv
<1>11. CASE Reading!ReadCell
  <2>. DEFINE cells == page.rows[row][col].cells
              c == [row |-> row, day |-> col - 1, cell |-> cell]
  <2>1. /\ pc = "cells" /\ row \in DOMAIN page.rows /\ col <= Len(page.rows[row])
        /\ col - 1 <= Len(Reading!Days) /\ cell <= Len(cells) /\ cell' = cell + 1
        /\ UNCHANGED <<page, reader, got, pc, row, col, outcome>>
    BY <1>4, <1>11 DEF Reading!ReadCell, Reading!Weekday
  <2>2. lessons' = IF Reading!Skipped(cells[cell]) THEN lessons
                   ELSE Append(lessons, [subject |-> cells[cell].subject,
                                         weekday |-> Reading!Days[col - 1],
                                         time |-> Reading!StartTime,
                                         groups |-> Reading!FoundGroups(cells, cell)])
    BY <1>4, <1>11 DEF Reading!ReadCell, Reading!Weekday
  <2>3. Reading!StartTime' = Reading!StartTime
    BY <2>1 DEF Reading!StartTime, Reading!Columns
  <2>4. Loops'
    BY <1>0, <1>1, <2>1, <2>3 DEF Loops, Reading!Readable
  <2>5. /\ col > 1 /\ Reading!StartTime = page.rows[row][1].time /\ Reading!StartTime # NoTime
    BY <1>0, <1>4, <2>1 DEF Loops, Reading!StartTime
  <2>6. col \in DOMAIN page.rows[row] /\ col - 1 \in DOMAIN Reading!Days
    BY <1>1, <1>2, <2>1, <2>5, DaysCounted
  <2>7. cell \in DOMAIN cells
    BY <1>1, <2>1, <2>6, PageLists
  <2>8. c.row = row /\ c.day = col - 1 /\ c.cell = cell /\ c.day + 1 = col
    BY <1>1
  <2>9. c \in Place
    BY <1>1, <2>1, <2>6 DEF Place
  <2>10. c.day < Len(page.rows[c.row]) /\ page.rows[c.row][c.day + 1].cells = cells
    BY <1>1, <1>2, <2>1, <2>8
  <2>. HIDE DEF c
  <2>11. c \in Reading!Wanted <=> ~Reading!Skipped(cells[cell])
    BY <1>1, <2>5, <2>7, <2>8, <2>9, <2>10, WantedIs DEF Reading!Skipped
  <2>12. CASE Reading!Skipped(cells[cell])
    <3>1. ASSUME NEW p \in Reading!Wanted
          PROVE  ~(p.row = row /\ p.day + 1 = col /\ p.cell = cell)
      <4>1. p = [row |-> p.row, day |-> p.day, cell |-> p.cell]
        BY <1>3 DEF Place
      <4>2. p.row = row /\ p.day + 1 = col /\ p.cell = cell => p = c
        BY <1>1, <1>3, <4>1 DEF c
      <4>. QED  BY <2>11, <2>12, <4>2
    <3>2. \A p \in Reading!Wanted : Passed(p)' <=> Passed(p)
      BY <1>1, <1>3, <2>1, <3>1 DEF Passed
    <3>3. ReadSoFar'
      BY <1>0, <2>1, <2>2, <2>12, <3>2, NothingPassed
    <3>. QED  BY <2>4, <3>3 DEF ReadInv
  <2>13. CASE ~Reading!Skipped(cells[cell])
    <3>1. Reading!CellsAt(c.row, c.day) = cells
      BY <2>10 DEF Reading!CellsAt
    <3>2. LessonAt(c) = [subject |-> cells[cell].subject, weekday |-> Reading!Days[col - 1],
                         time |-> Reading!StartTime, groups |-> Reading!FoundGroups(cells, cell)]
      BY <2>5, <2>8, <3>1 DEF LessonAt, Reading!Entry
    <3>3. lessons' = Append(lessons, LessonAt(c))
      BY <2>2, <2>13, <3>2
    <3>4. c \in Reading!Wanted
      BY <2>11, <2>13
    <3>5. ReadSoFar'
      BY <1>0, <1>1, <2>1, <2>8, <3>3, <3>4, LessonRead
    <3>. QED  BY <2>4, <3>5 DEF ReadInv
  <2>. QED  BY <2>12, <2>13
<1>12. CASE Reading!Finish
  <2>1. /\ pc = "rows" /\ row > Len(page.rows) /\ pc' = "returned"
        /\ UNCHANGED <<page, reader, got, row, col, cell, lessons>>
    BY <1>12 DEF Reading!Finish, Reading!Return
  <2>2. Loops'
    BY <1>0, <2>1 DEF Loops, Reading!Readable
  <2>3. \A p \in Reading!Wanted : Passed(p)' <=> Passed(p)
    BY <2>1 DEF Passed
  <2>4. ReadSoFar'
    BY <1>0, <2>1, <2>3, NothingPassed
  <2>. QED  BY <2>2, <2>4 DEF ReadInv
<1>. QED  BY <1>5, <1>6, <1>7, <1>8, <1>9, <1>10, <1>11, <1>12 DEF Reading!Next

\* LessonsAsPrinted: what a reader of the service or of the bot returns (parser.go of
\* either) has every lesson of the page once, in the table's order, with the day over
\* it, the time beside it and its groups, whatever rows, columns and cells the page
\* has; of a page that was not got the service's reader returns no list.
THEOREM PagesAreReadAsPrinted == Reading!Spec => []LessonsAsPrinted
<1>1. Reading!Init => ReadInv
  BY ReadInit
<1>2. ReadInv /\ [Reading!Next]_(Reading!vars) => ReadInv'
  BY ReadStep
<1>3. ReadInv => LessonsAsPrinted
  <2>. SUFFICES ASSUME ReadInv, outcome = "lessons"
                PROVE  Reading!LessonsAsPrinted
    BY DEF LessonsAsPrinted, Reading!LessonsAsPrinted
  <2>1. Loops /\ ReadSoFar
    BY DEF ReadInv
  <2>2. CASE ~Reading!Readable
    <3>1. lessons = <<>> /\ reader # "booking"
      BY <2>1, <2>2 DEF Loops
    <3>. QED  BY <2>2, <3>1 DEF Reading!LessonsAsPrinted
  <2>3. CASE Reading!Readable
    <3>1. page \in Pages /\ row > Len(page.rows) /\ row \in Nat /\ reader \in Reading!Reader
      BY <2>1, <2>3 DEF Loops
    <3>2. Done = Reading!Wanted
      <4>1. ASSUME NEW p \in Reading!Wanted
            PROVE  Passed(p)
        <5>1. p \in Place
          BY <3>1, WantedIs
        <5>. QED  BY <3>1, <5>1, PlaceNumbers, PageLists DEF Passed
      <4>. QED  BY <4>1 DEF Done
    <3>3. Len(lessons) = Cardinality(Reading!Wanted)
      BY <2>1, <3>2 DEF ReadSoFar
    <3>4. ASSUME NEW p \in Reading!Wanted
          PROVE  lessons[Cardinality({q \in Reading!Wanted : Reading!Before(q, p)})] = LessonAt(p)
      BY <2>1, <3>2 DEF ReadSoFar, UpTo
    <3>5. ASSUME NEW p \in Reading!Wanted
          PROVE  /\ LessonAt(p).subject = Reading!Entry(p).subject
                 /\ LessonAt(p).weekday = Reading!Days[p.day]
                 /\ LessonAt(p).time = page.rows[p.row][1].time
      BY DEF LessonAt
    <3>6. ASSUME NEW p \in Reading!Wanted
          PROVE  Reading!GroupsFit(LessonAt(p).groups, p)
      <4>. DEFINE cells == Reading!CellsAt(p.row, p.day)
      <4>1. LessonAt(p).groups = Reading!FoundGroups(cells, p.cell)
        BY DEF LessonAt
      <4>2. p.cell \in DOMAIN cells
        <5>1. p.cell \in DOMAIN page.rows[p.row][p.day + 1].cells /\ p.day < Len(page.rows[p.row])
          BY <3>1, WantedIs
        <5>. QED  BY <5>1 DEF Reading!CellsAt
      <4>3. Reading!Entry(p) = cells[p.cell]
        BY DEF Reading!Entry
      <4>. HIDE DEF cells
      <4>4. /\ cells[p.cell].groups \subseteq UNION {cells[n].groups : n \in DOMAIN cells}
            /\ UNION {cells[n].groups : n \in DOMAIN cells}
                 = UNION {c.groups : c \in {cells[k] : k \in DOMAIN cells}}
        BY <4>2
      <4>. QED  BY <4>1, <4>3, <4>4 DEF Reading!FoundGroups, Reading!GroupsFit, cells
    <3>7. ASSUME NEW p \in Reading!Wanted
          PROVE  LET l == lessons[Cardinality({q \in Reading!Wanted : Reading!Before(q, p)})]
                 IN  /\ l.subject = Reading!Entry(p).subject /\ l.weekday = Reading!Days[p.day]
                     /\ l.time = page.rows[p.row][1].time
                     /\ Reading!GroupsFit(l.groups, p)
      BY <3>4, <3>5, <3>6
    <3>8. \A S : Reading!Cardinality(S) = Cardinality(S)
      BY DEF Reading!Cardinality, Cardinality
    <3>. QED  BY <2>3, <3>3, <3>7, <3>8 DEF Reading!LessonsAsPrinted
  <2>. QED  BY <2>2, <2>3
<1>. QED  BY <1>1, <1>2, <1>3, PTL DEF Reading!Spec

=============================================================================
