------------------------ MODULE WorkerProtocolProofs ------------------------
(***************************************************************************)
(* Why the client finds no fault with the lines of its worker.  What the    *)
(* client has seen, the lines that are on their way and what the worker has *)
(* told are one course: every line may follow what was seen or told before  *)
(* it, and the worker stands where the last line left it.                   *)
(***************************************************************************)
EXTENDS WorkerClientProofs

\* How far a side takes the other to be: the stage, and the request that is
\* being analysed with its phase.
View(stage, id, phase) == [stage |-> stage, id |-> id, phase |-> phase]
Plain(stage) == View(stage, Nothing, Nothing)

Views ==
  {v \in [stage : Statuses \cup {"over"}, id : Ids \cup {Nothing}, phase : Phases \cup {Nothing}] :
     (v.id = Nothing <=> v.phase = Nothing) /\ (v.id # Nothing => v.stage = "ready")}

\* How far a line leaves them.
After(e) ==
  IF e.type = "progress" THEN View("ready", e.id, e.phase)
  ELSE IF e.type \in {"loading", "warming"} THEN Plain(e.type)
  ELSE IF e.type \in Answers \cup {"ready"} THEN Plain("ready")
  ELSE Plain("over")

\* How far the worker is.
Told ==
  IF wk.pc \in {"spawning", "started"} THEN Plain("starting")
  ELSE IF wk.pc \in Starting THEN Plain(IF wk.warmed THEN "warming" ELSE "loading")
  ELSE IF wk.pc = "analyze" /\ wk.phase # Nothing THEN View("ready", wk.id, wk.phase)
  ELSE Plain("ready")

\* How far the client is.
Matches(v) ==
  /\ cl.status = v.stage
  /\ progress = [i \in Ids |-> IF i = v.id THEN v.phase ELSE Nothing]

\* The lines that may come next.
Follows(v, e) ==
  \/ e.type = "loading" /\ v = Plain("starting")
  \/ e.type = "warming" /\ v = Plain("loading")
  \/ e.type = "ready" /\ v = Plain("warming")
  \/ /\ e.type = "progress" /\ v.stage = "ready" /\ v.id \in {e.id, Nothing}
     /\ <<v.phase, e.phase>> \in LEGAL_NEXT_PHASES
  \/ e.type = "result" /\ v = View("ready", e.id, "aggregating")
  \/ e.type = "analysis_failed" /\ v.stage = "ready" /\ v.id \in {e.id, Nothing}
  \/ e.type = "stopped" /\ v = Plain("ready")
  \/ /\ e.type \in {"admission_failed", "initialization_failed"}
     /\ v \in {Plain("loading"), Plain("warming")}

\* How far the first k lines of q leave who starts at v.
LineOf(q, v, k) == IF k = 0 THEN v ELSE After(q[k])
EndOf(q, v) == LineOf(q, v, Len(q))
ChainOf(q, v) == \A k \in 1..Len(q) : Follows(LineOf(q, v, k - 1), q[k])

\* No image has gone, and start() was not given up for a shutdown.
Clean == Live /\ missing = {} /\ ~(cl.shutting /\ cl.start = "failed")

Speaking == Running \cup {"spawning"}

Agrees(v) ==
  /\ Matches(v) /\ ChainOf(toClient, v)
  /\ wk.pc \in Speaking => EndOf(toClient, v) = Told

Agreed == Clean => \E v \in Views : Agrees(v)

Warmth == wk.pc \in {"absent", "spawning", "started", "select"} => ~wk.warmed

\* start() waits until the worker is ready, or was given up for a shutdown.
Begins ==
  /\ cl.status = "notStarted" => cl.start = "none"
  /\ cl.status \in {"starting", "loading", "warming"} =>
       cl.start = "pending" \/ (cl.shutting /\ cl.start = "failed")

Faultless == Live => cl.cause = Nothing

\* Only the shutdown the client has asked for stops the worker.
Stops ==
  /\ cl.stopId # Nothing => cl.shutting
  /\ \A k \in Queue : toWorker[k].type = "shutdown" =>
       toWorker[k].id = cl.stopId /\ cl.stopId # Nothing
  /\ Up /\ wk.pc = "close" => wk.stop = cl.stopId /\ cl.stopId # Nothing
  /\ Up => \A k \in Lines : toClient[k].type = "stopped" =>
             toClient[k].id = cl.stopId /\ cl.stopId # Nothing

\* A progress line is of the request the worker has, or its answer comes behind it.
Owned ==
  \A k \in Lines : toClient[k].type = "progress" =>
    \/ wk.id = toClient[k].id
    \/ \E l \in Lines : k < l /\ IsAnswer(l) /\ toClient[l].id = toClient[k].id

\* What has not been answered to its caller waits for its answer.
Awaits ==
  Live => /\ \A k \in Queue : toWorker[k].type = "analyze" =>
               outcome[toWorker[k].id] = "pending"
          /\ wk.id # Nothing => outcome[wk.id] = "pending"
          /\ \A k \in Lines : IsAnswer(k) => outcome[toClient[k].id] = "pending"

Protocol == Agreed /\ Warmth /\ Begins /\ Faultless /\ Stops /\ Owned /\ Awaits

-----------------------------------------------------------------------------
(* A course of lines.                                                      *)

LEMMA ViewFields ==
  /\ \A s, i, p : View(s, i, p).stage = s /\ View(s, i, p).id = i /\ View(s, i, p).phase = p
  /\ \A s : Plain(s).stage = s /\ Plain(s).id = Nothing /\ Plain(s).phase = Nothing
BY DEF View, Plain

LEMMA AfterTyped ==
  ASSUME NEW e \in Events
  PROVE  After(e) \in Views
<1>1. CASE e.type = "progress"
  <2>1. After(e) = View("ready", e.id, e.phase)
    BY <1>1 DEF After
  <2>2. e.id \in Ids /\ e.phase \in Phases /\ e.id # Nothing /\ e.phase # Nothing
    BY <1>1, EventFields, Constants
  <2> QED
    BY <2>1, <2>2 DEF View, Views, Statuses
<1>2. CASE e.type # "progress"
  <2>1. After(e) \in {Plain("loading"), Plain("warming"), Plain("ready"), Plain("over")}
    BY <1>2, EventFields DEF After, Answers
  <2> QED
    BY <2>1 DEF Plain, View, Views, Statuses
<1> QED
  BY <1>1, <1>2

LEMMA ChainAppend ==
  ASSUME NEW q \in Seq(Events), NEW v, NEW e \in Events, ChainOf(q, v), Follows(EndOf(q, v), e)
  PROVE  ChainOf(Append(q, e), v) /\ EndOf(Append(q, e), v) = After(e)
<1> DEFINE r == Append(q, e)
<1>1. /\ Len(q) \in Nat /\ Len(r) = Len(q) + 1 /\ r[Len(q) + 1] = e
      /\ \A k \in 1..Len(q) : r[k] = q[k]
  BY AppendLines
<1> HIDE DEF r
<1>2. \A k \in 0..Len(q) : LineOf(r, v, k) = LineOf(q, v, k)
  BY <1>1 DEF LineOf
<1>3. ASSUME NEW k \in 1..Len(r) PROVE Follows(LineOf(r, v, k - 1), r[k])
  <2>1. CASE k = Len(q) + 1
    <3>1. LineOf(r, v, k - 1) = EndOf(q, v)
      BY <1>1, <1>2, <2>1 DEF EndOf
    <3> QED
      BY <1>1, <2>1, <3>1
  <2>2. CASE k # Len(q) + 1
    <3>1. k \in 1..Len(q) /\ k - 1 \in 0..Len(q)
      BY <1>1, <2>2
    <3> QED
      BY <1>1, <1>2, <3>1 DEF ChainOf
  <2> QED
    BY <2>1, <2>2
<1>4. EndOf(r, v) = After(e)
  BY <1>1 DEF EndOf, LineOf
<1> QED
  BY <1>3, <1>4 DEF ChainOf, r

LEMMA ChainTail ==
  ASSUME NEW q \in Seq(Events), NEW v, q # <<>>, ChainOf(q, v)
  PROVE  /\ Follows(v, Head(q)) /\ ChainOf(Tail(q), After(Head(q)))
         /\ EndOf(Tail(q), After(Head(q))) = EndOf(q, v)
<1> DEFINE t == Tail(q)
           w == After(Head(q))
<1>1. /\ Len(t) = Len(q) - 1 /\ Len(q) \in Nat \ {0} /\ q[1] = Head(q) /\ 1 \in 1..Len(q)
      /\ \A k \in 1..Len(t) : k + 1 \in 1..Len(q) /\ t[k] = q[k + 1]
  BY TailLines
<1>2. Follows(v, Head(q))
  BY <1>1 DEF ChainOf, LineOf
<1> HIDE DEF t
<1>3. \A k \in 0..Len(t) : LineOf(t, w, k) = LineOf(q, v, k + 1)
  <2> TAKE k \in 0..Len(t)
  <2>1. CASE k = 0
    BY <1>1, <2>1 DEF LineOf
  <2>2. CASE k # 0
    <3>1. k \in 1..Len(t) /\ k + 1 # 0
      BY <1>1, <2>2
    <3> QED
      BY <1>1, <2>2, <3>1 DEF LineOf
  <2> QED
    BY <2>1, <2>2
<1>4. ASSUME NEW k \in 1..Len(t) PROVE Follows(LineOf(t, w, k - 1), t[k])
  <2>1. k - 1 \in 0..Len(t) /\ k + 1 \in 1..Len(q) /\ (k - 1) + 1 = (k + 1) - 1
    BY <1>1
  <2>2. LineOf(t, w, k - 1) = LineOf(q, v, (k + 1) - 1)
    BY <1>3, <2>1
  <2> QED
    BY <1>1, <2>1, <2>2 DEF ChainOf
<1>5. EndOf(t, w) = EndOf(q, v)
  <2>1. Len(t) \in 0..Len(t) /\ Len(t) + 1 = Len(q)
    BY <1>1
  <2> QED
    BY <1>3, <2>1 DEF EndOf
<1> QED
  BY <1>2, <1>4, <1>5 DEF ChainOf, t

-----------------------------------------------------------------------------
(* What the worker writes may follow what it has written.                  *)

\* A line that may follow what the worker has told.
LEMMA Speaks ==
  ASSUME PipesTyped, Agreed, Clean' => Clean, UNCHANGED <<cl, progress>>, NEW e \in Events,
         Emit(e), wk.pc \in Speaking, Follows(Told, e),
         wk'.pc \in Speaking => Told' = After(e)
  PROVE  Agreed'
<1> SUFFICES ASSUME Clean' PROVE \E v \in Views : Agrees(v)'
  BY DEF Agreed
<1>1. PICK v \in Views : Matches(v) /\ ChainOf(toClient, v) /\ EndOf(toClient, v) = Told
  BY DEF Agreed, Agrees
<1>2. toClient \in Seq(Events) /\ toClient' = Append(toClient, e)
  BY DEF PipesTyped, Emit
<1>3. ChainOf(toClient', v) /\ EndOf(toClient', v) = After(e)
  BY <1>1, <1>2, ChainAppend
<1>4. Matches(v)'
  BY <1>1 DEF Matches
<1> QED
  BY <1>3, <1>4 DEF Agrees

\* A step that says nothing, after which the worker stands where it stood.
LEMMA Silent ==
  ASSUME Agreed, UNCHANGED toClient,
         Clean' => Clean /\ UNCHANGED progress /\ cl'.status = cl.status,
         wk'.pc \in Speaking => wk.pc \in Speaking /\ Told' = Told
  PROVE  Agreed'
<1> SUFFICES ASSUME Clean' PROVE \E v \in Views : Agrees(v)'
  BY DEF Agreed
<1>1. PICK v \in Views : /\ Matches(v) /\ ChainOf(toClient, v)
                         /\ wk.pc \in Speaking => EndOf(toClient, v) = Told
  BY DEF Agreed, Agrees
<1>2. Matches(v)'
  BY <1>1 DEF Matches
<1> QED
  BY <1>1, <1>2 DEF Agrees

\* What a step of the worker leaves of the client.
Aside == UNCHANGED clientVars /\ missing \subseteq missing'

LEMMA AsideClean ==
  ASSUME Aside
  PROVE  /\ Clean' => Clean /\ missing' = {}
         /\ UNCHANGED <<cl, outcome, progress>> /\ UNCHANGED Live
BY DEF Aside, Clean, Live, clientVars

LEMMA PcSets ==
  /\ {"spawning", "started", "select", "load", "warm", "announce", "idle", "analyze", "close"}
       = Speaking
  /\ Starting = {"started", "select", "load", "warm", "announce"}
  /\ "gone" \notin Speaking /\ "absent" \notin Speaking /\ "killed" \notin Speaking
BY DEF Speaking, Running, Starting, Serving

LEMMA FatalAgreed ==
  ASSUME Typed, Agreed, Aside, NEW code \in {"admission_failed", "initialization_failed"},
         wk.pc \in Starting \ {"started"}, Fatal(code)
  PROVE  Agreed'
<1> DEFINE e == [type |-> code]
<1>1. e \in Events /\ Emit(e) /\ e.type = code
  BY EventsOf DEF Fatal
<1>2. wk'.pc = "gone"
  BY PcsOf, BecomesTyped DEF Fatal, Typed
<1>3. Told \in {Plain("loading"), Plain("warming")} /\ wk.pc \in Speaking
  BY PcSets DEF Told
<1> HIDE DEF e
<1>4. Follows(Told, e)
  BY <1>1, <1>3 DEF Follows
<1> QED
  BY <1>1, <1>2, <1>3, <1>4, Speaks, AsideClean, PcSets DEF Typed

LEMMA BeginAgreed ==
  ASSUME Typed, Agreed, Aside, Warmth, BeginServe
  PROVE  Agreed'
<1> DEFINE e == [type |-> "loading"]
<1>1. e \in Events /\ Emit(e) /\ e.type = "loading"
  BY EventsOf DEF BeginServe
<1>2. wk.pc = "started" /\ Becomes("select") /\ ~wk.warmed
  BY DEF BeginServe, At, Warmth
<1>3. wk'.pc = "select" /\ ~wk'.warmed
  <2>1. "select" \in Pcs \ {"analyze"}
    BY DEF Pcs, Running, Starting
  <2> QED
    BY <1>2, <2>1, BecomesTyped DEF Typed
<1>4. Told = Plain("starting") /\ Told' = Plain("loading") /\ wk.pc \in Speaking
  BY <1>2, <1>3, PcSets DEF Told
<1> HIDE DEF e
<1>5. Follows(Told, e) /\ After(e) = Plain("loading")
  BY <1>1, <1>4 DEF Follows, After
<1> QED
  BY <1>1, <1>4, <1>5, Speaks, AsideClean DEF Typed

LEMMA SelectAgreed ==
  ASSUME Typed, Agreed, Aside, SelectCandidate \/ SelectLegacy
  PROVE  Agreed'
<1>1. wk.pc = "select"
  BY DEF SelectCandidate, SelectLegacy, At
<1>2. CASE Fatal("admission_failed") \/ Fatal("initialization_failed")
  BY <1>1, <1>2, PcSets, FatalAgreed
<1>3. CASE ~(Fatal("admission_failed") \/ Fatal("initialization_failed"))
  <2>1. PICK pc \in {"announce", "load"}, d \in Devices, m \in Modes :
          wk' = [wk EXCEPT !.pc = pc, !.device = d, !.mode = m]
    BY <1>3 DEF SelectCandidate, SelectLegacy, Devices, Modes
  <2>2. wk'.pc = pc /\ wk'.warmed = wk.warmed /\ UNCHANGED toClient
    BY <1>3, <2>1 DEF Typed, WkTyped, WorkerType, SelectCandidate, SelectLegacy
  <2>3. Told' = Told /\ wk.pc \in Speaking
    BY <1>1, <2>2, PcSets DEF Told
  <2> QED
    BY <2>2, <2>3, Silent, AsideClean
<1> QED
  BY <1>2, <1>3

LEMMA FallBackAgreed ==
  ASSUME Typed, Agreed, Aside, FallBack, wk.pc \in {"load", "warm"}
  PROVE  Agreed'
<1>1. CASE wk.device = "cuda:0"
  <2>1. /\ wk' = [wk EXCEPT !.pc = "load", !.device = "cpu", !.mode = "cpu_reference"]
        /\ UNCHANGED toClient
    BY <1>1 DEF FallBack
  <2>2. wk'.pc = "load" /\ wk'.warmed = wk.warmed
    BY <2>1 DEF Typed, WkTyped, WorkerType
  <2>3. Told' = Told /\ wk.pc \in Speaking
    BY <2>2, PcSets DEF Told
  <2> QED
    BY <2>1, <2>3, Silent, AsideClean
<1>2. CASE wk.device # "cuda:0"
  BY <1>2, PcSets, FatalAgreed DEF FallBack
<1> QED
  BY <1>1, <1>2

LEMMA LoadAgreed ==
  ASSUME Typed, Agreed, Aside, Load \/ Warm
  PROVE  Agreed'
<1>0. wk.pc \in {"load", "warm"} /\ wk.pc \in Speaking /\ wk.warmed \in BOOLEAN
  BY PcSets DEF Load, Warm, At, Typed, WkTyped, WorkerType
<1>1. CASE FallBack
  BY <1>0, <1>1, FallBackAgreed
<1>2. CASE wk' = [wk EXCEPT !.pc = "warm", !.warmed = TRUE] /\ EmitWarming
  <2> DEFINE e == [type |-> "warming"]
  <2>1. wk'.pc = "warm" /\ wk'.warmed
    BY <1>2 DEF Typed, WkTyped, WorkerType
  <2>2. Told' = Plain("warming") /\ Told = Plain(IF wk.warmed THEN "warming" ELSE "loading")
    BY <1>0, <2>1, PcSets DEF Told
  <2>3. CASE wk.warmed
    BY <1>0, <1>2, <2>2, <2>3, Silent, AsideClean DEF EmitWarming
  <2>4. CASE ~wk.warmed
    <3>1. e \in Events /\ Emit(e) /\ e.type = "warming"
      BY <1>2, <2>4, EventsOf DEF EmitWarming
    <3> HIDE DEF e
    <3>2. Follows(Told, e) /\ After(e) = Plain("warming")
      BY <2>2, <2>4, <3>1 DEF Follows, After
    <3> QED
      BY <1>0, <2>2, <3>1, <3>2, Speaks, AsideClean DEF Typed
  <2> QED
    BY <2>3, <2>4
<1>3. CASE Becomes("announce") /\ UNCHANGED toClient
  <2>1. wk'.pc = "announce" /\ wk'.warmed = wk.warmed
    <3>1. "announce" \in Pcs \ {"analyze"}
      BY DEF Pcs, Running, Starting
    <3> QED
      BY <1>3, <3>1, BecomesTyped DEF Typed
  <2>2. Told' = Told
    BY <1>0, <2>1, PcSets DEF Told
  <2> QED
    BY <1>0, <1>3, <2>2, Silent, AsideClean
<1> QED
  BY <1>1, <1>2, <1>3 DEF Load, Warm

\* Announce writes one line, or warming and one line.
LEMMA AnnounceAgreed ==
  ASSUME Typed, Agreed, Aside, Announce
  PROVE  Agreed'
<1> DEFINE warming == [type |-> "warming"]
           q == IF wk.warmed THEN toClient ELSE Append(toClient, warming)
<1>1. /\ wk.device \in Devices /\ wk.mode \in Modes /\ wk.warmed \in BOOLEAN
      /\ toClient \in Seq(Events) /\ warming \in Events /\ warming.type = "warming"
      /\ wk.pc = "announce" /\ wk.pc \in Speaking
  BY EventsOf, PcSets DEF Typed, WkTyped, WorkerType, PipesTyped, Announce, At
<1>2. PICK e \in Events :
        /\ \/ e.type = "ready" /\ wk'.pc = "idle"
           \/ e.type = "initialization_failed" /\ wk'.pc = "gone"
        /\ toClient' = toClient \o (IF wk.warmed THEN <<>> ELSE <<warming>>) \o <<e>>
  <2>1. CASE wk' = [wk EXCEPT !.pc = "idle", !.warmed = TRUE]
              /\ toClient' = toClient \o (IF wk.warmed THEN <<>> ELSE <<warming>>)
                    \o <<[type |-> "ready", device |-> wk.device, mode |-> wk.mode]>>
    BY <1>1, <2>1, EventsOf DEF Typed, WkTyped, WorkerType
  <2>2. CASE Becomes("gone")
              /\ toClient' = toClient \o (IF wk.warmed THEN <<>> ELSE <<warming>>)
                    \o <<[type |-> "initialization_failed"]>>
    BY <2>2, EventsOf, PcsOf, BecomesTyped DEF Typed
  <2> QED
    BY <2>1, <2>2 DEF Announce
<1>3. toClient' = Append(q, e)
  BY <1>1, <1>2, Announced DEF Typed
<1> HIDE DEF warming
<1> SUFFICES ASSUME Clean' PROVE \E v \in Views : Agrees(v)'
  BY DEF Agreed
<1>4. PICK v \in Views : Matches(v) /\ ChainOf(toClient, v) /\ EndOf(toClient, v) = Told
  BY <1>1, AsideClean DEF Agreed, Agrees
<1>5. Told = Plain(IF wk.warmed THEN "warming" ELSE "loading")
  BY <1>1, PcSets DEF Told
<1>6. q \in Seq(Events) /\ ChainOf(q, v) /\ EndOf(q, v) = Plain("warming")
  <2>1. CASE wk.warmed
    BY <1>1, <1>4, <1>5, <2>1
  <2>2. CASE ~wk.warmed
    <3>1. Follows(EndOf(toClient, v), warming) /\ After(warming) = Plain("warming")
      BY <1>1, <1>4, <1>5, <2>2 DEF Follows, After
    <3> QED
      BY <1>1, <1>4, <2>2, <3>1, ChainAppend, AppendLines
  <2> QED
    BY <2>1, <2>2
<1> HIDE DEF q
<1>7. Follows(EndOf(q, v), e) /\ (e.type = "ready" => After(e) = Plain("ready"))
  BY <1>2, <1>6 DEF Follows, After
<1>8. ChainOf(toClient', v) /\ EndOf(toClient', v) = After(e)
  BY <1>3, <1>6, <1>7, ChainAppend
<1>9. wk'.pc \in Speaking => Told' = After(e)
  BY <1>2, <1>7, PcSets DEF Told
<1>10. Matches(v)'
  BY <1>4, AsideClean DEF Matches
<1> QED
  BY <1>8, <1>9, <1>10 DEF Agrees

\* The worker reads a request; an image that has gone ends the agreement.
LEMMA ReadAgreed ==
  ASSUME Typed, Agreed, Aside, ReadAnalyze \/ ReadShutdown
  PROVE  Agreed'
<1>1. wk.pc = "idle" /\ Told = Plain("ready") /\ wk.pc \in Speaking
  BY PcSets DEF ReadAnalyze, ReadShutdown, At, Told
<1>2. CASE Head(toWorker).id \in missing
  <2>1. ~Clean' \/ ReadShutdown
    BY <1>2, AsideClean DEF Aside
  <2>2. CASE ~Clean'
    BY <2>2 DEF Agreed
  <2>3. CASE ReadShutdown
    <3>1. wk' = [wk EXCEPT !.pc = "close", !.stop = Head(toWorker).id] /\ UNCHANGED toClient
      BY <2>3 DEF ReadShutdown
    <3>2. wk'.pc = "close"
      BY <3>1 DEF Typed, WkTyped, WorkerType
    <3>3. Told' = Told
      BY <1>1, <3>2, PcSets DEF Told
    <3> QED
      BY <1>1, <3>1, <3>3, Silent, AsideClean
  <2> QED
    BY <2>1, <2>2, <2>3
<1>3. CASE Head(toWorker).id \notin missing
  <2>1. /\ UNCHANGED toClient
        /\ \/ wk' = [wk EXCEPT !.pc = "analyze", !.id = Head(toWorker).id, !.phase = Nothing]
           \/ wk' = [wk EXCEPT !.pc = "close", !.stop = Head(toWorker).id]
    BY <1>3 DEF ReadAnalyze, ReadShutdown
  <2>2. (wk'.pc = "analyze" /\ wk'.phase = Nothing) \/ wk'.pc = "close"
    BY <2>1 DEF Typed, WkTyped, WorkerType
  <2>3. Told' = Told
    BY <1>1, <2>2, PcSets DEF Told
  <2> QED
    BY <1>1, <2>1, <2>3, Silent, AsideClean
<1> QED
  BY <1>2, <1>3

LEMMA ProgressAgreed ==
  ASSUME Typed, Agreed, Aside, Progress
  PROVE  Agreed'
<1>1. wk.pc = "analyze" /\ wk.pc \in Speaking /\ wk.id \in Ids /\ wk \in WorkerType
  BY PcSets DEF Progress, At, Typed, WkTyped
<1>2. PICK phase \in Phases :
        /\ <<wk.phase, phase>> \in LEGAL_NEXT_PHASES
        /\ wk' = [wk EXCEPT !.phase = phase]
        /\ Emit([type |-> "progress", id |-> wk.id, phase |-> phase])
  BY DEF Progress
<1> DEFINE e == [type |-> "progress", id |-> wk.id, phase |-> phase]
<1>3. e \in Events /\ e.type = "progress" /\ e.id = wk.id /\ e.phase = phase /\ Emit(e)
  BY <1>1, <1>2, EventsOf
<1> HIDE DEF e
<1>4. wk'.pc = "analyze" /\ wk'.id = wk.id /\ wk'.phase = phase /\ phase # Nothing
  BY <1>1, <1>2, Constants DEF WorkerType
<1>5. Told = IF wk.phase # Nothing THEN View("ready", wk.id, wk.phase) ELSE Plain("ready")
  BY <1>1, PcSets DEF Told
<1>6. Told.stage = "ready" /\ Told.id \in {wk.id, Nothing} /\ Told.phase = wk.phase
  BY <1>5, ViewFields
<1>7. Follows(Told, e)
  BY <1>2, <1>3, <1>6 DEF Follows
<1>8. Told' = View("ready", wk.id, phase)
  BY <1>4, PcSets DEF Told
<1>9. After(e) = View("ready", wk.id, phase)
  BY <1>3 DEF After
<1> QED
  BY <1>1, <1>3, <1>7, <1>8, <1>9, Speaks, AsideClean DEF Typed

LEMMA AnswerAgreed ==
  ASSUME Typed, Agreed, Aside, Result \/ AnalysisFails
  PROVE  Agreed'
<1>1. wk.pc = "analyze" /\ wk.pc \in Speaking /\ wk.id \in Ids /\ wk \in WorkerType
  BY PcSets DEF Result, AnalysisFails, At, Typed, WkTyped
<1>2. PICK type \in Answers : Answer(type) /\ (type = "result" => wk.phase = "aggregating")
  BY DEF Result, AnalysisFails, Answers
<1> DEFINE e == [type |-> type, id |-> wk.id]
<1>3. e \in Events /\ e.type = type /\ e.id = wk.id /\ Emit(e)
  BY <1>1, <1>2, EventsOf DEF Answer, Answers
<1> HIDE DEF e
<1>4. wk'.pc = "idle"
  BY <1>1, <1>2 DEF Answer, WorkerType
<1>5. Told = IF wk.phase # Nothing THEN View("ready", wk.id, wk.phase) ELSE Plain("ready")
  BY <1>1, PcSets DEF Told
<1>6. Told.stage = "ready" /\ Told.id \in {wk.id, Nothing}
  BY <1>5, ViewFields
<1>7. Follows(Told, e)
  <2>1. CASE type = "result"
    <3>1. wk.phase # Nothing
      BY <1>2, <2>1, Constants DEF Phases
    <3> QED
      BY <1>2, <1>3, <1>5, <2>1, <3>1 DEF Follows
  <2>2. CASE type = "analysis_failed"
    BY <1>3, <1>6, <2>2 DEF Follows
  <2> QED
    BY <2>1, <2>2 DEF Answers
<1>8. Told' = Plain("ready") /\ After(e) = Plain("ready")
  BY <1>3, <1>4, PcSets DEF Told, After, Answers
<1> QED
  BY <1>1, <1>3, <1>7, <1>8, Speaks, AsideClean DEF Typed

LEMMA CloseAgreed ==
  ASSUME Typed, Agreed, Aside, CloseRuntime
  PROVE  Agreed'
<1> DEFINE e == [type |-> "stopped", id |-> wk.stop]
<1>1. e \in Events /\ e.type = "stopped" /\ Emit(e) /\ wk.pc = "close"
  BY EventsOf DEF CloseRuntime, At, Typed, WkTyped, WorkerType
<1>2. wk'.pc = "gone"
  BY PcsOf, BecomesTyped DEF CloseRuntime, Typed
<1> HIDE DEF e
<1>3. Follows(Told, e) /\ wk.pc \in Speaking
  BY <1>1, PcSets DEF Told, Follows
<1> QED
  BY <1>1, <1>2, <1>3, Speaks, AsideClean, PcSets DEF Typed

\* The steps after which the worker writes no more, or stands where it stood.
LEMMA QuietAgreed ==
  ASSUME Typed, Agreed, Aside,
         RejectLaunch \/ ReadEnd \/ BrokenPipe \/ Die \/ Crash \/ Hang \/ LoseImage \/ ProcessBegins
  PROVE  Agreed'
<1>1. UNCHANGED toClient
  BY DEF RejectLaunch, ReadEnd, BrokenPipe, Die, Crash, Hang, LoseImage, ProcessBegins
<1>2. CASE RejectLaunch \/ BrokenPipe \/ Die \/ Crash
  <2>1. wk'.pc = "gone"
    BY <1>2, PcsOf, BecomesTyped DEF RejectLaunch, BrokenPipe, Die, Crash, Typed
  <2> QED
    BY <1>1, <2>1, Silent, AsideClean, PcSets
<1>3. CASE ReadEnd \/ ProcessBegins
  <2>1. \/ wk.pc = "idle" /\ Becomes("close")
        \/ wk.pc = "spawning" /\ Becomes("started")
    BY <1>3 DEF ReadEnd, ProcessBegins, At
  <2>2. \/ wk.pc = "idle" /\ wk'.pc = "close"
        \/ wk.pc = "spawning" /\ wk'.pc = "started"
    BY <2>1 DEF Becomes, Typed, WkTyped, WorkerType
  <2>3. Told' = Told /\ wk.pc \in Speaking
    BY <2>2, PcSets DEF Told
  <2> QED
    BY <1>1, <2>3, Silent, AsideClean
<1>4. CASE Hang
  <2>1. wk' = [wk EXCEPT !.hung = TRUE] /\ wk.pc \in Speaking
    BY <1>4 DEF Hang, Speaking
  <2>2. wk'.pc = wk.pc /\ wk'.warmed = wk.warmed /\ wk'.id = wk.id /\ wk'.phase = wk.phase
    BY <2>1 DEF Typed, WkTyped, WorkerType
  <2>3. Told' = Told
    BY <2>2 DEF Told
  <2> QED
    BY <1>1, <2>1, <2>3, Silent, AsideClean
<1>5. CASE LoseImage
  <2>1. missing' # {}
    BY <1>5 DEF LoseImage
  <2> QED
    BY <2>1 DEF Agreed, Clean
<1> QED
  BY <1>2, <1>3, <1>4, <1>5

-----------------------------------------------------------------------------
(* What a call, a wait and a line do to the client.                        *)

LEMMA StartSteps ==
  ASSUME ClientOK, Start
  PROVE  /\ cl.status = "notStarted" /\ cl'.shutting = cl.shutting /\ cl'.stopId = cl.stopId
         /\ \/ /\ cl'.status = "starting" /\ cl'.start = "pending" /\ cl'.cause = cl.cause
               /\ wk' = [wk EXCEPT !.pc = "spawning"] /\ UNCHANGED <<outcome, progress>>
            \/ ~Live' /\ cl'.cause = "start" /\ UNCHANGED wk
         /\ UNCHANGED <<toWorker, toClient, missing, kiosk>>
<1> DEFINE c == [cl EXCEPT !.status = "starting", !.start = "pending"]
<1>1. cl \in ClientType /\ cl.status = "notStarted"
  BY DEF ClientOK, Sane, Start
<1>2. /\ c \in ClientType /\ c.status = "starting" /\ c.start = "pending"
      /\ c.cause = cl.cause /\ c.shutting = cl.shutting /\ c.stopId = cl.stopId
  BY <1>1 DEF ClientType, Statuses
<1>3. \/ /\ cl' = [c EXCEPT !.owner = "pending"] /\ wk' = [wk EXCEPT !.pc = "spawning"]
         /\ UNCHANGED <<outcome, progress>>
      \/ cl' = Fatally(c, "start") /\ UNCHANGED wk
  BY DEF Start, MarkFatal
<1> HIDE DEF c
<1>4. CASE cl' = Fatally(c, "start") /\ UNCHANGED wk
  BY <1>1, <1>2, <1>4 DEF Start, Fatally, ClientType, Live
<1>5. CASE /\ cl' = [c EXCEPT !.owner = "pending"] /\ wk' = [wk EXCEPT !.pc = "spawning"]
           /\ UNCHANGED <<outcome, progress>>
  BY <1>1, <1>2, <1>5 DEF Start, ClientType
<1> QED
  BY <1>3, <1>4, <1>5

LEMMA ShutdownSteps ==
  ASSUME ClientOK, Shutdown
  PROVE  /\ ~cl.shutting /\ cl'.shutting /\ cl'.cause = cl.cause
         /\ cl'.status \in {cl.status, "stopped"}
         /\ cl'.start = IF cl.start = "pending" THEN "failed" ELSE cl.start
         /\ Live' => UNCHANGED <<outcome, progress>>
         /\ cl.seq + 1 \in Ids
         /\ UNCHANGED toWorker \/ (Write("shutdown", cl.seq + 1) /\ cl'.stopId = cl.seq + 1)
         /\ UNCHANGED <<wk, toClient, missing, kiosk>> /\ Up
<1> DEFINE b == BeginShutdown
           id == cl.seq + 1
           c == [b EXCEPT !.seq = id, !.stopId = id]
<1>1. /\ Sane(cl) /\ cl \in ClientType /\ ~cl.shutting /\ id \in Ids
      /\ UNCHANGED <<wk, toClient, missing, kiosk>> /\ Up
  BY BeginShutdownSane DEF ClientOK, Sane, Shutdown
<1>2. /\ b \in ClientType /\ b.shutting /\ b.cause = cl.cause /\ b.status = cl.status
      /\ b.start = IF cl.start = "pending" THEN "failed" ELSE cl.start
  BY <1>1 DEF BeginShutdown, ClientType
<1>3. \/ /\ cl' = [b EXCEPT !.sd = "owner"] /\ UNCHANGED <<outcome, progress, toWorker>>
      \/ cl' = [b EXCEPT !.sd = "returned", !.status = "stopped"] /\ UNCHANGED toWorker
      \/ /\ Write("shutdown", id) \/ UNCHANGED toWorker
         /\ \/ cl' = [c EXCEPT !.sd = "stop"] /\ UNCHANGED <<outcome, progress>>
            \/ cl' = [c EXCEPT !.sd = "returned", !.status = "stopped"]
  BY DEF Shutdown, Return
<1> HIDE DEF b, id
<1>4. /\ c.shutting /\ c.cause = cl.cause /\ c.status = cl.status /\ c.stopId = id
      /\ c.start = b.start /\ DOMAIN c = DOMAIN b
  BY <1>2 DEF ClientType
<1> HIDE DEF c
<1>5. CASE cl' = [b EXCEPT !.sd = "owner"] /\ UNCHANGED <<outcome, progress, toWorker>>
  BY <1>1, <1>2, <1>5 DEF ClientType, id
<1>6. CASE cl' = [b EXCEPT !.sd = "returned", !.status = "stopped"] /\ UNCHANGED toWorker
  BY <1>1, <1>2, <1>6 DEF ClientType, Live, id
<1>7. CASE /\ Write("shutdown", id) \/ UNCHANGED toWorker
           /\ \/ cl' = [c EXCEPT !.sd = "stop"] /\ UNCHANGED <<outcome, progress>>
              \/ cl' = [c EXCEPT !.sd = "returned", !.status = "stopped"]
  <2> DEFINE Same == /\ cl'.shutting /\ cl'.cause = cl.cause
                     /\ cl'.stopId = id /\ cl'.start = b.start
  <2>1. ASSUME cl' = [c EXCEPT !.sd = "stop"] PROVE Same /\ cl'.status = cl.status
    BY <1>2, <1>4, <2>1 DEF ClientType
  <2>2. ASSUME cl' = [c EXCEPT !.sd = "returned", !.status = "stopped"]
        PROVE  Same /\ cl'.status = "stopped"
    BY <1>2, <1>4, <2>2 DEF ClientType
  <2>3. /\ Same
        /\ \/ cl'.status = cl.status /\ UNCHANGED <<outcome, progress>>
           \/ cl'.status = "stopped"
    BY <1>7, <2>1, <2>2
  <2> QED
    BY <1>1, <1>2, <1>7, <2>3 DEF Live, id
<1> QED
  BY <1>3, <1>5, <1>6, <1>7

LEMMA AnalyzeSteps ==
  ASSUME Typed, Ordered, Analyze
  PROVE  /\ cl.status = "ready" /\ cl' = [cl EXCEPT !.seq = cl.seq + 1] /\ cl \in ClientType
         /\ cl.seq + 1 \in Ids /\ Write("analyze", cl.seq + 1)
         /\ outcome' = [outcome EXCEPT ![cl.seq + 1] = "pending"] /\ UNCHANGED progress
         /\ UNCHANGED <<wk, toClient, missing, kiosk>>
<1>1. /\ cl.seq + 1 \in Ids /\ cl' = [cl EXCEPT !.seq = cl.seq + 1] /\ cl \in ClientType
      /\ outcome' = [outcome EXCEPT ![cl.seq + 1] = "pending"] /\ Write("analyze", cl.seq + 1)
  BY AnalyzeOK DEF Typed, ClientOK, Sane
<1>2. outcome[cl.seq + 1] = "unused"
  BY <1>1, IdsNat DEF Ordered, Issued
<1>3. progress[cl.seq + 1] = Nothing /\ progress \in [Ids -> Phases \cup {Nothing}]
  BY <1>1, <1>2 DEF Typed, ClientOK, AnswersTyped
<1>4. UNCHANGED progress
  BY <1>1, <1>3 DEF Analyze
<1> QED
  BY <1>1, <1>4 DEF Analyze

LEMMA WaitingSteps ==
  ASSUME Typed, Waiting
  PROVE  /\ Kept(cl, cl') /\ (Live' => UNCHANGED <<outcome, progress>>)
         /\ UNCHANGED <<toWorker, toClient, missing, kiosk>>
         /\ UNCHANGED wk \/ Becomes("killed") \/ Becomes("absent")
         /\ Becomes("absent") => wk.pc = "spawning" \/ UNCHANGED wk
<1>1. ClientOK /\ ClientOK' /\ Gives /\ Kept(cl, cl')
  BY WaitingOK, WaitingKept DEF Typed
<1>2. UNCHANGED progress \/ FailPending
  BY DEF Waiting, SpawnFails, Own, CancelTimeout, OwnerTimeout, OnProcessExit, ShutdownTimeout,
         KillTimeout, Settle, Return, Throw, MarkFatal
<1>3. Live' => UNCHANGED outcome
  BY <1>1, GivesLeaves
<1>4. FailPending /\ UNCHANGED outcome => UNCHANGED progress
  <2> SUFFICES ASSUME FailPending, UNCHANGED outcome PROVE progress' = progress
    OBVIOUS
  <2>1. /\ progress' = [i \in Ids |-> Nothing] /\ progress \in [Ids -> Phases \cup {Nothing}]
        /\ outcome' = [i \in Ids |-> IF outcome[i] = "pending" THEN "failed" ELSE outcome[i]]
        /\ \A i \in Ids : progress[i] # Nothing => outcome[i] = "pending"
    BY <1>1 DEF FailPending, ClientOK, AnswersTyped
  <2>2. \A i \in Ids : progress[i] = Nothing
    BY <2>1
  <2> QED
    BY <2>1, <2>2
<1>5. UNCHANGED <<toWorker, toClient, missing, kiosk>>
  BY DEF Waiting, SpawnFails, Own, CancelTimeout, OwnerTimeout, OnProcessExit, ShutdownTimeout,
         KillTimeout, workerVars
<1>6. UNCHANGED wk \/ (Becomes("killed") /\ wk.pc \in Running)
        \/ (Becomes("absent") /\ wk.pc = "spawning")
  BY DEF Waiting, SpawnFails, Own, CancelTimeout, OwnerTimeout, OnProcessExit, ShutdownTimeout,
         KillTimeout, Kill, KillRefused, workerVars
<1>7. wk \in WorkerType
  BY DEF Typed, WkTyped
<1>8. Becomes("killed") /\ Becomes("absent") => FALSE
  BY <1>7 DEF Becomes, WorkerType
<1> QED
  BY <1>1, <1>2, <1>3, <1>4, <1>5, <1>6, <1>8

\* What the client asks of a line, so as not to find fault with it.
Welcome(e) ==
  \/ e.type = "loading" /\ cl.status = "starting"
  \/ e.type = "warming" /\ cl.status = "loading"
  \/ e.type = "ready" /\ cl.status = "warming" /\ cl.start = "pending"
  \/ /\ e.type = "progress" /\ cl.status = "ready" /\ outcome[e.id] = "pending"
     /\ <<progress[e.id], e.phase>> \in LEGAL_NEXT_PHASES
  \/ e.type = "result" /\ outcome[e.id] = "pending" /\ progress[e.id] = "aggregating"
  \/ e.type = "analysis_failed" /\ outcome[e.id] = "pending"
  \/ e.type \in {"admission_failed", "initialization_failed"}
  \/ e.type = "stopped" /\ cl.shutting /\ e.id = cl.stopId

\* What an accepted line does.
Heeded(e) ==
  \/ /\ e.type \in {"loading", "warming"} /\ cl.status \in {"starting", "loading"}
     /\ cl'.status = e.type /\ cl'.start = cl.start
     /\ UNCHANGED <<outcome, progress>>
  \/ /\ e.type = "ready" /\ cl'.status = "ready" /\ cl.start = "pending" /\ cl'.start = "ready"
     /\ UNCHANGED <<outcome, progress>>
  \/ /\ e.type = "progress" /\ cl.status = "ready" /\ UNCHANGED <<cl, outcome>>
     /\ progress' = [progress EXCEPT ![e.id] = e.phase]
  \/ /\ e.type \in Answers /\ UNCHANGED cl /\ outcome' = [outcome EXCEPT ![e.id] = e.type]
     /\ progress' = [progress EXCEPT ![e.id] = Nothing]

LEMMA HandleSteps ==
  ASSUME cl \in ClientType, Live, NEW e \in Events, Handle(e)
  PROVE  /\ cl'.shutting = cl.shutting /\ cl'.stopId = cl.stopId
         /\ cl.start = "failed" => cl'.start = "failed"
         /\ Live' => Heeded(e) /\ cl'.cause = cl.cause
         /\ Welcome(e) => cl'.cause # "protocol" \/ cl'.cause = cl.cause
<1> DEFINE Goal == /\ cl.start = "failed" => cl'.start = "failed"
                   /\ Live' => Heeded(e) /\ cl'.cause = cl.cause
                   /\ Welcome(e) => cl'.cause # "protocol" \/ cl'.cause = cl.cause
<1>1. cl'.shutting = cl.shutting /\ cl'.stopId = cl.stopId
  BY HandleKeeps
<1>2. ASSUME NEW cause, cl' = Fatally(cl, cause)
      PROVE  ~Live' /\ cl'.cause = cause /\ (cl.start = "failed" => cl'.start = "failed")
  BY <1>2 DEF Fatally, ClientType, Live
<1>3. CASE ProtocolError /\ ~Welcome(e)
  <2>1. cl' = Fatally(cl, "protocol")
    BY <1>3 DEF ProtocolError, MarkFatal
  <2> QED
    BY <1>1, <1>2, <1>3, <2>1
<1>4. CASE e.type \in {"loading", "warming"} /\ HandleStartup(e) /\ Welcome(e)
  <2>1. cl' = [cl EXCEPT !.status = e.type] /\ UNCHANGED <<outcome, progress>>
    BY <1>4 DEF HandleStartup, Welcome
  <2>2. cl'.status = e.type /\ cl'.start = cl.start /\ cl'.cause = cl.cause
    BY <2>1 DEF ClientType
  <2>3. cl.status \in {"starting", "loading"}
    BY <1>4 DEF Welcome
  <2> QED
    BY <1>1, <1>4, <2>1, <2>2, <2>3 DEF Heeded
<1>5. CASE e.type = "ready" /\ HandleReady(e) /\ Welcome(e)
  <2>1. /\ cl' = [cl EXCEPT !.status = "ready", !.start = "ready",
                            !.ready = [device |-> e.device, mode |-> e.mode]]
        /\ UNCHANGED <<outcome, progress>> /\ cl.start = "pending"
    BY <1>5, ReadySteps DEF Welcome
  <2>2. cl'.status = "ready" /\ cl'.start = "ready" /\ cl'.cause = cl.cause
    BY <2>1 DEF ClientType
  <2> QED
    BY <1>1, <1>5, <2>1, <2>2 DEF Heeded
<1>6. CASE e.type = "progress" /\ HandleProgress(e) /\ Welcome(e)
  BY <1>1, <1>6 DEF HandleProgress, Welcome, Heeded
<1>7. CASE e.type = "result" /\ HandleResult(e) /\ Welcome(e)
  BY <1>1, <1>7 DEF HandleResult, Welcome, Heeded, Complete, Answers
<1>8. CASE e.type = "analysis_failed" /\ HandleWorkerError(e) /\ Welcome(e)
  BY <1>1, <1>8 DEF HandleWorkerError, Welcome, Heeded, Complete, Answers
<1>9. CASE e.type \in {"admission_failed", "initialization_failed"} /\ MarkFatal(cl, e.type)
  <2>1. cl' = Fatally(cl, e.type)
    BY <1>9 DEF MarkFatal
  <2>2. ~Live' /\ cl'.cause = e.type /\ (cl.start = "failed" => cl'.start = "failed")
    BY <1>2, <2>1
  <2> QED
    BY <1>1, <1>9, <2>2
<1>10. CASE e.type = "stopped" /\ HandleStopped(e) /\ Welcome(e)
  <2>1. \E sd : cl' = [cl EXCEPT !.status = "stopped", !.sd = sd]
    BY <1>10 DEF HandleStopped, Welcome
  <2>2. cl'.status = "stopped" /\ cl'.start = cl.start /\ cl'.cause = cl.cause
    BY <2>1 DEF ClientType
  <2> QED
    BY <1>1, <2>2 DEF Live
<1>11. CASE MarkFatal(WithMetrics(e), "protocol") /\ ~Welcome(e)
  <2>1. cl' = Fatally(WithMetrics(e), "protocol")
    BY <1>11 DEF MarkFatal
  <2>2. ~Live' /\ (cl.start = "failed" => cl'.start = "failed")
    BY <2>1 DEF Fatally, WithMetrics, ClientType, Live
  <2> QED
    BY <1>1, <1>11, <2>2
<1>12. \/ ProtocolError /\ ~Welcome(e)
       \/ MarkFatal(WithMetrics(e), "protocol") /\ ~Welcome(e)
       \/ e.type \in {"loading", "warming"} /\ HandleStartup(e) /\ Welcome(e)
       \/ e.type = "ready" /\ HandleReady(e) /\ Welcome(e)
       \/ e.type = "progress" /\ HandleProgress(e) /\ Welcome(e)
       \/ e.type = "result" /\ HandleResult(e) /\ Welcome(e)
       \/ e.type = "analysis_failed" /\ HandleWorkerError(e) /\ Welcome(e)
       \/ e.type \in {"admission_failed", "initialization_failed"} /\ MarkFatal(cl, e.type)
       \/ e.type = "stopped" /\ HandleStopped(e) /\ Welcome(e)
  <2>1. e.type \in {"loading", "warming"} /\ HandleStartup(e) =>
          (ProtocolError /\ ~Welcome(e)) \/ Welcome(e)
    BY DEF HandleStartup, Welcome
  <2>2. e.type = "ready" /\ HandleReady(e) =>
          \/ (ProtocolError \/ MarkFatal(WithMetrics(e), "protocol")) /\ ~Welcome(e)
          \/ Welcome(e)
    BY DEF HandleReady, Welcome
  <2>3. e.type = "progress" /\ HandleProgress(e) => (ProtocolError /\ ~Welcome(e)) \/ Welcome(e)
    BY DEF HandleProgress, Welcome
  <2>4. e.type = "result" /\ HandleResult(e) => (ProtocolError /\ ~Welcome(e)) \/ Welcome(e)
    BY DEF HandleResult, Welcome
  <2>5. e.type \in {"analysis_failed", "invalid_request"} /\ HandleWorkerError(e) =>
          (ProtocolError /\ ~Welcome(e)) \/ (e.type = "analysis_failed" /\ Welcome(e))
    BY DEF HandleWorkerError, Welcome
  <2>6. e.type = "stopped" /\ HandleStopped(e) => (ProtocolError /\ ~Welcome(e)) \/ Welcome(e)
    BY DEF HandleStopped, Welcome
  <2> QED
    BY <2>1, <2>2, <2>3, <2>4, <2>5, <2>6 DEF Handle
<1> QED
  BY <1>1, <1>3, <1>4, <1>5, <1>6, <1>7, <1>8, <1>9, <1>10, <1>11, <1>12

\* Reading: what the client reads, and that only a live one heeds it.
LEMMA LineSteps ==
  ASSUME Typed, OnStdoutLine
  PROVE  /\ toClient \in Seq(Events) /\ toClient # <<>> /\ toClient' = Tail(toClient)
         /\ Head(toClient) \in Events /\ cl \in ClientType
         /\ (Live /\ Handle(Head(toClient))) \/ (~Live /\ UNCHANGED clientVars)
         /\ UNCHANGED <<wk, toWorker, served, missing, kiosk>> /\ Up
BY TailLines DEF Typed, PipesTyped, ClientOK, Sane, OnStdoutLine, Live

LEMMA LineAgreed ==
  ASSUME Typed, Agreed, OnStdoutLine
  PROVE  Agreed'
<1> SUFFICES ASSUME Clean' PROVE \E v \in Views : Agrees(v)'
  BY DEF Agreed
<1>0. PICK e \in Events : e = Head(toClient)
  BY LineSteps
<1>1. /\ toClient \in Seq(Events) /\ toClient # <<>> /\ toClient' = Tail(toClient) /\ e \in Events
      /\ cl \in ClientType /\ UNCHANGED <<wk, missing>>
      /\ progress \in [Ids -> Phases \cup {Nothing}]
  BY LineSteps DEF Typed, ClientOK, AnswersTyped
<1>2. Live /\ Handle(e) /\ Live'
  BY <1>0, LineSteps DEF clientVars, Clean, Live
<1>3. /\ cl'.shutting = cl.shutting /\ (cl.start = "failed" => cl'.start = "failed")
      /\ Heeded(e)
  BY <1>1, <1>2, HandleSteps
<1>4. Clean
  BY <1>1, <1>2, <1>3 DEF Clean
<1>5. PICK v \in Views : Agrees(v)
  BY <1>4 DEF Agreed
<1>6. /\ Follows(v, e) /\ ChainOf(toClient', After(e))
      /\ EndOf(toClient', After(e)) = EndOf(toClient, v)
  BY <1>0, <1>1, <1>5, ChainTail DEF Agrees
<1>7. Matches(After(e))'
  <2>1. cl.status = v.stage /\ progress = [i \in Ids |-> IF i = v.id THEN v.phase ELSE Nothing]
    BY <1>5 DEF Agrees, Matches
  <2>2. \A s : Plain(s).stage = s /\ Plain(s).id = Nothing
    BY ViewFields
  <2>3. \A i \in Ids : i # Nothing
    BY Constants
  <2>4. CASE e.type \in {"loading", "warming", "ready"}
    <3>1. cl'.status = e.type /\ UNCHANGED progress
      BY <1>3, <2>4 DEF Heeded, Answers
    <3>2. v.id = Nothing /\ After(e) = Plain(e.type)
      BY <1>6, <2>2, <2>4 DEF Follows, After, Answers
    <3>3. progress = [i \in Ids |-> Nothing]
      BY <2>1, <2>3, <3>2
    <3>4. [i \in Ids |-> IF i = After(e).id THEN After(e).phase ELSE Nothing] = [i \in Ids |-> Nothing]
      BY <2>2, <2>3, <3>2
    <3> QED
      BY <2>2, <3>1, <3>2, <3>3, <3>4 DEF Matches
  <2>5. CASE e.type = "progress"
    <3>1. /\ cl'.status = "ready" /\ progress' = [progress EXCEPT ![e.id] = e.phase]
          /\ v.id \in {e.id, Nothing} /\ e.id \in Ids
      BY <1>1, <1>3, <1>6, <2>1, <2>5, EventFields DEF Heeded, Follows, Answers
    <3>2. After(e) = View("ready", e.id, e.phase)
      BY <2>5 DEF After
    <3>3. progress' = [i \in Ids |-> IF i = e.id THEN e.phase ELSE Nothing]
      BY <1>1, <2>1, <2>3, <3>1
    <3>4. After(e).stage = "ready" /\ After(e).id = e.id /\ After(e).phase = e.phase
      BY <3>2 DEF View
    <3>5. progress' = [i \in Ids |-> IF i = After(e).id THEN After(e).phase ELSE Nothing]
      BY <3>3, <3>4
    <3> QED
      BY <3>1, <3>4, <3>5 DEF Matches
  <2>6. CASE e.type \in Answers
    <3>1. UNCHANGED cl /\ progress' = [progress EXCEPT ![e.id] = Nothing]
      BY <1>3, <2>6 DEF Heeded, Answers
    <3>2. v.stage = "ready" /\ v.id \in {e.id, Nothing} /\ After(e) = Plain("ready")
      BY <1>6, <2>6, ViewFields DEF Follows, After, Answers
    <3>3. progress' = [i \in Ids |-> Nothing]
      BY <1>1, <2>1, <2>3, <3>1, <3>2
    <3>4. [i \in Ids |-> IF i = After(e).id THEN After(e).phase ELSE Nothing] = [i \in Ids |-> Nothing]
      BY <2>2, <2>3, <3>2
    <3> QED
      BY <2>1, <2>2, <3>1, <3>2, <3>3, <3>4 DEF Matches
  <2> QED
    BY <1>3, <2>4, <2>5, <2>6 DEF Heeded
<1>8. After(e) \in Views /\ (wk'.pc \in Speaking => EndOf(toClient', After(e)) = Told')
  BY <1>1, <1>5, <1>6, AfterTyped DEF Agrees, Told
<1> QED
  BY <1>6, <1>7, <1>8 DEF Agrees

LEMMA StartAgreed ==
  ASSUME Typed, Agreed, Begins, Start
  PROVE  Agreed'
<1> SUFFICES ASSUME Clean' PROVE \E v \in Views : Agrees(v)'
  BY DEF Agreed
<1>1. /\ cl.status = "notStarted" /\ cl'.status = "starting" /\ cl'.start = "pending"
      /\ cl'.shutting = cl.shutting /\ wk' = [wk EXCEPT !.pc = "spawning"]
      /\ UNCHANGED <<progress, toClient, missing>>
      /\ toClient \in Seq(Events) /\ wk \in WorkerType
  BY StartSteps DEF Typed, PipesTyped, WkTyped, Clean
<1>2. Clean
  BY <1>1 DEF Clean, Live, Begins
<1>3. PICK v \in Views : Agrees(v)
  BY <1>2 DEF Agreed
<1>4. /\ v.stage = "notStarted" /\ v.id = Nothing /\ ChainOf(toClient, v)
      /\ progress = [i \in Ids |-> IF i = Nothing THEN v.phase ELSE Nothing]
  BY <1>1, <1>3 DEF Agrees, Matches, Views
<1>5. toClient' = <<>>
  <2>1. ASSUME toClient # <<>> PROVE FALSE
    <3>1. Follows(v, Head(toClient))
      BY <1>1, <1>4, <2>1, ChainTail
    <3> QED
      BY <1>4, <3>1, ViewFields DEF Follows
  <2> QED
    BY <1>1, <2>1
<1> DEFINE w == Plain("starting")
<1>6. w.stage = "starting" /\ w.id = Nothing /\ w.phase = Nothing /\ w \in Views
  BY DEF Plain, View, Views, Statuses
<1>7. Told' = w
  <2>1. wk'.pc = "spawning"
    BY <1>1 DEF WorkerType
  <2> QED
    BY <2>1 DEF Told
<1> HIDE DEF w
<1>8. Matches(w)'
  <2>1. progress = [i \in Ids |-> IF i = w.id THEN w.phase ELSE Nothing]
    BY <1>4, <1>6, Constants
  <2> QED
    BY <1>1, <1>6, <2>1 DEF Matches
<1>9. ChainOf(toClient', w) /\ EndOf(toClient', w) = w
  BY <1>5 DEF ChainOf, EndOf, LineOf
<1> QED
  BY <1>6, <1>7, <1>8, <1>9 DEF Agrees

LEMMA NextAgreed ==
  ASSUME Typed, Ordered, Agreed, Warmth, Begins, [Next]_vars
  PROVE  Agreed'
<1>1. CASE Analyze
  <2>1. /\ cl' = [cl EXCEPT !.seq = cl.seq + 1] /\ cl \in ClientType
        /\ UNCHANGED <<progress, wk, toClient, missing>>
    BY <1>1, AnalyzeSteps
  <2>2. cl'.status = cl.status /\ cl'.start = cl.start /\ cl'.shutting = cl.shutting
    BY <2>1 DEF ClientType
  <2> QED
    BY <2>1, <2>2, Silent DEF Clean, Live, Told
<1>2. CASE Shutdown
  <2>1. /\ ~cl.shutting /\ cl'.status \in {cl.status, "stopped"}
        /\ Live' => UNCHANGED progress
        /\ UNCHANGED <<wk, toClient, missing>>
    BY <1>2, ShutdownSteps DEF Typed
  <2>2. Clean' => Clean /\ UNCHANGED progress /\ cl'.status = cl.status
    BY <2>1 DEF Clean, Live
  <2> QED
    BY <2>1, <2>2, Silent DEF Told
<1>3. CASE Waiting
  <2>1. /\ Kept(cl, cl') /\ (Live' => UNCHANGED progress) /\ UNCHANGED <<toClient, missing>>
        /\ UNCHANGED wk \/ Becomes("killed") \/ Becomes("absent")
    BY <1>3, WaitingSteps
  <2>2. Clean' => Clean /\ UNCHANGED progress /\ cl'.status = cl.status
    BY <2>1 DEF Clean, Live, Kept
  <2>3. wk'.pc \in Speaking => UNCHANGED wk
    BY <2>1, PcSets, PcsOf, BecomesTyped DEF Typed
  <2> QED
    BY <2>1, <2>2, <2>3, Silent DEF Told
<1>4. CASE KioskDies \/ UNCHANGED vars
  BY <1>4, Silent DEF KioskDies, vars, workerVars, clientVars, Clean, Live, Told
<1>5. CASE ProcessBegins
  <2>1. Aside
    BY <1>5 DEF ProcessBegins, Aside
  <2> QED
    BY <1>5, <2>1, QuietAgreed
<1>6. CASE (WorkerStep \/ Die \/ WorkerFault) /\ UNCHANGED clientVars
  <2>1. Aside
    <3>1. missing \subseteq missing'
      BY <1>6 DEF WorkerStep, RejectLaunch, BeginServe, SelectCandidate, SelectLegacy, Load, Warm,
         Announce, ReadAnalyze, ReadShutdown, ReadEnd, Progress, Result, AnalysisFails, Answer,
         CloseRuntime, BrokenPipe, Die, WorkerFault, Crash, Hang, LoseImage
    <3> QED
      BY <1>6, <3>1 DEF Aside
  <2> QED
    BY <1>6, <2>1, BeginAgreed, SelectAgreed, LoadAgreed, AnnounceAgreed, ReadAgreed,
       ProgressAgreed, AnswerAgreed, CloseAgreed, QuietAgreed DEF WorkerStep, WorkerFault
<1> QED
  BY <1>1, <1>2, <1>3, <1>4, <1>5, <1>6, StartAgreed, LineAgreed
     DEF Next, Commands, Continuations, Environment, Waiting

-----------------------------------------------------------------------------
(* The rest of the protocol.                                               *)

LEMMA NextWarmth ==
  ASSUME Typed, Ordered, Warmth, [Next]_vars
  PROVE  Warmth'
<1>0. wk \in WorkerType
  BY DEF Typed, WkTyped
<1> DEFINE Cold == wk'.warmed = wk.warmed /\ wk.pc \in {"absent", "spawning", "started", "select"}
           Away == wk'.pc \notin {"absent", "spawning", "started", "select"}
<1>1. Cold \/ Away => Warmth'
  BY <1>0 DEF Warmth
<1>2. UNCHANGED wk => Warmth'
  BY DEF Warmth
<1>3. CASE Start
  <2>1. UNCHANGED wk \/ (wk' = [wk EXCEPT !.pc = "spawning"] /\ wk.pc = "absent")
    BY <1>3 DEF Start, Ordered, Begun
  <2> QED
    BY <1>0, <1>1, <1>2, <2>1 DEF WorkerType
<1>4. CASE Waiting
  <2>1. UNCHANGED wk \/ Becomes("killed") \/ (Becomes("absent") /\ wk.pc = "spawning")
    BY <1>4, WaitingSteps
  <2> QED
    BY <1>0, <1>1, <1>2, <2>1 DEF Becomes, WorkerType
<1>5. CASE ProcessBegins \/ RejectLaunch \/ BeginServe \/ ReadEnd \/ CloseRuntime \/ BrokenPipe
             \/ Crash \/ Hang \/ Die \/ LoseImage
  <2>1. \/ wk.pc \in {"spawning", "started"} /\ \E pc \in {"started", "select"} : Becomes(pc)
        \/ Becomes("gone") \/ Becomes("close") \/ UNCHANGED wk \/ wk' = [wk EXCEPT !.hung = TRUE]
    BY <1>5 DEF ProcessBegins, RejectLaunch, BeginServe, ReadEnd, CloseRuntime, BrokenPipe, Crash,
       Hang, Die, LoseImage, At
  <2>2. CASE wk' = [wk EXCEPT !.hung = TRUE]
    BY <1>0, <2>2 DEF Warmth, WorkerType
  <2>3. CASE Becomes("gone") \/ Becomes("close")
    BY <1>0, <1>1, <2>3 DEF Becomes, WorkerType
  <2>4. CASE wk.pc \in {"spawning", "started"} /\ \E pc \in {"started", "select"} : Becomes(pc)
    BY <1>0, <1>1, <2>4 DEF Becomes, WorkerType
  <2> QED
    BY <1>2, <2>1, <2>2, <2>3, <2>4
<1>6. CASE SelectCandidate \/ SelectLegacy \/ Load \/ Warm \/ Announce \/ ReadAnalyze \/ ReadShutdown
             \/ Progress \/ Result \/ AnalysisFails
  <2>1. CASE SelectCandidate \/ SelectLegacy
    BY <1>0, <1>1, <2>1 DEF SelectCandidate, SelectLegacy, Fatal, Becomes, WorkerType
  <2>2. CASE Load \/ Warm
    BY <1>0, <1>1, <2>2 DEF Load, Warm, FallBack, Fatal, Becomes, WorkerType
  <2>3. CASE Announce \/ ReadAnalyze \/ ReadShutdown
    BY <1>0, <1>1, <1>2, <2>3 DEF Announce, ReadAnalyze, ReadShutdown, Becomes, WorkerType
  <2>4. CASE Progress \/ Result \/ AnalysisFails
    BY <1>0, <1>1, <2>4 DEF Progress, Result, AnalysisFails, Answer, At, WorkerType
  <2> QED
    BY <1>6, <2>1, <2>2, <2>3, <2>4
<1>7. CASE Analyze \/ Shutdown \/ OnStdoutLine \/ KioskDies \/ UNCHANGED vars
  BY <1>2, <1>7 DEF Analyze, Shutdown, OnStdoutLine, KioskDies, vars, workerVars
<1> QED
  BY <1>3, <1>4, <1>5, <1>6, <1>7
     DEF Next, Commands, Continuations, Environment, WorkerStep, WorkerFault, Waiting

LEMMA NextBegins ==
  ASSUME Typed, Begins, Faultless, [Next]_vars
  PROVE  Begins' /\ Faultless'
<1>1. CASE Start
  BY <1>1, StartSteps DEF Typed, Begins, Faultless, Live
<1>2. CASE Analyze
  <2>1. cl' = [cl EXCEPT !.seq = cl.seq + 1] /\ cl \in ClientType
    BY <1>2 DEF Analyze, Typed, ClientOK, Sane
  <2>2. /\ cl'.status = cl.status /\ cl'.start = cl.start /\ cl'.shutting = cl.shutting
        /\ cl'.cause = cl.cause
    BY <2>1 DEF ClientType
  <2> QED
    BY <2>2 DEF Begins, Faultless, Live
<1>3. CASE Shutdown
  BY <1>3, ShutdownSteps DEF Typed, Begins, Faultless, Live
<1>4. CASE Waiting
  <2>1. Kept(cl, cl')
    BY <1>4, WaitingSteps
  <2> QED
    BY <2>1 DEF Begins, Faultless, Live, Kept
<1>5. CASE OnStdoutLine
  <2>1. CASE ~Live /\ UNCHANGED clientVars
    BY <2>1 DEF clientVars, Begins, Faultless, Live
  <2>2. CASE Live /\ Handle(Head(toClient))
    <3>1. PICK e \in Events : e = Head(toClient) /\ Handle(e) /\ cl \in ClientType
      BY <1>5, <2>2, LineSteps
    <3>2. /\ cl'.shutting = cl.shutting
          /\ Live' => Heeded(e) /\ cl'.cause = cl.cause
      BY <2>2, <3>1, HandleSteps
    <3> QED
      BY <2>2, <3>2 DEF Heeded, Answers, Begins, Faultless, Live
  <2> QED
    BY <1>5, <2>1, <2>2, LineSteps
<1>6. CASE UNCHANGED clientVars
  BY <1>6 DEF clientVars, Begins, Faultless, Live
<1> QED
  BY <1>1, <1>2, <1>3, <1>4, <1>5, <1>6
     DEF Next, Commands, Continuations, Environment, Waiting, ProcessBegins, KioskDies, vars

-----------------------------------------------------------------------------
(* The lines that come and go.                                             *)

\* The lines go on, and the new ones are of E.
Grows(E) ==
  /\ \A k \in Lines : k \in Lines' /\ toClient'[k] = toClient[k]
  /\ \A k \in Lines' : k \in Lines \/ toClient'[k] \in E

\* The lines that name no request.
Bare ==
  {e \in Events : e.type \in {"loading", "warming", "ready", "admission_failed",
                              "initialization_failed", "invalid_request"}}

LEMMA GrowsStill ==
  ASSUME NEW E, UNCHANGED toClient
  PROVE  Grows(E)
BY DEF Grows, Lines

LEMMA GrowsEmit ==
  ASSUME PipesTyped, NEW e \in Events, Emit(e)
  PROVE  /\ Grows({e}) /\ Len(toClient) + 1 \in Lines' /\ toClient'[Len(toClient) + 1] = e
         /\ \A k \in Lines : k < Len(toClient) + 1
<1>1. /\ Len(toClient) \in Nat /\ Len(toClient') = Len(toClient) + 1
      /\ toClient'[Len(toClient) + 1] = e /\ \A k \in Lines : toClient'[k] = toClient[k]
  BY AppendLines DEF PipesTyped, Emit, Lines
<1>2. \A k \in Lines' : k \in Lines \/ k = Len(toClient) + 1
  BY <1>1 DEF Lines
<1> QED
  BY <1>1, <1>2 DEF Grows, Lines

LEMMA GrowsTail ==
  ASSUME PipesTyped, toClient # <<>>, toClient' = Tail(toClient)
  PROVE  /\ \A k \in Lines' : k + 1 \in Lines /\ toClient'[k] = toClient[k + 1] /\ k \in Nat
         /\ \A k \in Lines : k # 1 => k - 1 \in Lines' /\ toClient'[k - 1] = toClient[k]
         /\ \A k \in Lines : k \in Nat /\ k >= 1
         /\ 1 \in Lines /\ toClient[1] = Head(toClient)
<1>1. /\ Len(toClient) \in Nat \ {0} /\ Len(toClient') = Len(toClient) - 1
      /\ \A k \in Lines' : k + 1 \in Lines /\ toClient'[k] = toClient[k + 1]
      /\ 1 \in Lines /\ toClient[1] = Head(toClient)
  BY TailLines DEF PipesTyped, Lines
<1>2. \A k \in Lines : k # 1 => k - 1 \in Lines' /\ (k - 1) + 1 = k
  BY <1>1 DEF Lines
<1> QED
  BY <1>1, <1>2 DEF Lines

LEMMA AnnounceGrows ==
  ASSUME Typed, Announce
  PROVE  Grows(Bare)
<1> DEFINE warming == [type |-> "warming"]
           q == Append(toClient, warming)
<1>1. /\ wk.device \in Devices /\ wk.mode \in Modes /\ wk.warmed \in BOOLEAN
      /\ toClient \in Seq(Events) /\ warming \in Events /\ warming \in Bare
  BY EventsOf DEF Typed, WkTyped, WorkerType, PipesTyped, Bare
<1>2. PICK e \in Events :
        /\ e.type \in {"ready", "initialization_failed"}
        /\ toClient' = toClient \o (IF wk.warmed THEN <<>> ELSE <<warming>>) \o <<e>>
  BY <1>1, EventsOf DEF Announce
<1>3. e \in Bare
  BY <1>2 DEF Bare
<1>4. toClient' = IF wk.warmed THEN Append(toClient, e) ELSE Append(q, e)
  BY <1>1, <1>2, Announced DEF Typed
<1>5. CASE wk.warmed
  <2>1. Grows({e})
    BY <1>4, <1>5, GrowsEmit DEF Typed, Emit
  <2> QED
    BY <1>3, <2>1 DEF Grows
<1>6. CASE ~wk.warmed
  <2> HIDE DEF warming
  <2>1. /\ q \in Seq(Events) /\ Len(q) = Len(toClient) + 1 /\ Len(toClient) \in Nat
        /\ \A k \in Lines : q[k] = toClient[k]
        /\ q[Len(toClient) + 1] = warming
    BY <1>1, AppendLines DEF Lines
  <2> HIDE DEF q
  <2>2. /\ Len(toClient') = Len(q) + 1 /\ toClient'[Len(q) + 1] = e
        /\ \A k \in 1..Len(q) : toClient'[k] = q[k]
    BY <1>4, <1>6, <2>1, AppendLines
  <2>3. \A k \in Lines' : k \in Lines \/ k = Len(toClient) + 1 \/ k = Len(q) + 1
    BY <2>1, <2>2 DEF Lines
  <2>4. \A k \in Lines : k \in 1..Len(q) /\ k \in Lines'
    BY <2>1, <2>2 DEF Lines
  <2>5. toClient'[Len(toClient) + 1] = warming
    BY <2>1, <2>2
  <2> QED
    BY <1>1, <1>3, <2>1, <2>2, <2>3, <2>4, <2>5 DEF Grows
<1> QED
  BY <1>1, <1>5, <1>6

\* What a step of the worker that moves no identifier says.
LEMMA MovesSay ==
  ASSUME Typed, Moves
  PROVE  /\ UNCHANGED <<toWorker, kiosk>>
         /\ wk'.pc = "close" => ~Up \/ (wk.pc = "close" /\ wk'.stop = wk.stop)
         /\ \/ Grows(Bare)
            \/ \E e \in Events : e.type = "progress" /\ e.id = wk.id /\ wk.id \in Ids /\ Emit(e)
            \/ \E e \in Events : /\ e.type = "stopped" /\ e.id = wk.stop /\ Emit(e)
                                 /\ wk.pc = "close" /\ wk'.pc = "gone"
<1>0. wk \in WorkerType /\ PipesTyped
  BY DEF Typed, WkTyped
<1>1. ASSUME NEW type \in {"loading", "warming", "admission_failed", "initialization_failed"},
             Emit([type |-> type])
      PROVE  Grows(Bare)
  <2>1. [type |-> type] \in Events /\ [type |-> type] \in Bare
    BY EventsOf DEF Bare
  <2>2. Grows({[type |-> type]})
    BY <1>0, <1>1, <2>1, GrowsEmit
  <2> QED
    BY <2>1, <2>2 DEF Grows
<1>2. UNCHANGED <<toWorker, kiosk>>
  BY DEF Moves, RejectLaunch, BeginServe, SelectCandidate, SelectLegacy, Load, Warm, Announce,
     ReadEnd, Progress, CloseRuntime, BrokenPipe, Die, WorkerFault, Crash, Hang, LoseImage
<1>3. CASE RejectLaunch \/ BeginServe \/ BrokenPipe \/ Die \/ WorkerFault
  <2>1. UNCHANGED toClient \/ Emit([type |-> "loading"])
    BY <1>3 DEF RejectLaunch, BeginServe, BrokenPipe, Die, WorkerFault, Crash, Hang, LoseImage
  <2>2. \/ Becomes("gone") \/ Becomes("select") \/ UNCHANGED wk \/ wk' = [wk EXCEPT !.hung = TRUE]
    BY <1>3 DEF RejectLaunch, BeginServe, BrokenPipe, Die, WorkerFault, Crash, Hang, LoseImage
  <2>3. wk'.pc = "close" => wk.pc = "close" /\ wk'.stop = wk.stop
    BY <1>0, <2>2 DEF Becomes, WorkerType
  <2> QED
    BY <1>1, <1>2, <2>1, <2>3, GrowsStill
<1>4. CASE SelectCandidate \/ SelectLegacy \/ Load \/ Warm
  <2>1. UNCHANGED toClient \/ \E type \in {"warming", "admission_failed", "initialization_failed"} :
                                Emit([type |-> type])
    BY <1>4 DEF SelectCandidate, SelectLegacy, Load, Warm, EmitWarming, FallBack, Fatal
  <2>2. CASE SelectCandidate \/ SelectLegacy
    <3>1. wk'.pc # "close"
      BY <1>0, <2>2 DEF SelectCandidate, SelectLegacy, Fatal, Becomes, WorkerType
    <3> QED
      BY <1>1, <1>2, <2>1, <3>1, GrowsStill
  <2>3. CASE Load \/ Warm
    <3>1. wk'.pc # "close"
      BY <1>0, <2>3 DEF Load, Warm, FallBack, Fatal, Becomes, WorkerType
    <3> QED
      BY <1>1, <1>2, <2>1, <3>1, GrowsStill
  <2> QED
    BY <1>4, <2>2, <2>3
<1>5. CASE Announce
  <2>1. wk'.pc # "close"
    BY <1>0, <1>5 DEF Announce, Becomes, WorkerType
  <2> QED
    BY <1>2, <1>5, <2>1, AnnounceGrows
<1>6. CASE ReadEnd
  <2>1. ~Up /\ UNCHANGED toClient
    BY <1>6 DEF ReadEnd, Up
  <2> QED
    BY <1>2, <2>1, GrowsStill
<1>7. CASE Progress
  <2>1. PICK phase \in Phases : /\ wk' = [wk EXCEPT !.phase = phase]
                               /\ Emit([type |-> "progress", id |-> wk.id, phase |-> phase])
    BY <1>7 DEF Progress
  <2>2. wk.id \in Ids /\ wk'.pc = "analyze"
    BY <1>0, <1>7, <2>1 DEF Progress, At, Typed, WkTyped, WorkerType
  <2>3. [type |-> "progress", id |-> wk.id, phase |-> phase] \in Events
    BY <2>2, EventsOf
  <2>4. \E e \in Events : e.type = "progress" /\ e.id = wk.id /\ Emit(e)
    BY <2>1, <2>3
  <2> QED
    BY <1>2, <2>2, <2>4
<1>8. CASE CloseRuntime
  <2>1. wk.pc = "close" /\ wk'.pc = "gone" /\ Emit([type |-> "stopped", id |-> wk.stop])
    BY <1>0, <1>8 DEF CloseRuntime, At, Becomes, WorkerType
  <2>2. [type |-> "stopped", id |-> wk.stop] \in Events
    BY <1>0, EventsOf DEF WorkerType
  <2>3. \E e \in Events : e.type = "stopped" /\ e.id = wk.stop /\ Emit(e)
    BY <2>1, <2>2
  <2> QED
    BY <1>2, <2>1, <2>3
<1> QED
  BY <1>3, <1>4, <1>5, <1>6, <1>7, <1>8 DEF Moves

\* A request that the worker reads.
LEMMA ReadSay ==
  ASSUME Typed, Ordered, ReadAnalyze \/ ReadShutdown
  PROVE  /\ Grows(Bare) /\ wk.id = Nothing /\ wk.pc = "idle" /\ UNCHANGED kiosk
         /\ \A k \in Queue' : k + 1 \in Queue /\ toWorker'[k] = toWorker[k + 1]
         /\ \E r \in Requests : /\ 1 \in Queue /\ toWorker[1] = r
              /\ \/ r.type = "analyze" /\ wk'.id = r.id /\ wk'.pc = "analyze"
                 \/ r.type = "analyze" /\ UNCHANGED wk
                 \/ r.type = "shutdown" /\ wk'.id = Nothing /\ wk'.pc = "close" /\ wk'.stop = r.id
<1>0. wk \in WorkerType /\ PipesTyped /\ UNCHANGED kiosk /\ wk.pc = "idle" /\ wk.id = Nothing
  BY DEF Typed, WkTyped, ReadAnalyze, ReadShutdown, At, Ordered, Worked
<1> DEFINE invalid == [type |-> "invalid_request"]
<1>1. UNCHANGED toClient \/ Emit(invalid)
  BY DEF ReadAnalyze, ReadShutdown
<1>2. invalid \in Events /\ invalid \in Bare
  BY EventsOf DEF Bare
<1> HIDE DEF invalid
<1>3. Grows({invalid}) => Grows(Bare)
  BY <1>2 DEF Grows
<1>4. Grows(Bare)
  BY <1>0, <1>1, <1>2, <1>3, GrowsStill, GrowsEmit
<1>5. /\ toWorker # <<>> /\ toWorker' = Tail(toWorker) /\ toWorker \in Seq(Requests)
  BY <1>0 DEF ReadAnalyze, ReadShutdown, PipesTyped
<1>6. /\ \A k \in Queue' : k + 1 \in Queue /\ toWorker'[k] = toWorker[k + 1]
      /\ 1 \in Queue /\ toWorker[1] = Head(toWorker) /\ Head(toWorker) \in Requests
  BY <1>5, TailLines DEF Queue
<1>7. PICK r \in Requests : r = Head(toWorker)
  BY <1>6
<1>8. \/ r.type = "analyze" /\ UNCHANGED wk
      \/ /\ r.type = "analyze"
         /\ wk' = [wk EXCEPT !.pc = "analyze", !.id = r.id, !.phase = Nothing]
      \/ r.type = "shutdown" /\ wk' = [wk EXCEPT !.pc = "close", !.stop = r.id]
  BY <1>7 DEF ReadAnalyze, ReadShutdown
<1>9. \/ r.type = "analyze" /\ wk'.id = r.id /\ wk'.pc = "analyze"
      \/ r.type = "analyze" /\ UNCHANGED wk
      \/ r.type = "shutdown" /\ wk'.id = Nothing /\ wk'.pc = "close" /\ wk'.stop = r.id
  BY <1>0, <1>8 DEF WorkerType
<1> QED
  BY <1>0, <1>4, <1>6, <1>7, <1>9

LEMMA AnswerSays ==
  ASSUME Typed, Result \/ AnalysisFails
  PROVE  \E e \in Events : /\ e.type \in Answers /\ e.id = wk.id /\ wk.id \in Ids /\ Emit(e)
                          /\ wk'.id = Nothing /\ wk'.pc = "idle" /\ UNCHANGED <<toWorker, kiosk>>
<1>1. PICK type \in Answers : Answer(type) /\ wk.pc = "analyze"
  BY DEF Result, AnalysisFails, Answers, At
<1>2. wk.id \in Ids /\ wk \in WorkerType
  BY <1>1 DEF Typed, WkTyped
<1>3. [type |-> type, id |-> wk.id] \in Events
  BY <1>2, EventsOf DEF Answers
<1>4. wk'.id = Nothing /\ wk'.pc = "idle" /\ UNCHANGED <<toWorker, kiosk>>
  BY <1>1, <1>2 DEF Answer, WorkerType
<1>5. Emit([type |-> type, id |-> wk.id])
  BY <1>1 DEF Answer
<1> QED
  BY <1>2, <1>3, <1>4, <1>5

\* The steps that neither read, write nor hand over.
LEMMA RestSteps ==
  ASSUME Typed, Ordered, Start \/ Waiting \/ ProcessBegins \/ KioskDies \/ UNCHANGED vars
  PROVE  /\ UNCHANGED <<toWorker, toClient>> /\ wk'.id = wk.id
         /\ Live' => Live /\ UNCHANGED outcome
         /\ cl'.shutting = cl.shutting /\ cl'.stopId = cl.stopId
         /\ Up' => Up
         /\ UNCHANGED wk \/ wk'.pc # "close"
<1>0. wk \in WorkerType
  BY DEF Typed, WkTyped
<1>1. CASE Start
  <2>1. UNCHANGED wk \/ wk' = [wk EXCEPT !.pc = "spawning"]
    BY <1>1 DEF Start
  <2>2. wk'.id = wk.id /\ (UNCHANGED wk \/ wk'.pc # "close")
    BY <1>0, <2>1 DEF WorkerType
  <2> QED
    BY <1>1, <2>2, StartSteps DEF Typed, Live, Up
<1>2. CASE Waiting
  <2>1. UNCHANGED wk \/ Becomes("killed") \/ Becomes("absent")
    BY <1>2, WaitingSteps
  <2>2. wk'.id = wk.id /\ (UNCHANGED wk \/ wk'.pc # "close")
    BY <1>0, <2>1 DEF Becomes, WorkerType
  <2> QED
    BY <1>2, <2>2, WaitingSteps DEF Kept, Live, Up
<1>3. CASE ProcessBegins \/ KioskDies \/ UNCHANGED vars
  <2>1. UNCHANGED wk \/ Becomes("started")
    BY <1>3 DEF ProcessBegins, KioskDies, vars, workerVars
  <2>2. wk'.id = wk.id /\ (UNCHANGED wk \/ wk'.pc # "close")
    BY <1>0, <2>1 DEF Becomes, WorkerType
  <2> QED
    BY <1>3, <2>2 DEF ProcessBegins, KioskDies, vars, workerVars, clientVars, Live, Up
<1> QED
  BY <1>1, <1>2, <1>3

LEMMA NextCases ==
  ASSUME [Next]_vars
  PROVE  \/ Start \/ Waiting \/ ProcessBegins \/ KioskDies \/ UNCHANGED vars
         \/ Analyze \/ Shutdown \/ OnStdoutLine
         \/ Moves /\ UNCHANGED clientVars
         \/ (ReadAnalyze \/ ReadShutdown) /\ UNCHANGED clientVars
         \/ (Result \/ AnalysisFails) /\ UNCHANGED clientVars
BY DEF Next, Commands, Continuations, Environment, WorkerStep, Moves, Waiting

\* The client writes a request.
LEMMA WriteLines ==
  ASSUME PipesTyped, NEW type \in {"analyze", "shutdown"}, NEW id \in Ids, Write(type, id)
  PROVE  \A k \in Queue' : \/ k \in Queue /\ toWorker'[k] = toWorker[k]
                           \/ toWorker'[k].type = type /\ toWorker'[k].id = id
<1> DEFINE r == [type |-> type, id |-> id]
<1>1. r \in Requests /\ toWorker \in Seq(Requests) /\ toWorker' = Append(toWorker, r)
      /\ r.type = type /\ r.id = id
  BY DEF Requests, Write, PipesTyped
<1> HIDE DEF r
<1>2. /\ Len(toWorker) \in Nat /\ Len(toWorker') = Len(toWorker) + 1
      /\ toWorker'[Len(toWorker) + 1] = r /\ \A k \in Queue : toWorker'[k] = toWorker[k]
  BY <1>1, AppendLines DEF Queue
<1>3. \A k \in Queue' : k \in Queue \/ k = Len(toWorker) + 1
  BY <1>2 DEF Queue
<1> QED
  BY <1>1, <1>2, <1>3

LEMMA NextStops ==
  ASSUME Typed, Typed', Ordered, Stops, [Next]_vars
  PROVE  Stops'
<1> DEFINE S1 == cl.stopId # Nothing => cl.shutting
           S2 == \A k \in Queue : toWorker[k].type = "shutdown" =>
                   toWorker[k].id = cl.stopId /\ cl.stopId # Nothing
           S3 == Up /\ wk.pc = "close" => wk.stop = cl.stopId /\ cl.stopId # Nothing
           S4 == Up => \A k \in Lines : toClient[k].type = "stopped" =>
                         toClient[k].id = cl.stopId /\ cl.stopId # Nothing
<1>0. S1 /\ S2 /\ S3 /\ S4
  BY DEF Stops
<1> SUFFICES S1' /\ S2' /\ S3' /\ S4'
  BY DEF Stops
<1>a. PipesTyped /\ cl \in ClientType /\ ClientOK
  BY DEF Typed, ClientOK, Sane
<1>1. CASE Start \/ Waiting \/ ProcessBegins \/ KioskDies \/ UNCHANGED vars
  BY <1>0, <1>1, RestSteps DEF Queue, Lines
<1>2. CASE Analyze
  <2>1. /\ cl' = [cl EXCEPT !.seq = cl.seq + 1] /\ cl.seq + 1 \in Ids
        /\ Write("analyze", cl.seq + 1) /\ UNCHANGED <<wk, toClient, kiosk>>
    BY <1>2, AnalyzeSteps
  <2>2. cl'.stopId = cl.stopId /\ cl'.shutting = cl.shutting
    BY <1>a, <2>1 DEF ClientType
  <2>3. \A k \in Queue' : \/ k \in Queue /\ toWorker'[k] = toWorker[k]
                          \/ toWorker'[k].type = "analyze"
    BY <1>a, <2>1, WriteLines
  <2> QED
    BY <1>0, <2>1, <2>2, <2>3 DEF Lines, Up
<1>3. CASE Shutdown
  <2>1. /\ ~cl.shutting /\ cl'.shutting /\ cl.seq + 1 \in Ids /\ UNCHANGED <<wk, toClient, kiosk>>
        /\ UNCHANGED toWorker \/ (Write("shutdown", cl.seq + 1) /\ cl'.stopId = cl.seq + 1)
        /\ Up
    BY <1>a, <1>3, ShutdownSteps
  <2>2. cl.stopId = Nothing
    BY <1>0, <2>1
  <2>3. /\ \A k \in Queue : toWorker[k].type # "shutdown"
        /\ wk.pc # "close" /\ \A k \in Lines : toClient[k].type # "stopped"
    BY <1>0, <2>1, <2>2
  <2>4. S2'
    <3>1. CASE UNCHANGED toWorker
      BY <2>3, <3>1 DEF Queue
    <3>2. CASE Write("shutdown", cl.seq + 1) /\ cl'.stopId = cl.seq + 1
      <4>1. \A k \in Queue' : \/ k \in Queue /\ toWorker'[k] = toWorker[k]
                              \/ toWorker'[k].type = "shutdown" /\ toWorker'[k].id = cl.seq + 1
        BY <1>a, <2>1, <3>2, WriteLines
      <4> QED
        BY <2>1, <2>3, <3>2, <4>1, Constants
    <3> QED
      BY <2>1, <3>1, <3>2
  <2> QED
    BY <2>1, <2>3, <2>4 DEF Lines
<1>4. CASE OnStdoutLine
  <2>1. cl'.stopId = cl.stopId /\ cl'.shutting = cl.shutting
    BY <1>4, LineSteps, HandleSteps DEF clientVars
  <2>2. /\ UNCHANGED <<wk, toWorker, kiosk>>
        /\ \A k \in Lines' : k + 1 \in Lines /\ toClient'[k] = toClient[k + 1]
    BY <1>a, <1>4, LineSteps, GrowsTail
  <2> QED
    BY <1>0, <2>1, <2>2 DEF Queue, Up
<1>5. CASE Moves /\ UNCHANGED clientVars
  <2>1. UNCHANGED <<toWorker, kiosk, cl>>
    BY <1>5, MovesSay DEF clientVars
  <2>2. S1' /\ S2' /\ S3'
    BY <1>0, <1>5, <2>1, MovesSay DEF Queue, Up
  <2>3. S4'
    <3>1. CASE Grows(Bare)
      BY <1>0, <2>1, <3>1 DEF Grows, Bare, Up
    <3>2. ASSUME NEW e \in Events, Emit(e),
                 e.type = "progress" \/ (e.type = "stopped" /\ e.id = wk.stop /\ wk.pc = "close")
          PROVE  S4'
      <4>1. Grows({e})
        BY <1>a, <3>2, GrowsEmit
      <4> QED
        BY <1>0, <2>1, <3>2, <4>1 DEF Grows, Up
    <3> QED
      BY <1>5, <3>1, <3>2, MovesSay
  <2> QED
    BY <2>2, <2>3
<1>6. CASE (ReadAnalyze \/ ReadShutdown) /\ UNCHANGED clientVars
  <2>1. PICK r \in Requests : /\ 1 \in Queue /\ toWorker[1] = r
              /\ \/ r.type = "analyze" /\ wk'.id = r.id /\ wk'.pc = "analyze"
                 \/ r.type = "analyze" /\ UNCHANGED wk
                 \/ r.type = "shutdown" /\ wk'.id = Nothing /\ wk'.pc = "close" /\ wk'.stop = r.id
    BY <1>6, ReadSay
  <2>2. /\ UNCHANGED <<kiosk, cl>> /\ wk.pc = "idle" /\ Grows(Bare)
        /\ \A k \in Queue' : k + 1 \in Queue /\ toWorker'[k] = toWorker[k + 1]
    BY <1>6, ReadSay DEF clientVars
  <2>3. S1' /\ S2' /\ S3'
    BY <1>0, <2>1, <2>2 DEF Up
  <2>4. S4'
    BY <1>0, <2>2 DEF Grows, Bare, Up
  <2> QED
    BY <2>3, <2>4
<1>7. CASE (Result \/ AnalysisFails) /\ UNCHANGED clientVars
  <2>1. PICK e \in Events : e.type \in Answers /\ Emit(e) /\ wk'.pc = "idle" /\ UNCHANGED <<toWorker, kiosk, cl>>
    BY <1>7, AnswerSays DEF clientVars
  <2>2. Grows({e})
    BY <1>a, <2>1, GrowsEmit
  <2>3. S4'
    BY <1>0, <2>1, <2>2 DEF Grows, Answers, Up
  <2> QED
    BY <1>0, <2>1, <2>3 DEF Queue
<1> QED
  BY <1>1, <1>2, <1>3, <1>4, <1>5, <1>6, <1>7, NextCases

LEMMA ProgressNames ==
  ASSUME PipesTyped
  PROVE  \A k \in Lines : toClient[k].type = "progress" => toClient[k].id \in Ids /\ toClient[k].id # Nothing
BY LinesTyped, EventFields, Constants

LEMMA NextOwned ==
  ASSUME Typed, Typed', Ordered, Owned, [Next]_vars
  PROVE  Owned'
<1>a. PipesTyped /\ PipesTyped'
  BY DEF Typed
<1> SUFFICES ASSUME NEW k \in Lines', toClient'[k].type = "progress"
             PROVE  \/ wk'.id = toClient'[k].id
                    \/ \E l \in Lines' : k < l /\ IsAnswer(l)' /\ toClient'[l].id = toClient'[k].id
  BY DEF Owned
<1>1. ASSUME NEW E, Grows(E), k \in Lines, wk'.id = wk.id \/ wk.id = Nothing
      PROVE  \/ wk'.id = toClient'[k].id
             \/ \E l \in Lines' : k < l /\ IsAnswer(l)' /\ toClient'[l].id = toClient'[k].id
  <2>1. toClient'[k] = toClient[k] /\ toClient[k].id # Nothing
    BY <1>a, <1>1, ProgressNames DEF Grows
  <2>2. CASE wk.id = toClient[k].id
    BY <1>1, <2>1, <2>2
  <2>3. CASE \E l \in Lines : k < l /\ IsAnswer(l) /\ toClient[l].id = toClient[k].id
    <3>1. PICK l \in Lines : k < l /\ IsAnswer(l) /\ toClient[l].id = toClient[k].id
      BY <2>3
    <3>2. l \in Lines' /\ IsAnswer(l)' /\ toClient'[l].id = toClient'[k].id
      BY <1>1, <2>1, <3>1 DEF Grows, IsAnswer
    <3> QED
      BY <3>1, <3>2
  <2> QED
    BY <1>1, <2>1, <2>2, <2>3 DEF Owned
<1>2. CASE Start \/ Waiting \/ ProcessBegins \/ KioskDies \/ UNCHANGED vars
  <2>1. k \in Lines /\ wk'.id = wk.id /\ Grows(Events)
    BY <1>2, RestSteps, GrowsStill DEF Lines
  <2> QED
    BY <1>1, <2>1
<1>3. CASE Analyze \/ Shutdown
  <2>1. k \in Lines /\ wk'.id = wk.id /\ Grows(Events)
    BY <1>3, GrowsStill DEF Lines, Analyze, Shutdown
  <2> QED
    BY <1>1, <2>1
<1>4. CASE OnStdoutLine
  <2>1. /\ UNCHANGED wk /\ k + 1 \in Lines /\ toClient'[k] = toClient[k + 1] /\ k \in Nat
        /\ \A l \in Lines : l # 1 => l - 1 \in Lines' /\ toClient'[l - 1] = toClient[l]
        /\ \A l \in Lines : l \in Nat /\ l >= 1
    BY <1>a, <1>4, LineSteps, GrowsTail
  <2>2. CASE wk.id = toClient[k + 1].id
    BY <2>1, <2>2
  <2>3. CASE \E l \in Lines : k + 1 < l /\ IsAnswer(l) /\ toClient[l].id = toClient[k + 1].id
    <3>1. PICK l \in Lines : k + 1 < l /\ IsAnswer(l) /\ toClient[l].id = toClient[k + 1].id
      BY <2>3
    <3>2. l # 1 /\ k < l - 1
      BY <2>1, <3>1
    <3>3. l - 1 \in Lines' /\ toClient'[l - 1] = toClient[l]
      BY <2>1, <3>2
    <3>4. IsAnswer(l - 1)'
      BY <3>1, <3>3 DEF IsAnswer
    <3> QED
      BY <2>1, <3>1, <3>2, <3>3, <3>4
  <2> QED
    BY <2>1, <2>2, <2>3 DEF Owned
<1>5. CASE Moves /\ UNCHANGED clientVars
  <2>1. wk'.id = wk.id
    BY <1>5, MovesKeepId
  <2>2. CASE Grows(Bare)
    <3>1. k \in Lines
      BY <2>2 DEF Grows, Bare
    <3> QED
      BY <1>1, <2>1, <2>2, <3>1
  <2>3. ASSUME NEW e \in Events, Emit(e), e.type = "progress" => e.id = wk.id
        PROVE  \/ wk'.id = toClient'[k].id
               \/ \E l \in Lines' : k < l /\ IsAnswer(l)' /\ toClient'[l].id = toClient'[k].id
    <3>1. Grows({e})
      BY <1>a, <2>3, GrowsEmit
    <3>2. k \in Lines \/ toClient'[k] = e
      BY <3>1 DEF Grows
    <3> QED
      BY <1>1, <2>1, <2>3, <3>1, <3>2
  <2> QED
    BY <1>5, <2>2, <2>3, MovesSay
<1>6. CASE (ReadAnalyze \/ ReadShutdown) /\ UNCHANGED clientVars
  <2>1. Grows(Bare) /\ wk.id = Nothing
    BY <1>6, ReadSay
  <2>2. k \in Lines
    BY <2>1 DEF Grows, Bare
  <2> QED
    BY <1>1, <2>1, <2>2
<1>7. CASE (Result \/ AnalysisFails) /\ UNCHANGED clientVars
  <2>1. PICK e \in Events : e.type \in Answers /\ e.id = wk.id /\ Emit(e)
    BY <1>7, AnswerSays
  <2>2. /\ Grows({e}) /\ Len(toClient) + 1 \in Lines' /\ toClient'[Len(toClient) + 1] = e
        /\ \A l \in Lines : l < Len(toClient) + 1
    BY <1>a, <2>1, GrowsEmit
  <2>3. k \in Lines /\ toClient'[k] = toClient[k]
    BY <2>1, <2>2 DEF Grows, Answers
  <2>4. PICK n \in Lines' : n = Len(toClient) + 1
    BY <2>2
  <2>5. CASE wk.id = toClient[k].id
    <3>1. IsAnswer(n)' /\ k < n /\ toClient'[n].id = toClient'[k].id
      BY <2>1, <2>2, <2>3, <2>4, <2>5 DEF IsAnswer
    <3> QED
      BY <3>1
  <2>6. CASE \E l \in Lines : k < l /\ IsAnswer(l) /\ toClient[l].id = toClient[k].id
    BY <2>2, <2>3, <2>6 DEF Grows, IsAnswer
  <2> QED
    BY <2>3, <2>5, <2>6 DEF Owned
<1> QED
  BY <1>2, <1>3, <1>4, <1>5, <1>6, <1>7, NextCases

LEMMA NextAwaits ==
  ASSUME Typed, Typed', Ordered, Awaits, [Next]_vars
  PROVE  Awaits'
<1> DEFINE A1 == \A k \in Queue : toWorker[k].type = "analyze" => outcome[toWorker[k].id] = "pending"
           A2 == wk.id # Nothing => outcome[wk.id] = "pending"
           A3 == \A k \in Lines : IsAnswer(k) => outcome[toClient[k].id] = "pending"
<1> SUFFICES ASSUME Live' PROVE A1' /\ A2' /\ A3'
  BY DEF Awaits
<1>a. PipesTyped /\ PipesTyped' /\ cl \in ClientType /\ outcome \in [Ids -> Outcomes] /\ wk \in WorkerType
  BY DEF Typed, ClientOK, Sane, AnswersTyped, WkTyped
<1>b. Live => A1 /\ A2 /\ A3
  BY DEF Awaits
<1>c. /\ \A k \in Queue : toWorker[k].id \in Ids
      /\ \A k \in Lines : IsAnswer(k) => toClient[k].id \in Ids
  BY <1>a, LinesTyped DEF Queue, Requests, Ordered, Answered
<1>d. ASSUME NEW E, Grows(E), UNCHANGED outcome, Live,
             \A e \in E : e.type \in Answers => e.id = wk.id /\ wk.id # Nothing
      PROVE  A3'
  <2> SUFFICES ASSUME NEW k \in Lines', toClient'[k].type \in Answers
               PROVE  outcome'[toClient'[k].id] = "pending"
    BY DEF IsAnswer
  <2>1. CASE k \in Lines
    BY <1>b, <1>d, <2>1 DEF Grows, IsAnswer
  <2>2. CASE k \notin Lines
    BY <1>b, <1>d, <2>2 DEF Grows
  <2> QED
    BY <2>1, <2>2
<1>1. CASE Start \/ Waiting \/ ProcessBegins \/ KioskDies \/ UNCHANGED vars
  <2>1. /\ UNCHANGED <<toWorker, toClient, outcome>> /\ wk'.id = wk.id /\ Live
    BY <1>1, RestSteps
  <2> QED
    BY <1>b, <2>1 DEF Queue, Lines, IsAnswer
<1>2. CASE Analyze
  <2>1. /\ cl.status = "ready" /\ cl.seq + 1 \in Ids /\ Write("analyze", cl.seq + 1)
        /\ outcome' = [outcome EXCEPT ![cl.seq + 1] = "pending"] /\ UNCHANGED <<wk, toClient>>
    BY <1>2, AnalyzeSteps
  <2>2. A1 /\ A2 /\ A3
    BY <1>b, <2>1 DEF Live
  <2>3. \A i \in Ids : outcome[i] = "pending" \/ i = cl.seq + 1 => outcome'[i] = "pending"
    BY <1>a, <2>1
  <2>4. \A k \in Queue' : \/ k \in Queue /\ toWorker'[k] = toWorker[k]
                          \/ toWorker'[k].id = cl.seq + 1
    BY <1>a, <2>1, WriteLines
  <2>5. A1'
    BY <1>c, <2>1, <2>2, <2>3, <2>4
  <2>6. A2'
    BY <1>a, <2>1, <2>2, <2>3 DEF WorkerType
  <2>7. A3'
    BY <1>c, <2>1, <2>2, <2>3 DEF Lines, IsAnswer
  <2> QED
    BY <2>5, <2>6, <2>7
<1>3. CASE Shutdown
  <2>1. /\ cl'.status \in {cl.status, "stopped"} /\ UNCHANGED <<outcome, wk, toClient>>
        /\ cl.seq + 1 \in Ids /\ (UNCHANGED toWorker \/ Write("shutdown", cl.seq + 1))
    BY <1>a, <1>3, ShutdownSteps DEF Typed
  <2>2. A1 /\ A2 /\ A3
    BY <1>b, <2>1 DEF Live
  <2>3. \A k \in Queue' : \/ k \in Queue /\ toWorker'[k] = toWorker[k]
                          \/ toWorker'[k].type = "shutdown"
    BY <1>a, <2>1, WriteLines DEF Queue
  <2> QED
    BY <2>1, <2>2, <2>3 DEF Lines, IsAnswer
<1>4. CASE OnStdoutLine
  <2>0. PICK e \in Events : e = Head(toClient)
    BY <1>4, LineSteps
  <2>1. /\ Live /\ Handle(e) /\ UNCHANGED <<wk, toWorker>>
        /\ toClient # <<>> /\ toClient' = Tail(toClient)
    BY <1>4, <2>0, LineSteps DEF clientVars, Live
  <2>2. Heeded(e) /\ A1 /\ A2 /\ A3
    BY <1>a, <1>b, <2>1, HandleSteps
  <2>3. /\ \A k \in Lines' : k + 1 \in Lines /\ toClient'[k] = toClient[k + 1] /\ 1 < k + 1
        /\ 1 \in Lines /\ toClient[1] = e
    <3>1. \A k \in Lines' : 1 < k + 1
      BY DEF Lines
    <3> QED
      BY <1>a, <2>0, <2>1, <3>1, GrowsTail
  <2>4. CASE e.type \in Answers
    <3>1. outcome' = [outcome EXCEPT ![e.id] = e.type]
      BY <2>2, <2>4 DEF Heeded, Answers
    <3>2. IsAnswer(1) /\ e.id \in Ids
      BY <1>c, <2>3, <2>4 DEF IsAnswer
    <3>3. /\ wk.id # Nothing => e.id < wk.id
          /\ \A l \in Queue : e.id < toWorker[l].id
          /\ \A l \in Lines : 1 < l /\ IsAnswer(l) => e.id < toClient[l].id
      BY <2>3, <3>2 DEF Ordered, Answered, AnswersOrdered
    <3>4. \A i \in Ids : e.id < i => outcome'[i] = outcome[i]
      BY <1>a, <3>1, <3>2, IdsNat
    <3>5. A1'
      BY <1>c, <2>1, <2>2, <3>3, <3>4 DEF Queue
    <3>6. A2'
      BY <1>a, <2>1, <2>2, <3>3, <3>4 DEF WorkerType
    <3>7. ASSUME NEW k \in Lines', toClient'[k].type \in Answers
          PROVE  outcome'[toClient'[k].id] = "pending"
      <4>1. k + 1 \in Lines /\ IsAnswer(k + 1) /\ 1 < k + 1 /\ toClient'[k] = toClient[k + 1]
        BY <2>3, <3>7 DEF IsAnswer
      <4> QED
        BY <1>c, <2>2, <3>3, <3>4, <4>1
    <3> QED
      BY <3>5, <3>6, <3>7 DEF IsAnswer
  <2>5. CASE e.type \notin Answers
    <3>1. UNCHANGED outcome
      BY <2>2, <2>5 DEF Heeded
    <3> QED
      BY <2>1, <2>2, <2>3, <3>1 DEF Queue, IsAnswer
  <2> QED
    BY <2>4, <2>5
<1>5. CASE Moves /\ UNCHANGED clientVars
  <2>1. UNCHANGED <<toWorker, outcome>> /\ wk'.id = wk.id /\ Live
    BY <1>5, MovesKeepId DEF clientVars, Live
  <2>2. A3'
    <3>1. CASE Grows(Bare)
      BY <1>d, <2>1, <3>1 DEF Bare, Answers
    <3>2. ASSUME NEW e \in Events, Emit(e), e.type \in {"progress", "stopped"}
          PROVE  A3'
      <4>1. Grows({e})
        BY <1>a, <3>2, GrowsEmit
      <4> QED
        BY <1>d, <2>1, <3>2, <4>1 DEF Answers
    <3> QED
      BY <1>5, <3>1, <3>2, MovesSay
  <2> QED
    BY <1>b, <2>1, <2>2 DEF Queue
<1>6. CASE (ReadAnalyze \/ ReadShutdown) /\ UNCHANGED clientVars
  <2>1. UNCHANGED outcome /\ Live
    BY <1>6 DEF clientVars, Live
  <2>2. /\ Grows(Bare) /\ wk.id = Nothing
        /\ \A k \in Queue' : k + 1 \in Queue /\ toWorker'[k] = toWorker[k + 1]
    BY <1>6, ReadSay
  <2>3. PICK r \in Requests : /\ 1 \in Queue /\ toWorker[1] = r
              /\ \/ r.type = "analyze" /\ wk'.id = r.id
                 \/ r.type = "analyze" /\ UNCHANGED wk
                 \/ r.type = "shutdown" /\ wk'.id = Nothing
    BY <1>6, ReadSay
  <2>4. A3'
    BY <1>d, <2>1, <2>2 DEF Bare, Answers
  <2>5. A1' /\ A2'
    BY <1>b, <2>1, <2>2, <2>3
  <2> QED
    BY <2>4, <2>5
<1>7. CASE (Result \/ AnalysisFails) /\ UNCHANGED clientVars
  <2>1. PICK e \in Events : /\ e.type \in Answers /\ e.id = wk.id /\ wk.id \in Ids /\ Emit(e)
                           /\ wk'.id = Nothing /\ UNCHANGED toWorker
    BY <1>7, AnswerSays
  <2>2. UNCHANGED outcome /\ Live
    BY <1>7 DEF clientVars, Live
  <2>3. Grows({e})
    BY <1>a, <2>1, GrowsEmit
  <2>4. A3'
    BY <1>d, <2>1, <2>2, <2>3, Constants
  <2> QED
    BY <1>b, <2>1, <2>2, <2>4 DEF Queue
<1> QED
  BY <1>1, <1>2, <1>3, <1>4, <1>5, <1>6, <1>7, NextCases

-----------------------------------------------------------------------------
(* The client finds no fault.                                              *)

\* What a live client reads first is welcome, unless an image has gone or
\* start() was given up.
LEMMA Polite ==
  ASSUME Typed, Ordered, Protocol, Clean, Up, toClient # <<>>
  PROVE  Welcome(Head(toClient))
<1>1. PICK e \in Events : e = Head(toClient) /\ 1 \in Lines /\ toClient[1] = e
  BY TailLines DEF Typed, PipesTyped, Lines
<1>2. PICK v \in Views : Matches(v) /\ ChainOf(toClient, v)
  BY DEF Protocol, Agreed, Agrees
<1>3. Follows(v, e)
  BY <1>1, <1>2, ChainTail DEF Typed, PipesTyped
<1>4. cl.status = v.stage /\ \A i \in Ids : progress[i] = IF i = v.id THEN v.phase ELSE Nothing
  BY <1>2 DEF Matches
<1>5. Live /\ Begins /\ Stops /\ Owned /\ Awaits
  BY DEF Protocol, Clean
<1>6. CASE e.type \in {"loading", "warming", "ready"}
  <2>1. \/ e.type = "loading" /\ cl.status = "starting"
        \/ e.type = "warming" /\ cl.status = "loading"
        \/ e.type = "ready" /\ cl.status = "warming"
    BY <1>3, <1>4, <1>6, ViewFields DEF Follows
  <2>2. cl.status = "warming" => cl.start = "pending"
    BY <1>5 DEF Begins, Clean
  <2> QED
    BY <1>1, <2>1, <2>2 DEF Welcome
<1>7. CASE e.type = "progress"
  <2>1. e.id \in Ids /\ e.id # Nothing
    BY <1>7, EventFields, Constants
  <2>2. /\ v.stage = "ready" /\ v.id \in {e.id, Nothing}
        /\ <<v.phase, e.phase>> \in LEGAL_NEXT_PHASES
    BY <1>3, <1>7 DEF Follows
  <2>3. progress[e.id] = v.phase
    BY <1>4, <2>1, <2>2 DEF Views
  <2>4. outcome[e.id] = "pending"
    <3>1. CASE wk.id = e.id
      BY <1>5, <2>1, <3>1 DEF Awaits
    <3>2. CASE \E l \in Lines : IsAnswer(l) /\ toClient[l].id = e.id
      BY <1>5, <3>2 DEF Awaits
    <3> QED
      BY <1>1, <1>5, <1>7, <3>1, <3>2 DEF Owned
  <2> QED
    BY <1>1, <1>4, <1>7, <2>2, <2>3, <2>4 DEF Welcome
<1>8. CASE e.type \in Answers
  <2>1. outcome[e.id] = "pending" /\ e.id \in Ids
    BY <1>1, <1>5, <1>8 DEF IsAnswer, Awaits, Ordered, Answered
  <2>2. e.type = "result" => progress[e.id] = "aggregating"
    BY <1>3, <1>4, <2>1, ViewFields DEF Follows
  <2> QED
    BY <1>1, <1>8, <2>1, <2>2 DEF Welcome, Answers
<1>9. CASE e.type = "stopped"
  BY <1>1, <1>5, <1>9 DEF Stops, Welcome
<1>10. CASE e.type \in {"admission_failed", "initialization_failed"}
  BY <1>1, <1>10 DEF Welcome
<1> QED
  BY <1>3, <1>6, <1>7, <1>8, <1>9, <1>10 DEF Follows, Answers

\* What the client finds fault with.
Excuse == missing # {} \/ (cl.shutting /\ cl.start = "failed")

LEMMA NextProtocolAgreed ==
  ASSUME Typed, Ordered, Protocol, ProtocolAgreed, [Next]_vars
  PROVE  ProtocolAgreed'
<1>a. ClientOK /\ Faultless /\ cl \in ClientType
  BY DEF Typed, Protocol, ClientOK, Sane
<1>b. (cl.cause = "protocol" => Excuse) /\ (Live => cl.cause # "protocol")
  BY <1>a, NothingIsNoCause DEF ProtocolAgreed, Excuse, Faultless
<1> SUFFICES cl'.cause = "protocol" => Excuse'
  BY DEF ProtocolAgreed, Excuse
<1>1. CASE Start
  <2>1. cl'.cause \in {cl.cause, "start"} /\ cl.status = "notStarted"
    BY <1>a, <1>1, StartSteps
  <2> QED
    BY <1>b, <2>1 DEF Live
<1>2. CASE Analyze
  <2>1. cl' = [cl EXCEPT !.seq = cl.seq + 1] /\ UNCHANGED missing
    BY <1>2, AnalyzeSteps
  <2>2. cl'.cause = cl.cause /\ cl'.shutting = cl.shutting /\ cl'.start = cl.start
    BY <1>a, <2>1 DEF ClientType
  <2> QED
    BY <1>b, <2>1, <2>2 DEF Excuse
<1>3. CASE Shutdown
  <2>1. ~cl.shutting /\ cl'.cause = cl.cause /\ UNCHANGED missing
    BY <1>a, <1>3, ShutdownSteps
  <2> QED
    BY <1>b, <2>1 DEF Excuse
<1>4. CASE Waiting
  <2>1. Kept(cl, cl') /\ UNCHANGED missing
    BY <1>4, WaitingSteps
  <2> QED
    BY <1>b, <2>1 DEF Excuse, Kept
<1>5. CASE OnStdoutLine
  <2>1. CASE ~Live /\ UNCHANGED clientVars
    <3>1. UNCHANGED <<cl, missing>>
      BY <1>5, <2>1, LineSteps DEF clientVars
    <3> QED
      BY <1>b, <3>1 DEF Excuse
  <2>2. CASE Live /\ Handle(Head(toClient))
    <3>1. PICK e \in Events : e = Head(toClient) /\ Handle(e)
      BY <1>5, <2>2, LineSteps
    <3>2. /\ cl'.shutting = cl.shutting /\ (cl.start = "failed" => cl'.start = "failed")
          /\ Welcome(e) => cl'.cause # "protocol" \/ cl'.cause = cl.cause
      BY <1>a, <2>2, <3>1, HandleSteps
    <3>3. UNCHANGED missing /\ Up /\ toClient # <<>>
      BY <1>5, LineSteps
    <3>4. Clean => Welcome(e)
      BY <3>1, <3>3, Polite
    <3> QED
      BY <1>b, <2>2, <3>2, <3>3, <3>4 DEF Excuse, Clean
  <2> QED
    BY <1>5, <2>1, <2>2, LineSteps
<1>6. CASE UNCHANGED <<cl, missing>>
  BY <1>b, <1>6 DEF Excuse
<1>7. CASE (WorkerStep \/ Die \/ WorkerFault) /\ UNCHANGED clientVars
  <2>1. missing \subseteq missing' /\ UNCHANGED cl
    BY <1>7 DEF WorkerStep, RejectLaunch, BeginServe, SelectCandidate, SelectLegacy, Load, Warm,
       Announce, ReadAnalyze, ReadShutdown, ReadEnd, Progress, Result, AnalysisFails, Answer,
       CloseRuntime, BrokenPipe, Die, WorkerFault, Crash, Hang, LoseImage, clientVars
  <2> QED
    BY <1>b, <2>1 DEF Excuse
<1>8. ProcessBegins \/ KioskDies \/ UNCHANGED vars => UNCHANGED <<cl, missing>>
  BY DEF ProcessBegins, KioskDies, clientVars, vars, workerVars
<1> QED
  BY <1>1, <1>2, <1>3, <1>4, <1>5, <1>6, <1>7, <1>8
     DEF Next, Commands, Continuations, Environment, Waiting

LEMMA InitProtocol ==
  Init => Protocol /\ ProtocolAgreed
<1> SUFFICES ASSUME Init PROVE Protocol /\ ProtocolAgreed
  OBVIOUS
<1>1. PICK p \in Profiles : wk = NoWorker(p)
  BY DEF Init, WorkerInit
<1>2. wk.pc = "absent" /\ wk.id = Nothing /\ ~wk.warmed
  BY <1>1 DEF NoWorker
<1>3. /\ toWorker = <<>> /\ toClient = <<>> /\ cl = NewClient
      /\ progress = [i \in Ids |-> Nothing]
  BY DEF Init, WorkerInit
<1>4. Queue = {} /\ Lines = {}
  BY <1>3 DEF Queue, Lines
<1>5. /\ cl.status = "notStarted" /\ cl.start = "none" /\ cl.cause = Nothing
      /\ cl.stopId = Nothing
  BY <1>3 DEF NewClient
<1> DEFINE v == Plain("notStarted")
<1>6. v \in Views /\ v.stage = "notStarted" /\ v.id = Nothing /\ v.phase = Nothing
  BY DEF Plain, View, Views, Statuses
<1> HIDE DEF v
<1>7. Matches(v)
  BY <1>3, <1>5, <1>6 DEF Matches
<1>8. ChainOf(toClient, v)
  BY <1>3 DEF ChainOf
<1>9. Agreed
  BY <1>2, <1>6, <1>7, <1>8, PcSets DEF Agreed, Agrees
<1> QED
  BY <1>2, <1>4, <1>5, <1>9, NothingIsNoCause
     DEF Protocol, Warmth, Begins, Faultless, Stops, Owned, Awaits, ProtocolAgreed

LEMMA NextProtocol ==
  ASSUME Typed, Ordered, Protocol, [Next]_vars
  PROVE  Protocol'
<1>1. Typed'
  BY NextTyped
<1> QED
  BY <1>1, NextAgreed, NextWarmth, NextBegins, NextStops, NextOwned, NextAwaits DEF Protocol

\* the client finds fault with the worker's lines only for an image that has
\* gone, or for a ready event that comes after start() was given up, for every
\* number of requests and of faults: _handleEvent and its tables accept
\* whatever serve writes, in every order in which the two can run
THEOREM WorkerProtocolAgreed == SafeSpec => []ProtocolAgreed
<1> DEFINE Inv == Typed /\ Ordered /\ Protocol /\ ProtocolAgreed
<1>1. Init => Inv
  BY InitTyped, InitOrdered, InitProtocol
<1>2. Inv /\ [Next]_vars => Inv'
  BY NextTyped, NextOrdered, NextProtocol, NextProtocolAgreed
<1> QED
  BY <1>1, <1>2, PTL DEF SafeSpec

=============================================================================
