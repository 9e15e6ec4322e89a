--------------------------- MODULE CheckoutProofs ---------------------------
(***************************************************************************)
(* Theorems about Checkout, for any sets of sessions, objects, products,   *)
(* results and slots and any bounds.                                       *)
(***************************************************************************)
EXTENDS CheckoutHistory, AuditStoreProofs

-----------------------------------------------------------------------------
(* The inductive invariant.                                                *)

Paying == {"prepare", "commit", "join"}

\* What a suspended call c relies on: a scan knows its session and attempt, an
\* answered one its result, and a payment is for an order that was confirmed.
CallSound(c, rs, conf) ==
  /\ c.op \in {"scan", "retry"} => c.s \in Sessions /\ c.n \in Attempts
  /\ c.pc \in ScanAwaits => c.op \in {"scan", "retry"}
  /\ c.pc \in {"receipt", "complete"} => rs[c.s][c.n].result # Nothing
  /\ c.pc = "record" => c.o \in Objects
  /\ c.pc \in Paying => c.s \in Sessions /\ c.view.lines \in conf[c.s]

CallsSound == \A t \in Slots : task[t] # Nothing => CallSound(task[t], recs, confirmed)

CallsInv ==
  /\ task \in [Slots -> CallType \cup {Nothing}]
  /\ CallsSound

ControllerInv ==
  /\ ctl \in ControllerType
  /\ ctl.active => ctl.session \in Sessions
  /\ ctl.frozen # Nothing => ctl.frozen.review.lines \in confirmed[ctl.frozen.s]

RestType ==
  /\ view \in ViewType
  /\ recs \in [Sessions -> [Attempts -> RecoveryType]]
  /\ sc \in ScannerType
  /\ mode \in {"customer", "admin"} /\ faults \in 0..MaxFaults
  /\ confirmed \in [Sessions -> SUBSET Lines]

MemoryInv == CallsInv /\ ControllerInv /\ RestType

-----------------------------------------------------------------------------
(* The operators the model is built from.                                  *)

\* The empty order and the empty manual additions are well typed.
LEMMA NoLinesType == NoLines \in Lines /\ NoManual \in [Products -> 0..MaxManual]
  BY StoreBounds, CheckoutBounds DEF NoLines, NoManual, Lines

\* A cleared screen is well typed, whatever phase and code it shows.
LEMMA BlankType ==
  ASSUME NEW phase \in Phases, NEW code \in Codes
  PROVE  Blank(phase, code) \in ViewType
  BY NoLinesType DEF Blank, ViewType, NoDrafts

\* A product is billed at most once per object and per unit added by hand.
LEMMA LinesForType ==
  ASSUME NEW drafts, NEW added \in [Products -> 0..MaxManual]
  PROVE  LinesFor(drafts, added) \in Lines
<1> SUFFICES ASSUME NEW p \in Products
             PROVE  Units(drafts, p) + added[p] \in 0..MaxQuantity
  BY DEF LinesFor, Lines
<1>1. Units(drafts, p) \in Nat /\ Units(drafts, p) <= Cardinality(Objects)
  BY CheckoutBounds, FS_Subset, FS_CardinalityType DEF Units
<1>2. Cardinality(Objects) \in Nat
  BY CheckoutBounds, FS_CardinalityType
<1> QED
  BY <1>1, <1>2, CheckoutBounds, StoreBounds

\* The screen drawn from a result of the worker is well typed.
LEMMA MappedType ==
  ASSUME NEW scan \in Scans, NEW r \in Results
  PROVE  Mapped(scan, r) \in ViewType
<1>1. r.object \in [Objects -> Products \cup {Unknown, Absent}]
  BY ResultShape
<1>2. LinesFor(r.object, NoManual) \in Lines
  BY LinesForType, NoLinesType
<1>3. Blank("retakeRequired", "needs_retake") \in ViewType
  BY BlankType DEF Phases, Codes
<1> QED
  BY <1>1, <1>2, <1>3 DEF Mapped, ViewType, Phases, Codes

\* Changing a screen's phase or code leaves it well typed, its lines as they were.
LEMMA RephrasedType ==
  ASSUME NEW v \in ViewType, NEW phase \in Phases, NEW code \in Codes
  PROVE  /\ [v EXCEPT !.phase = phase] \in ViewType
         /\ [v EXCEPT !.phase = phase, !.code = code] \in ViewType
         /\ [v EXCEPT !.phase = phase, !.code = code].lines = v.lines
  BY DEF ViewType

\* The screen put on display is the one that was given.
LEMMA ShowType ==
  ASSUME view \in ViewType, NEW v \in ViewType, Show(v)
  PROVE  view' \in ViewType
  BY DEF Show

\* A call is created well typed, for the session the controller is in.
LEMMA CallTyped ==
  ASSUME ctl \in ControllerType, NEW op \in Calls, NEW pc \in Awaits
  PROVE  /\ Call(op, pc) \in CallType
         /\ Call(op, pc).op = op /\ Call(op, pc).pc = pc
         /\ Call(op, pc).s = ctl.session
<1>1. Blank("ready", "none") \in ViewType
  BY BlankType DEF Phases, Codes
<1> QED
  BY <1>1, StoreBounds DEF Call, CallType, ControllerType

\* The commands and awaits named by the review and payment calls exist.
LEMMA NamesOfCalls ==
  /\ {"resolve", "edit", "pay"} \subseteq Calls
  /\ {"record", "persist", "prepare"} \subseteq Awaits
  BY DEF Calls, Awaits

-----------------------------------------------------------------------------
(* Pending calls.  Results and confirmations are only ever added, so a call *)
(* goes on relying on what it relied on.                                    *)

Grows ==
  /\ \A s \in Sessions, n \in Attempts :
       recs[s][n].result # Nothing => recs'[s][n].result # Nothing
  /\ \A s \in Sessions : confirmed[s] \subseteq confirmed'[s]

\* A step that leaves the recovery records and confirmations alone removes none.
LEMMA NothingAdded == UNCHANGED <<recs, confirmed>> => Grows
  BY DEF Grows

\* A call that does not move keeps what it relies on.
LEMMA CallStaysSound ==
  ASSUME Grows, NEW u \in Slots, CallSound(task[u], recs, confirmed),
         task[u] \in CallType
  PROVE  CallSound(task[u], recs', confirmed')
  BY DEF Grows, CallSound, ScanAwaits, Paying

\* one call starts, moves or returns
LEMMA CallChanges ==
  ASSUME MemoryInv, Grows, NEW t \in Slots, NEW c \in CallType \cup {Nothing},
         task' = [task EXCEPT ![t] = c],
         c # Nothing => CallSound(c, recs', confirmed')
  PROVE  CallsInv'
<1>1. task' \in [Slots -> CallType \cup {Nothing}]
  BY DEF MemoryInv, CallsInv, ControllerInv
<1>2. ASSUME NEW u \in Slots, task'[u] # Nothing
      PROVE  CallSound(task'[u], recs', confirmed')
  <2>1. CASE u = t
    BY <1>2, <2>1 DEF MemoryInv, CallsInv, ControllerInv
  <2>2. CASE u # t
    <3>1. task'[u] = task[u]
      BY <2>2 DEF MemoryInv, CallsInv, ControllerInv
    <3> QED
      BY <1>2, <3>1, CallStaysSound DEF MemoryInv, CallsInv, CallsSound
  <2> QED
    BY <2>1, <2>2
<1> QED
  BY <1>1, <1>2 DEF CallsInv, CallsSound

\* A command that returns leaves every other call sound.
LEMMA CallReturns ==
  ASSUME MemoryInv, Grows, NEW t \in Slots, Return(t)
  PROVE  CallsInv'
  BY CallChanges DEF Return

\* a call that moves to an await which asks for nothing new
Plain == Awaits \ (Paying \cup {"receipt", "complete", "record"})

\* A call that moves to such an await stays sound, and so do the others.
LEMMA CallMoves ==
  ASSUME MemoryInv, Grows, NEW t \in Slots, task[t] # Nothing,
         NEW pc \in Plain, Goto(t, pc),
         pc \in ScanAwaits => task[t].pc \in ScanAwaits
  PROVE  CallsInv'
<1> DEFINE c == [task[t] EXCEPT !.pc = pc]
<1>1. task[t] \in CallType /\ CallSound(task[t], recs, confirmed)
  BY DEF MemoryInv, CallsInv, CallsSound
<1>2. c \in CallType /\ c.pc = pc /\ c.op = task[t].op /\ c.s = task[t].s
      /\ c.n = task[t].n
  BY <1>1 DEF CallType, Plain
<1>3. CallSound(c, recs', confirmed')
  BY <1>1, <1>2 DEF CallSound, Plain
<1>4. task' = [task EXCEPT ![t] = c]
  BY DEF Goto, MemoryInv, CallsInv, ControllerInv
<1> HIDE DEF c
<1> QED
  BY <1>2, <1>3, <1>4, CallChanges

\* So does a command that starts and relies on nothing yet.
LEMMA CallStarts ==
  ASSUME MemoryInv, Grows, NEW t \in Slots, NEW op \in Calls, NEW pc \in Plain,
         pc \notin ScanAwaits, op \notin {"scan", "retry"}, Spawn(t, Call(op, pc))
  PROVE  CallsInv'
<1>1. /\ Call(op, pc) \in CallType
      /\ Call(op, pc).op = op /\ Call(op, pc).pc = pc
  BY CallTyped DEF MemoryInv, CallsInv, ControllerInv, Plain
<1>2. CallSound(Call(op, pc), recs', confirmed')
  BY <1>1 DEF CallSound, Plain
<1> QED
  BY <1>1, <1>2, CallChanges DEF Spawn

\* scans in flight are cancelled
LEMMA CancelledSound ==
  ASSUME MemoryInv
  PROVE  /\ Cancelled(task) \in [Slots -> CallType \cup {Nothing}]
         /\ \A u \in Slots : Cancelled(task)[u] # Nothing =>
              /\ task[u] # Nothing
              /\ CallSound(Cancelled(task)[u], recs, confirmed)
<1> SUFFICES ASSUME NEW u \in Slots
             PROVE  /\ Cancelled(task)[u] \in CallType \cup {Nothing}
                    /\ Cancelled(task)[u] # Nothing =>
                         /\ task[u] # Nothing
                         /\ CallSound(Cancelled(task)[u], recs, confirmed)
  BY DEF Cancelled
<1>1. CASE task[u] # Nothing /\ task[u].op = "scan"
  <2> DEFINE c == [task[u] EXCEPT !.stale = TRUE]
  <2>1. task[u] \in CallType /\ CallSound(task[u], recs, confirmed)
    BY <1>1 DEF MemoryInv, CallsInv, CallsSound
  <2>2. c \in CallType /\ c.pc = task[u].pc /\ c.op = task[u].op
        /\ c.s = task[u].s /\ c.n = task[u].n /\ c.o = task[u].o
        /\ c.view = task[u].view
    BY <2>1 DEF CallType
  <2>3. CallSound(c, recs, confirmed)
    BY <2>1, <2>2 DEF CallSound
  <2>4. Cancelled(task)[u] = c
    BY <1>1 DEF Cancelled
  <2> QED
    BY <1>1, <2>2, <2>3, <2>4
<1>2. CASE ~(task[u] # Nothing /\ task[u].op = "scan")
  BY <1>2 DEF Cancelled, MemoryInv, CallsInv, CallsSound
<1> QED
  BY <1>1, <1>2

\* Cancelling the scans in flight while one call moves or returns keeps calls sound.
LEMMA CallsCancelled ==
  ASSUME MemoryInv, UNCHANGED <<recs, confirmed>>, NEW t \in Slots,
         NEW c \in CallType \cup {Nothing},
         c # Nothing => CallSound(c, recs, confirmed),
         task' = [Cancelled(task) EXCEPT ![t] = c]
  PROVE  CallsInv'
<1>1. task' \in [Slots -> CallType \cup {Nothing}]
  BY CancelledSound
<1>2. ASSUME NEW u \in Slots, task'[u] # Nothing
      PROVE  CallSound(task'[u], recs, confirmed)
  BY <1>2, CancelledSound
<1> QED
  BY <1>1, <1>2 DEF CallsInv, CallsSound

\* So does cancelling them alone.
LEMMA CallsOnlyCancelled ==
  ASSUME MemoryInv, UNCHANGED <<recs, confirmed>>, task' = Cancelled(task)
  PROVE  CallsInv'
  BY CancelledSound DEF CallsInv, CallsSound

\* And so does a step that moves no call.
LEMMA CallsUntouched ==
  ASSUME MemoryInv, Grows, UNCHANGED task
  PROVE  CallsInv'
  BY CallStaysSound DEF MemoryInv, CallsInv, CallsSound

\* a scan that goes on with its result, and one that draws the screen from it
LEMMA CallAnswered ==
  ASSUME MemoryInv, Grows, NEW t \in Slots, task[t] # Nothing,
         task[t].pc \in ScanAwaits, NEW pc \in {"receipt", "complete"},
         Goto(t, pc), recs'[task[t].s][task[t].n].result # Nothing
  PROVE  CallsInv'
<1> DEFINE c == [task[t] EXCEPT !.pc = pc]
<1>1. task[t] \in CallType /\ CallSound(task[t], recs, confirmed)
  BY DEF MemoryInv, CallsInv, CallsSound
<1>2. c \in CallType /\ c.pc = pc /\ c.op = task[t].op /\ c.s = task[t].s
      /\ c.n = task[t].n
  BY <1>1 DEF CallType, Awaits, ScanAwaits
<1>3. CallSound(c, recs', confirmed')
  BY <1>1, <1>2 DEF CallSound, Paying
<1>4. task' = [task EXCEPT ![t] = c]
  BY DEF Goto, MemoryInv, CallsInv
<1> HIDE DEF c
<1> QED
  BY <1>2, <1>3, <1>4, CallChanges

\* A scan may go on to present any screen: nothing is charged from it as it is.
LEMMA CallPresents ==
  ASSUME MemoryInv, Grows, NEW t \in Slots, task[t] # Nothing,
         task[t].pc \in ScanAwaits, NEW v \in ViewType,
         task' = [task EXCEPT ![t].pc = "present", ![t].view = v]
  PROVE  CallsInv'
<1> DEFINE c == [task[t] EXCEPT !.pc = "present", !.view = v]
<1>1. task[t] \in CallType /\ CallSound(task[t], recs, confirmed)
  BY DEF MemoryInv, CallsInv, CallsSound
<1>2. c \in CallType /\ c.pc = "present" /\ c.op = task[t].op
      /\ c.s = task[t].s /\ c.n = task[t].n
  BY <1>1 DEF CallType, Awaits, ScanAwaits
<1>3. CallSound(c, recs', confirmed')
  BY <1>1, <1>2 DEF CallSound, Paying
<1>4. task' = [task EXCEPT ![t] = c]
  BY DEF MemoryInv, CallsInv
<1> HIDE DEF c
<1> QED
  BY <1>2, <1>3, <1>4, CallChanges

\* the selection laid over the drafts, and the call that will publish it
LEMMA RedrawnType ==
  ASSUME NEW v \in ViewType, NEW o, NEW p \in Products,
         NEW added \in [Products -> 0..MaxManual], NEW drafts,
         drafts = [v.drafts EXCEPT ![o] = IF @ = Absent THEN @ ELSE p]
  PROVE  [v EXCEPT !.drafts = drafts, !.lines = LinesFor(drafts, added)] \in ViewType
<1>1. drafts \in [Objects -> Products \cup {Unknown, Absent}]
  BY DEF ViewType
<1> QED
  BY <1>1, LinesForType DEF ViewType

\* A call may go on to redraw any screen for a session.
LEMMA CallRedraws ==
  ASSUME MemoryInv, Grows, NEW t \in Slots, task[t] # Nothing, NEW v \in ViewType,
         NEW s \in Sessions,
         task' = [task EXCEPT ![t].pc = "redraw", ![t].s = s, ![t].view = v]
  PROVE  CallsInv'
<1> DEFINE c == [task[t] EXCEPT !.pc = "redraw", !.s = s, !.view = v]
<1>1. task[t] \in CallType /\ CallSound(task[t], recs, confirmed)
  BY DEF MemoryInv, CallsInv, CallsSound
<1>2. c \in CallType /\ c.pc = "redraw" /\ c.op = task[t].op
      /\ c.s = s /\ c.n = task[t].n
  BY <1>1 DEF CallType, Awaits, ScanAwaits
<1>3. CallSound(c, recs', confirmed')
  BY <1>1, <1>2 DEF CallSound, ScanAwaits, Paying
<1>4. task' = [task EXCEPT ![t] = c]
  BY DEF MemoryInv, CallsInv
<1> HIDE DEF c
<1> QED
  BY <1>2, <1>3, <1>4, CallChanges

\* a payment commits the order it prepared, or joins the commit in flight
LEMMA CallCommits ==
  ASSUME MemoryInv, Grows, NEW t \in Slots, At(t, "prepare"),
         NEW pc \in {"commit", "join"}, Goto(t, pc)
  PROVE  CallsInv'
<1> DEFINE c == [task[t] EXCEPT !.pc = pc]
<1>1. task[t] \in CallType /\ CallSound(task[t], recs', confirmed')
      /\ task[t].pc = "prepare"
  BY CallStaysSound DEF At, MemoryInv, CallsInv, CallsSound
<1>2. c \in CallType /\ c.pc = pc /\ c.op = task[t].op
      /\ c.s = task[t].s /\ c.n = task[t].n /\ c.view = task[t].view
  BY <1>1 DEF CallType, Awaits, ScanAwaits
<1>3. CallSound(c, recs', confirmed')
  BY <1>1, <1>2 DEF CallSound, ScanAwaits, Paying
<1>4. task' = [task EXCEPT ![t] = c]
  BY DEF Goto, MemoryInv, CallsInv
<1> HIDE DEF c
<1> QED
  BY <1>2, <1>3, <1>4, CallChanges

\* When a payment settles, the calls that joined it return too; the others stay sound.
LEMMA CallsSettle ==
  ASSUME MemoryInv, UNCHANGED <<recs, confirmed>>, NEW t \in Slots, Settled(t)
  PROVE  CallsInv'
  BY DEF Settled, MemoryInv, CallsInv, CallsSound

\* calls that start with more than their name
LEMMA CallStartsWith ==
  ASSUME MemoryInv, Grows, NEW t \in Slots, NEW c \in CallType,
         CallSound(c, recs', confirmed'), Spawn(t, c)
  PROVE  CallsInv'
  BY CallChanges DEF Spawn

\* A scan starts with an attempt of its own and no result to rely on.
LEMMA ScanCallSound ==
  ASSUME ctl \in ControllerType, NEW op \in {"scan", "retry"},
         NEW pc \in ScanAwaits \ {"receipt", "complete"},
         NEW s \in Sessions, NEW n \in Attempts
  PROVE  /\ [Call(op, pc) EXCEPT !.s = s, !.n = n] \in CallType
         /\ CallSound([Call(op, pc) EXCEPT !.s = s, !.n = n], recs, confirmed)
<1> DEFINE c == [Call(op, pc) EXCEPT !.s = s, !.n = n]
<1>1. Call(op, pc) \in CallType /\ Call(op, pc).op = op /\ Call(op, pc).pc = pc
  BY CallTyped DEF Calls, Awaits
<1>2. n \in 0..MaxAttempts
  BY StoreBounds DEF Attempts
<1>3. c \in CallType /\ c.op = op /\ c.pc = pc /\ c.s = s /\ c.n = n
  BY <1>1, <1>2 DEF CallType
<1> QED
  BY <1>3 DEF CallSound, ScanAwaits, Paying

\* The choice of a product starts with an object and a product of the catalogue.
LEMMA ResolveCallSound ==
  ASSUME ctl \in ControllerType, view \in ViewType,
         NEW o \in Objects, NEW p \in Products
  PROVE  LET c == [Call("resolve", "record") EXCEPT !.o = o, !.p = p,
                                                    !.view.scan = view.scan]
         IN  c \in CallType /\ CallSound(c, recs, confirmed)
<1> DEFINE b == Call("resolve", "record")
           c == [b EXCEPT !.o = o, !.p = p, !.view.scan = view.scan]
<1>1. b \in CallType /\ b.op = "resolve" /\ b.pc = "record"
  BY CallTyped, NamesOfCalls
<1> HIDE DEF b
<1>2. c \in CallType /\ c.op = "resolve" /\ c.pc = "record" /\ c.o = o
  BY <1>1 DEF CallType, ViewType
<1>3. CallSound(c, recs, confirmed)
  BY <1>2 DEF CallSound, ScanAwaits, Paying
<1> QED
  BY <1>2, <1>3 DEF b

\* A change of quantity starts with the order it is about to persist.
LEMMA EditCallSound ==
  ASSUME ctl \in ControllerType, NEW lines \in Lines
  PROVE  LET c == [Call("edit", "persist") EXCEPT !.view.lines = lines]
         IN  c \in CallType /\ CallSound(c, recs, confirmed)
<1> DEFINE b == Call("edit", "persist")
           c == [b EXCEPT !.view.lines = lines]
<1>1. b \in CallType /\ b.op = "edit" /\ b.pc = "persist"
  BY CallTyped, NamesOfCalls
<1> HIDE DEF b
<1>2. c \in CallType /\ c.op = "edit" /\ c.pc = "persist"
  BY <1>1 DEF CallType, ViewType
<1>3. CallSound(c, recs, confirmed)
  BY <1>2 DEF CallSound, ScanAwaits, Paying
<1> QED
  BY <1>2, <1>3 DEF b

\* A payment asks for selections of the tray's objects, and starts as a call for its order.
LEMMA UpcomingTyped ==
  ASSUME NEW v, NEW explicit
  PROVE  Upcoming(v, explicit) \subseteq Objects \cup {Nothing}
  BY DEF Upcoming, AutoAccepted

LEMMA PayStarts ==
  ASSUME ctl \in ControllerType, NEW t \in Slots, NEW s \in Sessions, NEW v \in ViewType,
         Prepares(t, s, v)
  PROVE  \E c \in CallType :
           Spawn(t, c) /\ c.op = "pay" /\ c.pc = "prepare" /\ c.s = s /\ c.view = v
<1>1. PICK o \in Objects \cup {Nothing} : Spawn(t, Preparing(s, v, o))
  BY UpcomingTyped DEF Prepares
<1> DEFINE b == Call("pay", "prepare")
           c == [b EXCEPT !.s = s, !.view = v, !.o = o]
<1>2. b \in CallType /\ b.op = "pay" /\ b.pc = "prepare"
  BY CallTyped, NamesOfCalls
<1>3. c = Preparing(s, v, o)
  BY DEF Preparing
<1> HIDE DEF b
<1>4. c \in CallType /\ c.op = "pay" /\ c.pc = "prepare" /\ c.s = s /\ c.view = v
  BY <1>2 DEF CallType
<1> HIDE DEF c
<1> QED
  BY <1>1, <1>3, <1>4

\* A payment starts with an order that was confirmed in its session.
LEMMA PayCallSound ==
  ASSUME ctl \in ControllerType, NEW t \in Slots, NEW s \in Sessions, NEW v \in ViewType,
         NEW conf, v.lines \in conf[s], Prepares(t, s, v)
  PROVE  \E c \in CallType : Spawn(t, c) /\ CallSound(c, recs, conf)
<1>1. PICK c \in CallType :
        Spawn(t, c) /\ c.op = "pay" /\ c.pc = "prepare" /\ c.s = s /\ c.view = v
  BY PayStarts
<1>2. CallSound(c, recs, conf)
  BY <1>1 DEF CallSound, ScanAwaits, Paying
<1> QED
  BY <1>1, <1>2

\* the next selection is asked for by the same call
Accepts(t) == \E o \in Objects \cup {Nothing} : task' = [task EXCEPT ![t].o = o]

LEMMA AcceptsNext ==
  ASSUME MemoryInv, NEW t \in Slots, task[t] # Nothing, Accepts(t)
  PROVE  /\ \A u \in Slots : u # t => task'[u] = task[u]
         /\ task'[t] # Nothing /\ task'[t] \in CallType /\ task'[t].pc = task[t].pc
         /\ task'[t].op = task[t].op /\ task'[t].s = task[t].s /\ task'[t].n = task[t].n
         /\ task'[t].stale = task[t].stale /\ task'[t].view = task[t].view
         /\ task' = [task EXCEPT ![t] = task'[t]]
<1>1. task[t] \in CallType /\ task \in [Slots -> CallType \cup {Nothing}]
  BY DEF MemoryInv, CallsInv
<1>2. PICK o \in Objects \cup {Nothing} : task' = [task EXCEPT ![t].o = o]
  BY DEF Accepts
<1> DEFINE c == [task[t] EXCEPT !.o = o]
<1>3. task' = [task EXCEPT ![t] = c]
  BY <1>1, <1>2
<1>4. /\ c \in CallType /\ c.pc = task[t].pc /\ c.op = task[t].op /\ c.s = task[t].s
      /\ c.n = task[t].n /\ c.stale = task[t].stale /\ c.view = task[t].view
  BY <1>1 DEF CallType
<1> HIDE DEF c
<1>5. task'[t] = c /\ \A u \in Slots : u # t => task'[u] = task[u]
  BY <1>1, <1>3
<1> QED
  BY <1>3, <1>4, <1>5, NothingIsNoCall

LEMMA CallAccepts ==
  ASSUME MemoryInv, Grows, NEW t \in Slots, At(t, "prepare"), Accepts(t)
  PROVE  CallsInv'
<1>1. task[t] \in CallType /\ CallSound(task[t], recs', confirmed')
      /\ task[t].pc = "prepare" /\ task[t] # Nothing
  BY CallStaysSound DEF At, MemoryInv, CallsInv, CallsSound
<1>2. CallSound(task'[t], recs', confirmed')
  BY <1>1, AcceptsNext DEF CallSound, ScanAwaits, Paying
<1> QED
  BY <1>1, <1>2, AcceptsNext, CallChanges

\* A failed scan goes on to abandon the session in use.
Abandons(t) ==
  /\ ctl.active
  /\ task' = [task EXCEPT ![t].pc = "abandonTerminal", ![t].s = ctl.session]

LEMMA AbandonsNext ==
  ASSUME MemoryInv, NEW t \in Slots, task[t] # Nothing, Abandons(t)
  PROVE  /\ \A u \in Slots : u # t => task'[u] = task[u]
         /\ task'[t] # Nothing /\ task'[t] \in CallType /\ task'[t].pc = "abandonTerminal"
         /\ task'[t].op = task[t].op /\ task'[t].s = ctl.session /\ task'[t].n = task[t].n
         /\ task'[t].stale = task[t].stale /\ task'[t].view = task[t].view
         /\ task' = [task EXCEPT ![t] = task'[t]] /\ ctl.session \in Sessions
<1>1. /\ task[t] \in CallType /\ task \in [Slots -> CallType \cup {Nothing}]
      /\ ctl.session \in Sessions /\ "abandonTerminal" \in Awaits
  BY DEF MemoryInv, CallsInv, ControllerInv, Abandons, Awaits
<1> DEFINE c == [task[t] EXCEPT !.pc = "abandonTerminal", !.s = ctl.session]
<1>2. task' = [task EXCEPT ![t] = c]
  BY <1>1 DEF Abandons
<1>3. /\ c \in CallType /\ c.pc = "abandonTerminal" /\ c.op = task[t].op
      /\ c.s = ctl.session /\ c.n = task[t].n /\ c.stale = task[t].stale
      /\ c.view = task[t].view
  BY <1>1 DEF CallType
<1> HIDE DEF c
<1>4. task'[t] = c /\ \A u \in Slots : u # t => task'[u] = task[u]
  BY <1>1, <1>2
<1> QED
  BY <1>1, <1>2, <1>3, <1>4, NothingIsNoCall

LEMMA CallAbandons ==
  ASSUME MemoryInv, Grows, NEW t \in Slots, At(t, "catch"), Abandons(t)
  PROVE  CallsInv'
<1>1. /\ CallSound(task[t], recs, confirmed) /\ task[t] # Nothing
      /\ task[t].op \in {"scan", "retry"}
  BY DEF At, MemoryInv, CallsInv, CallsSound, CallSound, ScanAwaits
<1>2. CallSound(task'[t], recs', confirmed')
  BY <1>1, AbandonsNext DEF CallSound, ScanAwaits, Paying
<1> QED
  BY <1>1, <1>2, AbandonsNext, CallChanges

\* Failures injected never pass their bound.
LEMMA FaultsTyped ==
  ASSUME faults \in 0..MaxFaults, NEW can,
         Works \/ Breaks \/ Throws(can) \/ UNCHANGED faults
  PROVE  faults' \in 0..MaxFaults
  BY CheckoutBounds DEF Works, Breaks, Throws, Fault

\* The count of failed scans stops one past the retry limit.
LEMMA OneMoreTyped ==
  ASSUME ctl \in ControllerType
  PROVE  OneMoreFailure \in 0..(RetryLimit + 1)
  BY StoreBounds DEF OneMoreFailure, ControllerType

\* Emptying the cart changes neither the session nor the frozen order.
LEMMA EmptiedTyped ==
  ASSUME ctl \in ControllerType
  PROVE  /\ Emptied \in ControllerType /\ Emptied.active = ctl.active
         /\ Emptied.session = ctl.session /\ Emptied.frozen = ctl.frozen
  BY NoLinesType DEF Emptied, ControllerType

\* Each write of a recovery record keeps its shape, and its result once it has one.
LEMMA RecoveryTyped ==
  ASSUME NEW g \in RecoveryType
  PROVE  /\ [g EXCEPT !.staged = TRUE] \in RecoveryType
         /\ [g EXCEPT !.staged = TRUE].result = g.result
         /\ [g EXCEPT !.receipt = TRUE] \in RecoveryType
         /\ [g EXCEPT !.receipt = TRUE].result = g.result
         /\ [g EXCEPT !.completed = TRUE] \in RecoveryType
         /\ [g EXCEPT !.completed = TRUE].result = g.result
         /\ \A r \in Results : /\ [g EXCEPT !.result = r] \in RecoveryType
                               /\ [g EXCEPT !.result = r].result # Nothing
  BY CheckoutBounds DEF RecoveryType

\* at most the recovery record of one scan is written, and its result is kept
RecoveryKept(s, n) ==
  UNCHANGED confirmed /\
  \/ UNCHANGED recs
  \/ \E f \in RecoveryType :
       /\ recs' = [recs EXCEPT ![s][n] = f]
       /\ recs[s][n].result # Nothing => f.result # Nothing

\* Such a write removes no result.
LEMMA KeptGrows ==
  ASSUME recs \in [Sessions -> [Attempts -> RecoveryType]],
         confirmed \in [Sessions -> SUBSET Lines],
         NEW s \in Sessions, NEW n \in Attempts, RecoveryKept(s, n)
  PROVE  Grows /\ recs' \in [Sessions -> [Attempts -> RecoveryType]]
<1>1. CASE UNCHANGED recs
  BY <1>1 DEF RecoveryKept, Grows
<1>2. ASSUME NEW f \in RecoveryType, recs' = [recs EXCEPT ![s][n] = f],
             recs[s][n].result # Nothing => f.result # Nothing
      PROVE  Grows /\ recs' \in [Sessions -> [Attempts -> RecoveryType]]
  <2>1. recs' \in [Sessions -> [Attempts -> RecoveryType]]
    BY <1>2
  <2>2. \A u \in Sessions, m \in Attempts :
          recs'[u][m] = IF u = s /\ m = n THEN f ELSE recs[u][m]
    BY <1>2
  <2> QED
    BY <1>2, <2>1, <2>2 DEF RecoveryKept, Grows
<1> QED
  BY <1>1, <1>2 DEF RecoveryKept

-----------------------------------------------------------------------------
(* The controller's memory keeps its shape through every step.             *)

\* What the program holds when it starts is well typed.
LEMMA FreshTyped ==
  /\ Blank("ready", "none") \in ViewType
  /\ FreshController \in ControllerType
  /\ FreshController.active = FALSE /\ FreshController.frozen = Nothing
  /\ FreshRecovery \in RecoveryType /\ FreshScanner \in ScannerType
  BY StoreBounds, NoLinesType, BlankType
     DEF Phases, Codes, FreshController, ControllerType, FreshRecovery, RecoveryType,
         FreshScanner, ScannerType

\* Clearing the controller for a new session keeps the session and thaws the order.
LEMMA ForNewSessionTyped ==
  ASSUME ctl \in ControllerType, NEW t
  PROVE  /\ ForNewSession(t) \in ControllerType
         /\ ForNewSession(t).session = ctl.session
         /\ ForNewSession(t).active = ctl.active
         /\ ForNewSession(t).frozen = Nothing
<1> DEFINE initializing == task[t].op = "initialize"
           f0 == FreshController
           f1 == [f0 EXCEPT !.session = ctl.session, !.active = ctl.active]
           f2 == [f1 EXCEPT !.initialized = TRUE, !.recovered = ctl.recovered]
           f3 == [f2 EXCEPT !.closed = ctl.closed]
           f4 == [f3 EXCEPT !.starting = initializing]
<1>1. f0 \in ControllerType /\ f0.frozen = Nothing
  BY FreshTyped
<1>2. initializing \in BOOLEAN
  OBVIOUS
<1>3. ForNewSession(t) = f4
  BY DEF ForNewSession
<1> HIDE DEF initializing, f0
<1>4. /\ f1 \in ControllerType /\ f1.frozen = Nothing
      /\ f1.session = ctl.session /\ f1.active = ctl.active
  BY <1>1 DEF ControllerType
<1> HIDE DEF f1
<1>5. /\ f2 \in ControllerType /\ f2.frozen = Nothing
      /\ f2.session = ctl.session /\ f2.active = ctl.active
  BY <1>4 DEF ControllerType
<1> HIDE DEF f2
<1>6. /\ f3 \in ControllerType /\ f3.frozen = Nothing
      /\ f3.session = ctl.session /\ f3.active = ctl.active
  BY <1>5 DEF ControllerType
<1> HIDE DEF f3
<1>7. /\ [f3 EXCEPT !.starting = TRUE] \in ControllerType
      /\ [f3 EXCEPT !.starting = TRUE].frozen = Nothing
      /\ [f3 EXCEPT !.starting = TRUE].session = ctl.session
      /\ [f3 EXCEPT !.starting = TRUE].active = ctl.active
  BY <1>6 DEF ControllerType
<1>8. /\ [f3 EXCEPT !.starting = FALSE] \in ControllerType
      /\ [f3 EXCEPT !.starting = FALSE].frozen = Nothing
      /\ [f3 EXCEPT !.starting = FALSE].session = ctl.session
      /\ [f3 EXCEPT !.starting = FALSE].active = ctl.active
  BY <1>6 DEF ControllerType
<1> HIDE DEF ControllerType
<1>9. \/ f4 = [f3 EXCEPT !.starting = TRUE]
      \/ f4 = [f3 EXCEPT !.starting = FALSE]
  BY <1>2
<1> HIDE DEF f4
<1> QED
  BY <1>3, <1>7, <1>8, <1>9

\* Leaving the starting or the active state changes nothing else.
LEMMA ReleasedTyped ==
  ASSUME ctl \in ControllerType
  PROVE  /\ [ctl EXCEPT !.starting = FALSE] \in ControllerType
         /\ [ctl EXCEPT !.active = FALSE, !.starting = FALSE] \in ControllerType
         /\ [ctl EXCEPT !.starting = FALSE].active = ctl.active
         /\ [ctl EXCEPT !.starting = FALSE].session = ctl.session
         /\ [ctl EXCEPT !.starting = FALSE].frozen = ctl.frozen
         /\ [ctl EXCEPT !.active = FALSE, !.starting = FALSE].active = FALSE
         /\ [ctl EXCEPT !.active = FALSE, !.starting = FALSE].frozen = ctl.frozen
  BY DEF ControllerType

\* starting a session
LEMMA SessionStartMemory ==
  ASSUME MemoryInv, NEW t \in Slots, SessionStartStep(t)
  PROVE  MemoryInv'
<1> USE DEF MemoryInv, At, Set, Plain, Awaits, ScanAwaits, Paying, Phases, Codes
<1>1. CASE RecoverAtStartup(t)
  <2>1. CallsInv'
    BY <1>1, NothingAdded, CallMoves, CallReturns DEF RecoverAtStartup
  <2>2. ControllerInv' /\ RestType'
    BY <1>1, FaultsTyped
       DEF RecoverAtStartup, ControllerInv, ControllerType, RestType
  <2> QED
    BY <2>1, <2>2
<1>2. CASE AbandonOld(t)
  <2>1. CallsInv'
    BY <1>2, NothingAdded, CallMoves, CallReturns DEF AbandonOld
  <2>2. ControllerInv' /\ RestType'
    BY <1>2, FaultsTyped DEF AbandonOld, ControllerInv, ControllerType, RestType
  <2> QED
    BY <2>1, <2>2
<1>3. CASE ResetCapture(t)
  <2>1. CallsInv'
    BY <1>3, NothingAdded, CallMoves, CallReturns DEF ResetCapture
  <2>2. ControllerInv' /\ RestType'
    BY <1>3, FaultsTyped, ShowType, BlankType
       DEF ResetCapture, ControllerInv, RestType, ScannerType
  <2> QED
    BY <2>1, <2>2
<1>4. CASE ReadCatalog(t)
  <2>1. CallsInv'
    BY <1>4, NothingAdded, CallMoves, CallReturns DEF ReadCatalog
  <2>2. ControllerInv' /\ RestType'
    BY <1>4, FaultsTyped DEF ReadCatalog, ControllerInv, RestType
  <2> QED
    BY <2>1, <2>2
<1>5. CASE BeginCheckout(t)
  <2>1. CallsInv'
    BY <1>5, NothingAdded, CallMoves, CallReturns DEF BeginCheckout
  <2>2. ControllerInv' /\ RestType'
    BY <1>5, FaultsTyped
       DEF BeginCheckout, ControllerInv, ControllerType, RestType
  <2> QED
    BY <2>1, <2>2
<1>6. CASE ReadSettings(t)
  <2>1. CallsInv'
    BY <1>6, NothingAdded, CallMoves, CallReturns DEF ReadSettings, Opened
  <2>2. ControllerInv'
    BY <1>6, ForNewSessionTyped DEF ReadSettings, ControllerInv
  <2>3. RestType'
    BY <1>6, FaultsTyped, ShowType, BlankType DEF ReadSettings, Opened, RestType
  <2> QED
    BY <2>1, <2>2, <2>3
<1>7. CASE StartScanner(t)
  <2>1. CallsInv'
    BY <1>7, NothingAdded, CallMoves, CallReturns DEF StartScanner, Opened
  <2>2. ControllerInv'
    BY <1>7 DEF StartScanner, ControllerInv, ControllerType
  <2>3. RestType'
    BY <1>7, FaultsTyped, ShowType, BlankType
       DEF StartScanner, Opened, RestType, ScannerType
  <2> QED
    BY <2>1, <2>2, <2>3
<1>8. CASE AbandonStartup(t)
  <2>1. CallsInv'
    BY <1>8, NothingAdded, CallMoves, CallReturns DEF AbandonStartup
  <2>2. ControllerInv'
    BY <1>8 DEF AbandonStartup, ControllerInv, ControllerType
  <2>3. RestType'
    BY <1>8, FaultsTyped, ShowType, BlankType DEF AbandonStartup, RestType
  <2> QED
    BY <2>1, <2>2, <2>3
<1>9. CASE TerminalizeStart(t)
  <2>1. CallsInv'
    BY <1>9, NothingAdded, CallMoves, CallReturns, CallReturns
       DEF TerminalizeStart
  <2>2. ControllerInv'
    BY <1>9, ReleasedTyped DEF TerminalizeStart, ControllerInv
  <2>3. RestType'
    BY <1>9, FaultsTyped, ShowType, BlankType DEF TerminalizeStart, RestType
  <2> QED
    BY <2>1, <2>2, <2>3
<1> QED
  BY <1>1, <1>2, <1>3, <1>4, <1>5, <1>6, <1>7, <1>8, <1>9 DEF SessionStartStep

\* a scan or a retry of one
LEMMA ScanMemory ==
  ASSUME MemoryInv, NEW t \in Slots, ScanStep(t)
  PROVE  MemoryInv'
<1> USE DEF MemoryInv, At, Set, Plain, Awaits, ScanAwaits, Paying, Phases, Codes
<1>1. CASE Capture(t)
  <2>1. CallsInv'
    BY <1>1, NothingAdded, CallMoves, CallReturns DEF Capture
  <2>2. ControllerInv' /\ RestType'
    BY <1>1, FaultsTyped DEF Capture, ControllerInv, RestType, ScannerType
  <2> QED
    BY <2>1, <2>2
<1>2. CASE RetainCapture(t)
  <2>1. CallsInv'
    BY <1>2, NothingAdded, CallMoves, CallReturns
       DEF RetainCapture, ScannerFails
  <2>2. ControllerInv' /\ RestType'
    BY <1>2, FaultsTyped
       DEF RetainCapture, ControllerInv, ScannerFails, RestType, ScannerType
  <2> QED
    BY <2>1, <2>2
<1>3. CASE Stage(t)
  <2>1. /\ task[t] \in CallType /\ CallSound(task[t], recs, confirmed)
        /\ task[t].s \in Sessions /\ task[t].n \in Attempts
    BY <1>3 DEF Stage, CallsInv, CallsSound, CallSound
  <2>2. /\ recs[task[t].s][task[t].n] \in RecoveryType
        /\ sc.result \in Results \cup {Nothing}
    BY <1>3, <2>1 DEF RestType, ScannerType
  <2>3. RecoveryKept(task[t].s, task[t].n)
    BY <1>3, <2>1, <2>2, RecoveryTyped DEF Stage, RecoveryKept
  <2>4. Grows /\ recs' \in [Sessions -> [Attempts -> RecoveryType]]
    BY <1>3, <2>1, <2>2, <2>3, KeptGrows DEF RestType
  <2>5. CallsInv'
    BY <1>3, <2>1, <2>2, <2>3, <2>4, CallMoves, CallReturns
       DEF Stage, ScannerFails
  <2>6. ControllerInv' /\ RestType'
    BY <1>3, <2>1, <2>2, <2>3, <2>4, FaultsTyped
       DEF Stage, ControllerInv, ScannerFails, RestType, ScannerType
  <2> QED
    BY <2>5, <2>6
<1>4. CASE Infer(t)
  <2>1. CallsInv'
    BY <1>4, NothingAdded, CallMoves, CallReturns DEF Infer, ScannerFails
  <2>2. ControllerInv' /\ RestType'
    BY <1>4, FaultsTyped
       DEF Infer, ControllerInv, ScannerFails, RestType, ScannerType
  <2> QED
    BY <2>1, <2>2
<1>5. CASE Analyzed(t)
  <2> DEFINE s == task[t].s
             n == task[t].n
  <2>1. /\ task[t] \in CallType /\ CallSound(task[t], recs, confirmed)
        /\ s \in Sessions /\ n \in Attempts /\ recs[s][n] \in RecoveryType
    BY <1>5 DEF Analyzed, CallsInv, CallsSound, CallSound, RestType
  <2> DEFINE r == IF recs[s][n].result # Nothing THEN recs[s][n].result
                  ELSE sc.result
  <2>2. \/ UNCHANGED recs /\ (Goto(t, "drop") \/ Goto(t, "catch"))
        \/ /\ recs' = [recs EXCEPT ![s][n] = [recs[s][n] EXCEPT !.result = r]]
           /\ r \in Results /\ recs'[s][n].result # Nothing
           /\ Goto(t, "receipt")
    <3>1. r \in Results \cup {Nothing}
      BY <2>1 DEF RestType, RecoveryType, ScannerType
    <3>2. ASSUME recs' = [recs EXCEPT ![s][n].result = r], r \in Results
          PROVE  /\ recs' = [recs EXCEPT ![s][n] = [recs[s][n] EXCEPT !.result = r]]
                 /\ recs'[s][n].result # Nothing
      BY <2>1, <3>2, CheckoutBounds DEF RestType, RecoveryType
    <3> QED
      BY <1>5, <3>1, <3>2 DEF Analyzed
  <2>3. RecoveryKept(s, n)
    <3> DEFINE g == [recs[s][n] EXCEPT !.result = r]
    <3>1. r \in Results => g \in RecoveryType /\ g.result # Nothing
      BY <2>1, RecoveryTyped
    <3>2. UNCHANGED confirmed
      BY <1>5 DEF Analyzed
    <3> QED
      BY <2>2, <3>1, <3>2 DEF RecoveryKept
  <2>4. Grows /\ recs' \in [Sessions -> [Attempts -> RecoveryType]]
    BY <2>1, <2>3, KeptGrows DEF RestType
  <2>5. CallsInv'
    BY <1>5, <2>1, <2>2, <2>4, CallMoves, CallAnswered DEF Analyzed
  <2>6. ControllerInv'
    BY <1>5 DEF Analyzed, ControllerInv
  <2>7. RestType'
    BY <1>5, <2>4, FaultsTyped DEF Analyzed, RestType
  <2> QED
    BY <2>5, <2>6, <2>7
<1>6. CASE RetainReceipt(t)
  <2> DEFINE s == task[t].s
             n == task[t].n
  <2>1. /\ task[t] \in CallType /\ CallSound(task[t], recs, confirmed)
        /\ s \in Sessions /\ n \in Attempts /\ recs[s][n] \in RecoveryType
    BY <1>6 DEF RetainReceipt, CallsInv, CallsSound, CallSound, RestType
  <2>2. recs[s][n].result # Nothing /\ recs'[s][n].result = recs[s][n].result
    <3>1. recs[s][n].result # Nothing
      BY <1>6, <2>1 DEF RetainReceipt, CallSound
    <3>2. recs \in [Sessions -> [Attempts -> RecoveryType]]
      BY DEF RestType
    <3>3. UNCHANGED recs \/ recs' = [recs EXCEPT ![s][n].receipt = TRUE]
      BY <1>6 DEF RetainReceipt
    <3>4. \/ recs'[s][n] = recs[s][n]
          \/ recs'[s][n] = [recs[s][n] EXCEPT !.receipt = TRUE]
      <4>1. CASE recs' = [recs EXCEPT ![s][n].receipt = TRUE]
        BY <2>1, <3>2, <4>1
      <4> QED
        BY <3>3, <4>1
    <3> QED
      BY <2>1, <3>1, <3>4, RecoveryTyped
  <2>3. RecoveryKept(s, n)
    BY <1>6, <2>1, RecoveryTyped DEF RetainReceipt, RecoveryKept
  <2>4. Grows /\ recs' \in [Sessions -> [Attempts -> RecoveryType]]
    BY <2>1, <2>3, KeptGrows DEF RestType
  <2>5. CallsInv'
    BY <1>6, <2>1, <2>2, <2>4, CallMoves, CallAnswered DEF RetainReceipt
  <2>6. ControllerInv'
    BY <1>6 DEF RetainReceipt, ControllerInv
  <2>7. RestType'
    BY <1>6, <2>4, FaultsTyped DEF RetainReceipt, RestType
  <2> QED
    BY <2>5, <2>6, <2>7
<1>7. CASE Complete(t)
  <2> DEFINE s == task[t].s
             n == task[t].n
  <2>1. /\ task[t] \in CallType /\ CallSound(task[t], recs, confirmed)
        /\ s \in Sessions /\ n \in Attempts /\ recs[s][n] \in RecoveryType
    BY <1>7 DEF Complete, CallsInv, CallsSound, CallSound, RestType
  <2>2. Mapped(<<s, n>>, recs[s][n].result) \in ViewType
    BY <1>7, <2>1, MappedType DEF Complete, CallSound, RecoveryType, Scans
  <2>3. RecoveryKept(s, n)
    BY <1>7, <2>1, RecoveryTyped DEF Complete, RecoveryKept
  <2>4. Grows /\ recs' \in [Sessions -> [Attempts -> RecoveryType]]
    BY <2>1, <2>3, KeptGrows DEF RestType
  <2>5. CallsInv'
    BY <1>7, <2>1, <2>2, <2>4, CallMoves, CallPresents DEF Complete
  <2>6. ControllerInv'
    BY <1>7, NoLinesType DEF Complete, ControllerInv, ControllerType
  <2>7. RestType'
    BY <1>7, <2>4, FaultsTyped DEF Complete, RestType
  <2> QED
    BY <2>5, <2>6, <2>7
<1>8. CASE PresentDraft(t)
  <2>1. CallsInv'
    BY <1>8, NothingAdded, CallMoves, CallReturns DEF PresentDraft
  <2>2. ControllerInv' /\ RestType'
    BY <1>8, FaultsTyped DEF PresentDraft, ControllerInv, RestType
  <2> QED
    BY <2>1, <2>2
<1>9. CASE PresentResult(t)
  <2>1. CallsInv'
    BY <1>9, NothingAdded, CallReturns, CallMoves DEF PresentResult
  <2>2. ControllerInv'
    BY <1>9, OneMoreTyped DEF PresentResult, ControllerInv, ControllerType
  <2>3. RestType'
    <3>1. view' \in ViewType
      BY <1>9, ShowType DEF PresentResult, CallsInv, CallType, RestType
    <3>2. sc' \in ScannerType
      BY <1>9 DEF PresentResult, RestType, ScannerType
    <3> QED
      BY <1>9, <3>1, <3>2, FaultsTyped DEF PresentResult, RestType
  <2> QED
    BY <2>1, <2>2, <2>3
<1>10. CASE CatchScan(t)
  <2>1. CallsInv'
    BY <1>10, NothingAdded, CallMoves, CallReturns, CallAbandons DEF CatchScan, Abandons
  <2>2. ControllerInv' /\ RestType'
    BY <1>10, FaultsTyped, ShowType, BlankType
       DEF CatchScan, ControllerInv, RestType
  <2> QED
    BY <2>1, <2>2
<1>11. CASE AbandonTerminal(t)
  <2>1. CallsInv'
    BY <1>11, NothingAdded, CallMoves, CallReturns DEF AbandonTerminal
  <2>2. ControllerInv'
    BY <1>11 DEF AbandonTerminal, ControllerInv, ControllerType
  <2>3. RestType'
    BY <1>11, FaultsTyped, ShowType, BlankType DEF AbandonTerminal, RestType
  <2> QED
    BY <2>1, <2>2, <2>3
<1>12. CASE DropCancelled(t)
  <2>1. CallsInv'
    BY <1>12, NothingAdded, CallMoves, CallReturns DEF DropCancelled
  <2>2. ControllerInv' /\ RestType'
    BY <1>12, FaultsTyped
       DEF DropCancelled, ControllerInv, RestType, ScannerType
  <2> QED
    BY <2>1, <2>2
<1>13. CASE AbandonCancelled(t)
  <2>1. CallsInv'
    BY <1>13, NothingAdded, CallMoves, CallReturns, CallsCancelled
       DEF AbandonCancelled
  <2>2. ControllerInv'
    BY <1>13 DEF AbandonCancelled, ControllerInv, ControllerType
  <2>3. RestType'
    BY <1>13, FaultsTyped, ShowType, BlankType DEF AbandonCancelled, RestType
  <2> QED
    BY <2>1, <2>2, <2>3
<1> QED
  BY <1>1, <1>2, <1>3, <1>4, <1>5, <1>6, <1>7, <1>8, <1>9, <1>10, <1>11, <1>12,
     <1>13
     DEF ScanStep

\* the customer's review
LEMMA ReviewMemory ==
  ASSUME MemoryInv, NEW t \in Slots, ReviewStep(t)
  PROVE  MemoryInv'
<1> USE DEF MemoryInv, At, Set, Plain, Awaits, ScanAwaits, Paying, Phases, Codes
<1>1. CASE PublishMismatch(t)
  <2>1. CallsInv'
    BY <1>1, NothingAdded, CallMoves, CallReturns DEF PublishMismatch
  <2>2. ControllerInv' /\ RestType'
    BY <1>1, FaultsTyped, ShowType, BlankType
       DEF PublishMismatch, ControllerInv, RestType
  <2> QED
    BY <2>1, <2>2
<1>2. CASE EnterManualMode(t)
  <2>1. CallsInv'
    BY <1>2, NothingAdded, CallMoves, CallReturns DEF EnterManualMode
  <2>2. ControllerInv'
    BY <1>2, EmptiedTyped DEF EnterManualMode, ControllerInv
  <2>3. RestType'
    BY <1>2, FaultsTyped, ShowType, BlankType
       DEF EnterManualMode, ManualCartFailure, RestType
  <2> QED
    BY <2>1, <2>2, <2>3
<1>3. CASE EmptyCart(t)
  <2>1. CallsInv'
    BY <1>3, NothingAdded, CallMoves, CallReturns DEF EmptyCart
  <2>2. ControllerInv' /\ RestType'
    BY <1>3, FaultsTyped, ShowType, BlankType
       DEF EmptyCart, ControllerInv, ManualCartFailure, RestType
  <2> QED
    BY <2>1, <2>2
<1>4. CASE RecordChoice(t)
  <2> DEFINE o == task[t].o
             p == task[t].p
             drafts == [view.drafts EXCEPT ![o] = IF @ = Absent THEN @ ELSE p]
             drawn == [view EXCEPT !.drafts = drafts,
                                   !.lines = LinesFor(drafts, ctl.added)]
  <2>1. task[t] # Nothing /\ o \in Objects
    BY <1>4 DEF RecordChoice, CallsInv, CallsSound, CallSound
  <2>2. CallsInv'
    <3>1. CASE Return(t)
      BY <1>4, <3>1, CallReturns, NothingAdded DEF RecordChoice
    <3>2. CASE ~Return(t)
      <4>1. p \in Products
        BY <1>4, <3>2 DEF RecordChoice, CanRecord, CanRecordResolution
      <4>2. drawn \in ViewType
        BY <4>1, RedrawnType DEF RestType, ControllerInv, ControllerType
      <4>3. ctl.session \in Sessions
        BY <1>4, <3>2 DEF RecordChoice, ControllerInv
      <4>4. task' = [task EXCEPT ![t].pc = "redraw", ![t].s = ctl.session,
                                 ![t].view = drawn]
        BY <1>4, <3>2 DEF RecordChoice
      <4> QED
        BY <1>4, <2>1, <4>2, <4>3, <4>4, CallRedraws, NothingAdded DEF RecordChoice
    <3> QED
      BY <3>1, <3>2
  <2>3. ControllerInv'
    BY <1>4, <2>1 DEF RecordChoice, ControllerInv, ControllerType
  <2>4. RestType'
    BY <1>4, FaultsTyped DEF RecordChoice, RestType
  <2> QED
    BY <2>2, <2>3, <2>4
<1>5. CASE PublishChoice(t)
  <2>1. task[t] \in CallType /\ task[t].view \in ViewType
    BY <1>5 DEF PublishChoice, CallsInv, CallType
  <2>2. CallsInv'
    BY <1>5, <2>1, NothingAdded, CallMoves, CallReturns DEF PublishChoice
  <2>3. ControllerInv' /\ RestType'
    BY <1>5, <2>1, FaultsTyped, ShowType
       DEF PublishChoice, ControllerInv, RestType, ViewType
  <2> QED
    BY <2>2, <2>3
<1>6. CASE PublishLines(t)
  <2>1. task[t] \in CallType /\ task[t].view \in ViewType
    BY <1>6 DEF PublishLines, CallsInv, CallType
  <2>2. CallsInv'
    BY <1>6, <2>1, NothingAdded, CallMoves, CallReturns DEF PublishLines
  <2>3. ControllerInv' /\ RestType'
    BY <1>6, <2>1, FaultsTyped, ShowType
       DEF PublishLines, ControllerInv, RestType, ViewType
  <2> QED
    BY <2>2, <2>3
<1> QED
  BY <1>1, <1>2, <1>3, <1>4, <1>5, <1>6 DEF ReviewStep

\* a payment
LEMMA PaymentMemory ==
  ASSUME MemoryInv, NEW t \in Slots, PaymentStep(t)
  PROVE  MemoryInv'
<1> USE DEF MemoryInv, At, Set, Plain, Awaits, ScanAwaits, Paying, Phases, Codes
<1>1. CASE PreparePayment(t)
  <2>1. task[t] \in CallType /\ task[t].view \in ViewType
    BY <1>1 DEF PreparePayment, CallsInv, CallType
  <2>2. CallsInv'
    BY <1>1, <2>1, NothingAdded, CallAccepts, CallReturns, CallCommits, UpcomingTyped
       DEF PreparePayment, Accepts
  <2>3. ControllerInv'
    BY <1>1, <2>1 DEF PreparePayment, ControllerInv, ControllerType, CallType
  <2>4. RestType'
    BY <1>1, <2>1, FaultsTyped, ShowType, RephrasedType
       DEF PreparePayment, PaymentFails, RestType
  <2> QED
    BY <2>2, <2>3, <2>4
<1>2. CASE CommitPayment(t)
  <2>1. PICK last \in LastCallers(t) :
          \/ PaymentSucceeds(last) /\ UNCHANGED faults
          \/ PaymentFails(last) /\ UNCHANGED ctl /\ faults' \in {faults, faults + 1}
    BY <1>2 DEF CommitPayment, Throws, Fault
  <2>2. task[last] \in CallType /\ task[last].view \in ViewType
    BY <1>2 DEF CommitPayment, LastCallers, Joined, CallsInv, CallType
  <2>3. CallsInv'
    BY <1>2, CallsSettle DEF CommitPayment
  <2>4. ControllerInv'
    BY <1>2, <2>1 DEF CommitPayment, PaymentSucceeds, ControllerInv, ControllerType
  <2>5. RestType'
    <3>1. view' \in ViewType
      BY <2>1, <2>2, ShowType, RephrasedType
         DEF PaymentSucceeds, PaymentFails, RestType
    <3>2. faults' \in 0..MaxFaults
      BY <1>2, FaultsTyped DEF CommitPayment, RestType
    <3> QED
      BY <1>2, <3>1, <3>2 DEF CommitPayment, RestType
  <2> QED
    BY <2>3, <2>4, <2>5
<1> QED
  BY <1>1, <1>2 DEF PaymentStep

\* a tap of the customer or the operator
LEMMA CommandMemory ==
  ASSUME MemoryInv, NEW t \in Slots, Command(t)
  PROVE  MemoryInv'
<1> USE DEF MemoryInv, At, Set, Plain, Awaits, ScanAwaits, Paying, Phases, Codes
<1>1. CASE Initialize(t)
  <2>1. CallsInv'
    BY <1>1, NothingAdded, CallMoves, CallReturns, CallStarts
       DEF Initialize, Calls
  <2>2. ControllerInv' /\ RestType'
    BY <1>1, FaultsTyped DEF Initialize, ControllerInv, ControllerType, RestType
  <2> QED
    BY <2>1, <2>2
<1>2. ASSUME NEW op \in {"next", "fresh"}, StartSession(t, op)
      PROVE  MemoryInv'
  <2>1. CallsInv'
    BY <1>2, CallStarts, NothingAdded DEF StartSession, Calls
  <2>2. ControllerInv' /\ RestType'
    BY <1>2 DEF StartSession, ControllerInv, ControllerType, RestType
  <2> QED
    BY <2>1, <2>2
<1>3. CASE Scan(t)
  <2> DEFINE n == ctl.attempt + 1
             pc == IF CanAnalyze THEN "capture" ELSE "catch"
             call == [Call("scan", pc) EXCEPT !.n = n]
  <2>1. ctl.session \in Sessions /\ n \in Attempts
    BY <1>3, StoreBounds DEF Scan, ControllerInv, ControllerType, Attempts
  <2>2. call \in CallType /\ CallSound(call, recs, confirmed)
    <3>1. /\ [Call("scan", pc) EXCEPT !.s = ctl.session, !.n = n] \in CallType
          /\ CallSound([Call("scan", pc) EXCEPT !.s = ctl.session, !.n = n],
                       recs, confirmed)
      BY <2>1, ScanCallSound DEF ControllerInv
    <3>2. Call("scan", pc) \in CallType /\ Call("scan", pc).s = ctl.session
      <4>1. pc \in Awaits /\ "scan" \in Calls
        BY DEF Calls
      <4> QED
        BY <4>1, CallTyped DEF ControllerInv
    <3>3. [Call("scan", pc) EXCEPT !.s = ctl.session, !.n = n] = call
      BY <3>2 DEF CallType
    <3> QED
      BY <3>1, <3>3
  <2>3. task' = [Cancelled(task) EXCEPT ![t] = call]
    BY <1>3 DEF Scan
  <2> HIDE DEF call
  <2>4. CallsInv'
    BY <1>3, <2>2, <2>3, CallsCancelled DEF Scan
  <2>5. ControllerInv'
    <3>1. n \in 0..MaxAttempts /\ <<ctl.session, n>> \in Scans
      BY <2>1, StoreBounds DEF Attempts, Scans
    <3>2. ctl' = [ctl EXCEPT !.attempt = n, !.rec = <<ctl.session, n>>]
      BY <1>3 DEF Scan
    <3> QED
      BY <1>3, <3>1, <3>2 DEF Scan, ControllerInv, ControllerType
  <2>6. RestType'
    BY <1>3, ShowType, BlankType DEF Scan, Analyzing, RestType, ScannerType
  <2> QED
    BY <2>4, <2>5, <2>6
<1>4. CASE RetryScan(t)
  <2> DEFINE call(pc) == [Call("retry", pc) EXCEPT !.s = ctl.rec[1], !.n = ctl.rec[2]]
  <2>1. ctl.rec[1] \in Sessions /\ ctl.rec[2] \in Attempts
    BY <1>4 DEF RetryScan, ControllerInv, ControllerType, Scans
  <2>2. \A pc \in {"analyzed", "catch", "infer", "retain"} :
          call(pc) \in CallType /\ CallSound(call(pc), recs, confirmed)
    BY <2>1, ScanCallSound DEF ControllerInv
  <2>3. \/ UNCHANGED task
        \/ \E pc \in {"analyzed", "catch", "infer", "retain"} : Spawn(t, call(pc))
    BY <1>4 DEF RetryScan
  <2> HIDE DEF call
  <2>4. CallsInv'
    BY <1>4, <2>2, <2>3, CallStartsWith, CallsUntouched, NothingAdded DEF RetryScan
  <2>5. ControllerInv'
    BY <1>4 DEF RetryScan, ControllerInv, ControllerType
  <2>6. RestType'
    <3>1. view' \in ViewType
      BY <1>4, ShowType, BlankType DEF RetryScan, RestType
    <3>2. sc' \in ScannerType
      BY <1>4 DEF RetryScan, Analyzing, RestType, ScannerType
    <3> QED
      BY <1>4, <3>1, <3>2 DEF RetryScan, RestType
  <2> QED
    BY <2>4, <2>5, <2>6
<1>5. CASE CancelScan(t)
  <2>1. CallsInv'
    BY <1>5, NothingAdded, CallMoves, CallReturns, CallStarts, CallsOnlyCancelled
       DEF CancelScan, Calls
  <2>2. ControllerInv' /\ RestType'
    BY <1>5, FaultsTyped, ShowType, BlankType
       DEF CancelScan, ControllerInv, RestType
  <2> QED
    BY <2>1, <2>2
<1>6. CASE Retake(t)
  <2>1. CallsInv'
    BY <1>6, NothingAdded, CallMoves, CallReturns, CallStarts DEF Retake, Calls
  <2>2. ControllerInv' /\ RestType'
    BY <1>6, FaultsTyped DEF Retake, ControllerInv, RestType
  <2> QED
    BY <2>1, <2>2
<1>7. ASSUME NEW op \in {"mismatch", "restart"}, ReportCountMismatch(t, op)
      PROVE  MemoryInv'
  <2>1. CallsInv'
    BY <1>7, CallStarts, CallsUntouched, NothingAdded DEF ReportCountMismatch, Calls
  <2>2. ControllerInv' /\ RestType'
    BY <1>7, OneMoreTyped, NoLinesType
       DEF ReportCountMismatch, ControllerInv, ControllerType, RestType
  <2> QED
    BY <2>1, <2>2
<1>8. CASE EnterManualCart(t)
  <2>1. CallsInv'
    BY <1>8, NothingAdded, CallMoves, CallReturns, CallStarts, CallsUntouched
       DEF EnterManualCart, StartManualCart, Calls
  <2>2. ControllerInv'
    BY <1>8, EmptiedTyped DEF EnterManualCart, StartManualCart, ControllerInv
  <2>3. RestType'
    BY <1>8, FaultsTyped, ShowType, BlankType
       DEF EnterManualCart, ManualCartFailure, RestType
  <2> QED
    BY <2>1, <2>2, <2>3
<1>9. CASE RetryManualCart(t)
  <2>1. CallsInv'
    BY <1>9, NothingAdded, CallMoves, CallReturns, CallStarts, CallsUntouched
       DEF RetryManualCart, StartManualCart, Calls
  <2>2. ControllerInv'
    BY <1>9, EmptiedTyped DEF RetryManualCart, StartManualCart, ControllerInv
  <2>3. RestType'
    BY <1>9, FaultsTyped DEF RetryManualCart, RestType
  <2> QED
    BY <2>1, <2>2, <2>3
<1>10. ASSUME NEW o \in Objects, NEW p \in Products, Choose(t, o, p)
      PROVE  MemoryInv'
  <2>1. CallsInv'
    BY <1>10, ResolveCallSound, CallStartsWith, NothingAdded
       DEF Choose, ControllerInv, RestType
  <2>2. ControllerInv' /\ RestType'
    BY <1>10 DEF Choose, ControllerInv, RestType
  <2> QED
    BY <2>1, <2>2
<1>11. ASSUME NEW o \in Objects, NEW p \in Products, OverrideResolvedProduct(t, o, p)
      PROVE  MemoryInv'
  <2>1. CallsInv'
    BY <1>11, ResolveCallSound, CallStartsWith, NothingAdded
       DEF OverrideResolvedProduct, ControllerInv, RestType
  <2>2. ControllerInv' /\ RestType'
    BY <1>11 DEF OverrideResolvedProduct, ControllerInv, RestType
  <2> QED
    BY <2>1, <2>2
<1>12. ASSUME NEW p \in Products, NEW units \in 0..MaxManual, EditQuantity(t, p, units)
      PROVE  MemoryInv'
  <2>1. ctl' \in ControllerType /\ ControllerInv'
    BY <1>12 DEF EditQuantity, ControllerInv, ControllerType
  <2>2. LinesFor(view.drafts, ctl'.added) \in Lines
    BY <2>1, LinesForType DEF ControllerType
  <2>3. CallsInv'
    BY <1>12, <2>2, EditCallSound, CallStartsWith, CallsUntouched, NothingAdded
       DEF EditQuantity, ControllerInv
  <2>4. RestType'
    BY <1>12 DEF EditQuantity, RestType
  <2> QED
    BY <2>1, <2>3, <2>4
<1>13. CASE Pay(t)
  <2>1. ctl.session \in Sessions /\ view.lines \in Lines
    BY <1>13 DEF Pay, ControllerInv, RestType, ViewType
  <2>2. /\ Grows /\ confirmed' \in [Sessions -> SUBSET Lines]
        /\ view.lines \in confirmed'[ctl.session]
    BY <1>13, <2>1 DEF Pay, Grows, RestType
  <2>3. CallsInv'
    <3>1. PICK c \in CallType : Spawn(t, c) /\ CallSound(c, recs, confirmed')
      BY <1>13, <2>1, <2>2, PayCallSound DEF Pay, ControllerInv, RestType
    <3>2. UNCHANGED recs
      BY <1>13 DEF Pay
    <3> QED
      BY <2>2, <3>1, <3>2, CallStartsWith
  <2>4. ControllerInv'
    BY <1>13, <2>1, <2>2 DEF Pay, ControllerInv, ControllerType, RestType
  <2>5. RestType'
    BY <1>13, <2>2, ShowType, RephrasedType DEF Pay, RestType
  <2> QED
    BY <2>3, <2>4, <2>5
<1>14. CASE RetryPayment(t)
  <2>1. /\ ctl.frozen.s \in Sessions /\ ctl.frozen.review \in ViewType
        /\ ctl.frozen.review.lines \in confirmed[ctl.frozen.s]
    BY <1>14 DEF RetryPayment, ControllerInv, ControllerType
  <2>2. CallsInv'
    <3>1. PICK c \in CallType : Spawn(t, c) /\ CallSound(c, recs, confirmed)
      BY <1>14, <2>1, PayCallSound DEF RetryPayment, ControllerInv
    <3>2. Grows /\ UNCHANGED <<recs, confirmed>>
      BY <1>14, NothingAdded DEF RetryPayment
    <3> QED
      BY <3>1, <3>2, CallStartsWith
  <2>3. ControllerInv' /\ RestType'
    BY <1>14, <2>1, ShowType, RephrasedType DEF RetryPayment, ControllerInv, RestType
  <2> QED
    BY <2>2, <2>3
<1>15. CASE EnterAdmin(t)
  <2>1. CallsInv'
    BY <1>15, NothingAdded, CallMoves, CallReturns, CallStarts, CallsUntouched
       DEF EnterAdmin, Calls
  <2>2. ControllerInv' /\ RestType'
    BY <1>15, FaultsTyped DEF EnterAdmin, ControllerInv, RestType
  <2> QED
    BY <2>1, <2>2
<1>16. CASE Close(t)
  <2>1. CallsInv'
    BY <1>16, NothingAdded, CallMoves, CallReturns, CallStarts DEF Close, Calls
  <2>2. ControllerInv' /\ RestType'
    BY <1>16, FaultsTyped DEF Close, ControllerInv, ControllerType, RestType
  <2> QED
    BY <2>1, <2>2
<1> QED
  BY <1>1, <1>2, <1>3, <1>4, <1>5, <1>6, <1>7, <1>8, <1>9, <1>10, <1>11, <1>12,
     <1>13, <1>14, <1>15, <1>16
     DEF Command, StartNextCustomer, StartFreshCustomerSession

\* leaving for the administrator, and closing
LEMMA AbandonMemory ==
  ASSUME MemoryInv, NEW t \in Slots, AbandonForAdmin(t) \/ AbandonClosed(t)
  PROVE  MemoryInv'
<1> USE DEF MemoryInv, At, Set, Plain, Awaits, ScanAwaits, Paying, Phases, Codes
<1>1. CASE AbandonForAdmin(t)
  <2>1. CallsInv'
    BY <1>1, NothingAdded, CallMoves, CallReturns, CallsCancelled
       DEF AbandonForAdmin
  <2>2. ControllerInv' /\ RestType'
    BY <1>1, FaultsTyped
       DEF AbandonForAdmin, ControllerInv, ControllerType, RestType
  <2> QED
    BY <2>1, <2>2
<1>2. CASE AbandonClosed(t)
  <2>1. CallsInv'
    BY <1>2, NothingAdded, CallMoves, CallReturns DEF AbandonClosed
  <2>2. ControllerInv' /\ RestType'
    BY <1>2, FaultsTyped
       DEF AbandonClosed, ControllerInv, ControllerType, RestType
  <2> QED
    BY <2>1, <2>2
<1> QED
  BY <1>1, <1>2

\* the actions that are not a step of a call; the process that starts after a
\* crash remembers nothing
LEMMA LoseDeviceMemory == MemoryInv /\ LoseDevice => MemoryInv'
<1> SUFFICES ASSUME MemoryInv, LoseDevice PROVE MemoryInv'
  OBVIOUS
<1>1. CallsInv' /\ ControllerInv'
  BY CallsUntouched, NothingAdded DEF LoseDevice, MemoryInv, ControllerInv
<1>2. RestType'
  BY FaultsTyped DEF LoseDevice, MemoryInv, RestType, ScannerType
<1> QED
  BY <1>1, <1>2 DEF MemoryInv

\* A restart forgets every call and the whole of the controller's memory.
LEMMA RestartMemory == MemoryInv /\ Restart => MemoryInv'
<1> SUFFICES ASSUME MemoryInv, Restart PROVE MemoryInv'
  OBVIOUS
<1>1. faults' \in 0..MaxFaults /\ confirmed' \in [Sessions -> SUBSET Lines]
  BY FaultsTyped DEF Restart, MemoryInv, RestType
<1> QED
  BY <1>1, FreshTyped
     DEF Restart, MemoryInv, CallsInv, CallsSound, ControllerInv, RestType

\* The invariant of the memory holds at the start.
LEMMA MemoryInit == CheckoutInit => MemoryInv
  BY FreshTyped, CheckoutBounds
     DEF CheckoutInit, MemoryInv, CallsInv, CallsSound, ControllerInv, RestType

\* Every step, of any call, keeps it.
LEMMA MemoryStep == MemoryInv /\ [Next]_vars => MemoryInv'
<1> SUFFICES ASSUME MemoryInv, [Next]_vars PROVE MemoryInv'
  OBVIOUS
<1>1. CASE UNCHANGED vars
  <2>1. CallsInv'
    BY <1>1, CallsUntouched, NothingAdded DEF vars, checkoutVars
  <2>2. ControllerInv' /\ RestType'
    BY <1>1 DEF vars, checkoutVars, MemoryInv, ControllerInv, RestType
  <2> QED
    BY <2>1, <2>2 DEF MemoryInv
<1>2. ASSUME NEW t \in Slots, Command(t) \/ Step(t) PROVE MemoryInv'
  BY <1>2, CommandMemory, SessionStartMemory, ScanMemory, ReviewMemory,
     PaymentMemory, AbandonMemory DEF Step
<1> QED
  BY <1>1, <1>2, LoseDeviceMemory, RestartMemory DEF Next

-----------------------------------------------------------------------------
(* Every step is a transaction of the audit store or leaves it alone.      *)


\* all of them but the commit leave the payments alone
QuietStep == UNCHANGED storeVars \/ (StoreNext /\ UNCHANGED payment)

\* the transactions, as the controller calls them
LEMMA QuietCalls ==
  /\ UNCHANGED storeVars \/ RecoverInterruptedCheckout => QuietStep
  /\ \A s : BeginSession(s) \/ AbandonSession(s) \/ EnterManualCartMode(s) => QuietStep
  /\ \A s : \A n \in Attempts : StageAttempt(s, n) => QuietStep
  /\ \A s : \A n \in Attempts, r \in Results : CompleteAttempt(s, n, r) => QuietStep
  /\ \A s, n, p : \A o \in Objects : RecordResolution(s, n, o, p) => QuietStep
  /\ \A s : \A lines \in Lines : ReplaceDraftOrder(s, lines) => QuietStep
<1>1. UNCHANGED storeVars \/ RecoverInterruptedCheckout => QuietStep
  BY DEF QuietStep, StoreNext, RecoverInterruptedCheckout
<1>2. ASSUME NEW s, BeginSession(s) \/ AbandonSession(s) \/ EnterManualCartMode(s)
      PROVE  QuietStep
  BY <1>2 DEF QuietStep, StoreNext, BeginSession, CanBeginSession, AbandonSession,
     CanAbandonSession, EnterManualCartMode, CanEnterManualCart, IsActive
<1>3. ASSUME NEW s, NEW n \in Attempts, StageAttempt(s, n) PROVE QuietStep
  BY <1>3 DEF QuietStep, StoreNext, StageAttempt, CanStageAttempt, IsActive
<1>4. ASSUME NEW s, NEW n \in Attempts, NEW r \in Results, CompleteAttempt(s, n, r)
      PROVE  QuietStep
  BY <1>4 DEF QuietStep, StoreNext, CompleteAttempt, CanCompleteAttempt, IsActive
<1>5. ASSUME NEW s, NEW n, NEW o \in Objects, NEW p, RecordResolution(s, n, o, p)
      PROVE  QuietStep
  BY <1>5 DEF QuietStep, StoreNext, RecordResolution, CanRecordResolution, IsActive,
     IsLatest, CompletedAttempts
<1>6. ASSUME NEW s, NEW lines \in Lines, ReplaceDraftOrder(s, lines) PROVE QuietStep
  BY <1>6 DEF QuietStep, StoreNext, ReplaceDraftOrder, CanReplaceDraft, IsActive
<1> QED
  BY <1>1, <1>2, <1>3, <1>4, <1>5, <1>6

\* Starting a session pays for nothing.
LEMMA SessionStartQuiet ==
  ASSUME NEW t \in Slots, SessionStartStep(t)
  PROVE  QuietStep
  BY QuietCalls
     DEF SessionStartStep, RecoverAtStartup, AbandonOld, ResetCapture, ReadCatalog,
         BeginCheckout, ReadSettings, StartScanner, AbandonStartup,
         TerminalizeStart, Works, Breaks, Throws

\* A scan pays for nothing: what it completes has the result its receipt holds.
LEMMA ScanQuiet ==
  ASSUME MemoryInv, NEW t \in Slots, ScanStep(t)
  PROVE  QuietStep
<1>1. task[t] # Nothing =>
        /\ task[t].view.lines \in Lines
        /\ task[t].pc \in ScanAwaits => task[t].s \in Sessions /\ task[t].n \in Attempts
        /\ task[t].pc = "complete" => recs[task[t].s][task[t].n].result # Nothing
  BY DEF MemoryInv, CallsInv, CallsSound, CallSound, CallType, ViewType
<1>2. CASE Stage(t)
  BY <1>1, <1>2, QuietCalls DEF Stage, Throws, At, ScanAwaits
<1>3. CASE Complete(t)
  <2>1. task[t].pc = "complete" /\ task[t].s \in Sessions /\ task[t].n \in Attempts
    BY <1>1, <1>3 DEF Complete, At, ScanAwaits
  <2>2. recs[task[t].s][task[t].n] \in RecoveryType
    BY <2>1 DEF MemoryInv, RestType
  <2>3. recs[task[t].s][task[t].n].result \in Results
    BY <1>1, <1>3, <2>1, <2>2 DEF RecoveryType, Complete, At
  <2> QED
    BY <1>3, <2>1, <2>3, QuietCalls DEF Complete, Throws
<1>4. CASE PresentDraft(t)
  BY <1>1, <1>4, QuietCalls DEF PresentDraft, Throws, At
<1> QED
  BY <1>2, <1>3, <1>4, QuietCalls
     DEF ScanStep, Capture, RetainCapture, Infer, Analyzed, RetainReceipt,
         PresentResult, CatchScan, AbandonTerminal, DropCancelled, AbandonCancelled,
         Works, Breaks, Throws

\* Reviewing the order pays for nothing.
LEMMA ReviewQuiet ==
  ASSUME MemoryInv, NEW t \in Slots, ReviewStep(t)
  PROVE  QuietStep
<1>1. task[t] # Nothing =>
        /\ task[t].view.lines \in Lines
        /\ task[t].pc = "record" => task[t].o \in Objects
  BY DEF MemoryInv, CallsInv, CallsSound, CallSound, CallType, ViewType
<1>2. CASE RecordChoice(t)
  BY <1>1, <1>2, QuietCalls DEF RecordChoice, Throws, At
<1>3. CASE PublishChoice(t) \/ PublishLines(t)
  BY <1>1, <1>3, QuietCalls DEF PublishChoice, PublishLines, Throws, At
<1>4. CASE PublishMismatch(t) \/ EnterManualMode(t) \/ EmptyCart(t)
  BY <1>4, NoLinesType, QuietCalls DEF PublishMismatch, EnterManualMode, EmptyCart, Throws
<1> QED
  BY <1>2, <1>3, <1>4 DEF ReviewStep

\* Recording the accepted suggestions before a payment pays for nothing.
LEMMA PrepareQuiet ==
  ASSUME MemoryInv, NEW t \in Slots, PreparePayment(t)
  PROVE  QuietStep
<1>1. task[t].view.lines \in Lines /\ task[t].o \in Objects \cup {Nothing}
  BY DEF PreparePayment, At, MemoryInv, CallsInv, CallType, ViewType
<1> QED
  BY <1>1, QuietCalls DEF PreparePayment, Throws

\* Pressing a button writes nothing to the store before its first await.
LEMMA CommandQuiet ==
  ASSUME NEW t \in Slots, Command(t)
  PROVE  UNCHANGED storeVars
  BY DEF Command, Initialize, StartNextCustomer, StartFreshCustomerSession,
     StartSession, Scan, RetryScan, CancelScan, Retake, ReportCountMismatch,
     EnterManualCart, RetryManualCart, Choose, OverrideResolvedProduct, EditQuantity,
     Pay, RetryPayment, EnterAdmin, Close

\* a step commits a confirmed order or is quiet
LEMMA StoreSteps ==
  ASSUME MemoryInv, [Next]_vars
  PROVE  \/ QuietStep
         \/ \E s \in Sessions, lines \in Lines :
              CommitSimulatedPayment(s, lines) /\ lines \in confirmed[s]
<1>1. CASE UNCHANGED vars
  BY <1>1 DEF vars, QuietStep
<1>2. CASE LoseDevice \/ Restart
  BY <1>2, QuietCalls DEF LoseDevice, Restart, Breaks
<1>3. ASSUME NEW t \in Slots, Command(t) PROVE QuietStep
  BY <1>3, CommandQuiet, QuietCalls
<1>4. ASSUME NEW t \in Slots, AbandonForAdmin(t) \/ AbandonClosed(t) PROVE QuietStep
  BY <1>4, QuietCalls DEF AbandonForAdmin, AbandonClosed, Works, Throws
<1>5. ASSUME NEW t \in Slots, CommitPayment(t), ~QuietStep
      PROVE  \E s \in Sessions, lines \in Lines :
               CommitSimulatedPayment(s, lines) /\ lines \in confirmed[s]
  <2>1. /\ task[t].s \in Sessions /\ task[t].view.lines \in Lines
        /\ task[t].view.lines \in confirmed[task[t].s]
    BY <1>5 DEF CommitPayment, At, MemoryInv, CallsInv, CallsSound, CallSound, Paying,
       CallType, ViewType
  <2> QED
    BY <1>5, <2>1, QuietCalls DEF CommitPayment, Throws
<1> QED
  BY <1>1, <1>2, <1>3, <1>4, <1>5, SessionStartQuiet, ScanQuiet, ReviewQuiet,
     PrepareQuiet DEF Next, Step, PaymentStep

-----------------------------------------------------------------------------
(* The theorems.                                                           *)

\* The controller, whatever is interleaved with it, uses the audit store only
\* through the store's transactions, and every other step leaves it alone.
LEMMA StoreStep == MemoryInv /\ [Next]_vars => [StoreNext]_storeVars
<1> SUFFICES ASSUME MemoryInv, [Next]_vars PROVE [StoreNext]_storeVars
  OBVIOUS
<1> QED
  BY StoreSteps DEF QuietStep, StoreNext

\* The inductive invariant of the controller's memory.
THEOREM MemoryInvariant == Spec => []MemoryInv
  BY MemoryInit, MemoryStep, PTL DEF Spec

\* The rows the checkout writes are a behaviour of the audit store on its own:
\* everything proved of the store for any caller holds for this one.
THEOREM CheckoutRefinesStore == Spec => StoreSpec
<1>1. CheckoutInit => StoreInit
  BY DEF CheckoutInit
<1> QED
  BY <1>1, StoreStep, MemoryInvariant, PTL DEF Spec, StoreSpec

\* With the store, the whole checkout implements the session ledger: through
\* every interleaving, failure and restart a session is settled at most once,
\* never after it was discarded, and its order is never revised.
THEOREM CheckoutImplementsLedger == Spec => ImplementsLedger
  BY CheckoutRefinesStore, StoreImplementsLedger

\* What is proved of the store holds in the running system.
THEOREM CheckoutKeepsPromises ==
  Spec => [](PaidIffCompleted /\ PaidOrderJustified /\ EvidenceSupported)
<1>1. StoreInv => PaidIffCompleted /\ PaidOrderJustified /\ EvidenceSupported
  BY DEF StoreInv
<1> QED
  BY <1>1, CheckoutRefinesStore, StoreInvariant, PTL

\* The state of the controller, the scanner, the pending calls and the database
\* keeps its shape.
THEOREM CheckoutTypeCorrect == Spec => []CheckoutTypeOK
<1>1. StoreTypeOK /\ MemoryInv => CheckoutTypeOK
  BY DEF MemoryInv, CallsInv, ControllerInv, RestType, CheckoutTypeOK
<1> QED
  BY <1>1, CheckoutRefinesStore, StoreTypeCorrect, MemoryInvariant, PTL

\* A confirmation is never taken back.
LEMMA ConfirmedGrows ==
  ASSUME MemoryInv, [Next]_vars, NEW s \in Sessions
  PROVE  confirmed[s] \subseteq confirmed'[s]
<1>1. ASSUME NEW t \in Slots, Pay(t) PROVE confirmed[s] \subseteq confirmed'[s]
  BY <1>1 DEF Pay, MemoryInv, RestType
<1>2. ASSUME NEW t \in Slots, Command(t), ~Pay(t) PROVE UNCHANGED confirmed
  BY <1>2 DEF Command, Initialize, StartNextCustomer, StartFreshCustomerSession,
     StartSession, Scan, RetryScan, CancelScan, Retake, ReportCountMismatch,
     EnterManualCart, RetryManualCart, Choose, OverrideResolvedProduct, EditQuantity,
     RetryPayment, EnterAdmin, Close
<1>3. ASSUME NEW t \in Slots, Step(t) PROVE UNCHANGED confirmed
  BY <1>3 DEF Step, SessionStartStep, RecoverAtStartup, AbandonOld, ResetCapture,
     ReadCatalog, BeginCheckout, ReadSettings, StartScanner, AbandonStartup,
     TerminalizeStart, ScanStep, Capture, RetainCapture, Stage, Infer, Analyzed,
     RetainReceipt, Complete, PresentDraft, PresentResult, CatchScan,
     AbandonTerminal, DropCancelled, AbandonCancelled, ReviewStep, PublishMismatch,
     EnterManualMode, EmptyCart, RecordChoice, PublishChoice, PublishLines,
     PaymentStep, PreparePayment, CommitPayment, AbandonForAdmin,
     AbandonClosed
<1> QED
  BY <1>1, <1>2, <1>3 DEF Next, LoseDevice, Restart, vars, checkoutVars

\* Every step keeps paid orders among the confirmed ones.
LEMMA ConfirmedStep ==
  StoreTypeOK /\ MemoryInv /\ PaidOrderWasConfirmed /\ [Next]_vars
    => PaidOrderWasConfirmed'
<1> SUFFICES ASSUME StoreTypeOK, MemoryInv, PaidOrderWasConfirmed, [Next]_vars,
                    NEW s \in Sessions, AlreadyPaid(s)'
             PROVE  payment'[s] \in confirmed'[s]
  BY DEF PaidOrderWasConfirmed
<1>1. confirmed[s] \subseteq confirmed'[s]
  BY ConfirmedGrows
<1>2. CASE payment'[s] = payment[s]
  BY <1>1, <1>2 DEF PaidOrderWasConfirmed, AlreadyPaid
<1>3. CASE payment'[s] # payment[s]
  <2>1. PICK u \in Sessions, lines \in Lines :
          CommitSimulatedPayment(u, lines) /\ lines \in confirmed[u]
    BY <1>3, StoreSteps DEF QuietStep, storeVars
  <2>2. u = s /\ payment'[s] = lines
    BY <1>3, <2>1 DEF CommitSimulatedPayment, StoreTypeOK
  <2> QED
    BY <1>1, <2>1, <2>2
<1> QED
  BY <1>2, <1>3

\* No customer is ever charged for an order that was not on the screen when pay
\* was pressed in that session: however calls interleave, fail or are retried,
\* the frozen order is what is committed.
THEOREM CheckoutPaidOrderWasConfirmed == Spec => []PaidOrderWasConfirmed
<1>1. CheckoutInit => PaidOrderWasConfirmed
  BY DEF CheckoutInit, StoreInit, PaidOrderWasConfirmed, AlreadyPaid
<1> QED
  BY <1>1, ConfirmedStep, CheckoutRefinesStore, StoreTypeCorrect, MemoryInvariant, PTL
     DEF Spec


-----------------------------------------------------------------------------
(* Which session is open.  The database, the flags of the controller and    *)
(* the calls in flight are three records of it; the invariant ties them     *)
(* together.                                                               *)

Starting == {"recover", "abandonOld", "reset", "catalog", "begin", "settings",
             "scanner", "abandonStartup", "terminalize"}

\* the part a call has in opening, settling and closing a session
Role(c) ==
  IF c = Nothing THEN "other"
  ELSE IF c.pc \in Starting /\ c.op \in {"retake", "restart"}
    THEN IF c.pc = "reset" THEN "other" ELSE "misplaced"
  ELSE IF c.pc \in Starting \cup {"commit", "close"} THEN c.pc
  ELSE "other"

\* the sessions the controller or a call still refers to
Held(s) ==
  \/ ctl.session = s
  \/ ctl.frozen # Nothing /\ ctl.frozen.s = s
  \/ ctl.rec # Nothing /\ ctl.rec[1] = s
  \/ \E t \in Slots : task[t] # Nothing /\ task[t].s = s

\* one call at a time starts a session, and the reservation says whether one does
Reserved ==
  /\ \A t, u \in Slots :
       Role(task[t]) \in Starting /\ Role(task[u]) \in Starting => t = u
  /\ ctl.starting <=> \E t \in Slots : Role(task[t]) \in Starting
  /\ \A t \in Slots : Role(task[t]) # "misplaced"

\* a session is recovered or begun only where none is in use
Unoccupied ==
  /\ \A t \in Slots : Role(task[t]) \in {"recover", "begin"} => ~ctl.active
  /\ ~ctl.initialized => ~ctl.active /\ ~ctl.starting

\* the session in use is active in the database; of the others none is that the
\* controller can still reach, and after recovery, or without any failure, none
Known ==
  /\ ctl.active => sessionState[ctl.session] = "active"
  /\ \A s \in Sessions : Held(s) => sessionState[s] # "none"
  /\ \A s \in Sessions :
       (Held(s) \/ ctl.recovered \/ faults = 0) /\ sessionState[s] = "active"
         => ctl.active /\ s = ctl.session

\* one payment is committed at a time, of a session not paid yet
Committing ==
  /\ \A t, u \in Slots :
       Role(task[t]) = "commit" /\ Role(task[u]) = "commit" => t = u
  /\ \A t \in Slots : Role(task[t]) = "commit" => ~AlreadyPaid(task[t].s)

\* once closed, a session is left in use only while close waits to abandon it
Closing ==
  ctl.closed /\ faults = 0 =>
    \/ \E t \in Slots : Role(task[t]) = "close"
    \/ ~ctl.active /\ ~ctl.starting

OpenInv == Reserved /\ Unoccupied /\ Known /\ Committing /\ Closing

-----------------------------------------------------------------------------
(* What a step does to the roles of the calls.                             *)

\* no call turns up with a session nothing referred to, nor at a commit of
\* another session than the one it was prepared for
Orderly ==
  /\ \A u \in Slots, s \in Sessions :
       task'[u] # Nothing /\ task'[u].s = s => Held(s)
  /\ \A u \in Slots : Role(task'[u]) = "commit" => task'[u].s = task[u].s

Becomes(t, r) ==
  /\ Orderly
  /\ \A u \in Slots : Role(task'[u]) = IF u = t THEN r ELSE Role(task[u])

\* A call that goes on keeps its session; its new await decides its role.
LEMMA RoleMoves ==
  ASSUME MemoryInv, NEW t \in Slots, task[t] # Nothing, NEW pc \in Awaits, Goto(t, pc)
  PROVE  /\ Becomes(t, Role(task'[t]))
         /\ task'[t] # Nothing /\ task'[t].pc = pc /\ task'[t].op = task[t].op
<1>1. task[t] \in CallType /\ task' = [task EXCEPT ![t] = [task[t] EXCEPT !.pc = pc]]
  BY DEF MemoryInv, CallsInv, Goto
<1>2. /\ \A u \in Slots : u # t => task'[u] = task[u]
      /\ task'[t] = [task[t] EXCEPT !.pc = pc]
  BY <1>1 DEF MemoryInv, CallsInv
<1>3. /\ task'[t] \in CallType /\ task'[t].pc = pc /\ task'[t].op = task[t].op
      /\ task'[t].s = task[t].s
  BY <1>1, <1>2 DEF CallType
<1>4. task'[t] # Nothing
  BY <1>3, NothingIsNoCall
<1>5. Orderly
  BY <1>2, <1>3, <1>4 DEF Orderly, Held
<1> QED
  BY <1>2, <1>3, <1>4, <1>5 DEF Becomes

\* A call that returns has no role any more.
LEMMA RoleReturns ==
  ASSUME MemoryInv, NEW t \in Slots, Return(t)
  PROVE  Becomes(t, "other")
<1>1. \A u \in Slots : task'[u] = IF u = t THEN Nothing ELSE task[u]
  BY DEF Return, MemoryInv, CallsInv
<1> QED
  BY <1>1 DEF Becomes, Orderly, Role, Held

\* A new call refers to a session that was referred to.
LEMMA RoleStarts ==
  ASSUME MemoryInv, NEW t \in Slots, NEW c \in CallType, c.s \in Sessions => Held(c.s),
         Role(c) # "commit", Spawn(t, c)
  PROVE  Becomes(t, Role(c)) /\ Role(task[t]) = "other"
<1>1. task[t] = Nothing /\ \A u \in Slots : task'[u] = IF u = t THEN c ELSE task[u]
  BY DEF Spawn, MemoryInv, CallsInv
<1> QED
  BY <1>1 DEF Becomes, Orderly, Role, Held

\* Cancelling the scans in flight changes no role and no session.
LEMMA RoleCancelled ==
  ASSUME MemoryInv, NEW u \in Slots
  PROVE  /\ Role(Cancelled(task)[u]) = Role(task[u])
         /\ Cancelled(task)[u] = Nothing <=> task[u] = Nothing
         /\ task[u] # Nothing => Cancelled(task)[u].s = task[u].s
<1>1. CASE task[u] # Nothing /\ task[u].op = "scan"
  <2>1. task[u] \in CallType
    BY <1>1 DEF MemoryInv, CallsInv
  <2>2. /\ Cancelled(task)[u] = [task[u] EXCEPT !.stale = TRUE]
        /\ Cancelled(task)[u] \in CallType
        /\ Cancelled(task)[u].pc = task[u].pc /\ Cancelled(task)[u].op = task[u].op
        /\ Cancelled(task)[u].s = task[u].s
    BY <1>1, <2>1 DEF Cancelled, CallType
  <2> QED
    BY <1>1, <2>2, NothingIsNoCall DEF Role
<1>2. CASE ~(task[u] # Nothing /\ task[u].op = "scan")
  BY <1>2 DEF Cancelled
<1> QED
  BY <1>1, <1>2

\* one call ends as another one did, while the scans in flight are cancelled
LEMMA RoleCancels ==
  ASSUME MemoryInv, NEW t \in Slots, NEW c \in CallType \cup {Nothing},
         c # Nothing /\ c.s \in Sessions => Held(c.s),
         Role(c) # "commit", task' = [Cancelled(task) EXCEPT ![t] = c]
  PROVE  Becomes(t, Role(c))
<1>1. \A u \in Slots : task'[u] = IF u = t THEN c ELSE Cancelled(task)[u]
  BY CancelledSound
<1>2. \A u \in Slots : u # t => Role(task'[u]) = Role(task[u])
  BY <1>1, RoleCancelled
<1>3. ASSUME NEW u \in Slots, NEW s \in Sessions, task'[u] # Nothing, task'[u].s = s
      PROVE  Held(s)
  BY <1>1, <1>3, RoleCancelled DEF Held
<1>4. ASSUME NEW u \in Slots, Role(task'[u]) = "commit" PROVE task'[u].s = task[u].s
  BY <1>1, <1>4, RoleCancelled DEF Role
<1> QED
  BY <1>1, <1>2, <1>3, <1>4 DEF Becomes, Orderly

-----------------------------------------------------------------------------
(* Steps that are calm: they open, settle and close no session.            *)

\* the flags of the controller that say which session is in use
FlagsKept ==
  /\ ctl'.session = ctl.session /\ ctl'.active = ctl.active
  /\ ctl'.starting = ctl.starting /\ ctl'.recovered = ctl.recovered
  /\ ctl'.initialized = ctl.initialized /\ ctl'.closed = ctl.closed

\* the frozen order and the scan to recover are those of sessions referred to
Remembers ==
  /\ ctl'.frozen # Nothing => ctl'.frozen = ctl.frozen \/ ctl'.frozen.s = ctl.session
  /\ ctl'.rec # Nothing => ctl'.rec = ctl.rec \/ ctl'.rec[1] = ctl.session

RolesKept == Orderly /\ \A u \in Slots : Role(task'[u]) = Role(task[u])

\* no session's state and no payment changes
LedgerKept == UNCHANGED <<sessionState, payment>>

Calm == RolesKept /\ FlagsKept /\ Remembers /\ LedgerKept /\ faults' >= faults

\* What an orderly step refers to was referred to before.
LEMMA HeldBefore ==
  ASSUME Orderly, Remembers, NEW s \in Sessions,
         ctl'.session = s => Held(s), Held(s)'
  PROVE  Held(s)
  BY DEF Orderly, Remembers, Held

\* A call of no role that gets none changes no roles.
LEMMA RolesStay ==
  ASSUME NEW t \in Slots, Role(task[t]) = "other", Becomes(t, "other")
  PROVE  RolesKept
  BY DEF Becomes, RolesKept

\* A calm step keeps the invariant.
LEMMA CalmKeeps ==
  ASSUME MemoryInv, OpenInv, Calm
  PROVE  OpenInv'
<1> USE DEF Calm, FlagsKept, RolesKept, LedgerKept
<1>1. Reserved' /\ Unoccupied'
  BY DEF OpenInv, Reserved, Unoccupied
<1>2. \A s \in Sessions : Held(s)' => Held(s)
  BY HeldBefore DEF Held
<1>3. faults' = 0 => faults = 0
  BY DEF MemoryInv, RestType
<1>4. Known'
  BY <1>2, <1>3 DEF OpenInv, Known
<1>5. Committing'
  BY DEF OpenInv, Committing, Orderly, AlreadyPaid
<1>6. Closing'
  BY <1>3 DEF OpenInv, Closing
<1> QED
  BY <1>1, <1>4, <1>5, <1>6 DEF OpenInv

\* The transactions that change no session's state and no payment.
LEMMA LedgerKeepers ==
  /\ \A s, n : StageAttempt(s, n) => LedgerKept
  /\ \A s, n, r : CompleteAttempt(s, n, r) => LedgerKept
  /\ \A s, n, o, p : RecordResolution(s, n, o, p) => LedgerKept
  /\ \A s, lines : ReplaceDraftOrder(s, lines) => LedgerKept
  /\ \A s : EnterManualCartMode(s) => LedgerKept
  /\ UNCHANGED storeVars => LedgerKept
  BY DEF LedgerKept, StageAttempt, CompleteAttempt, RecordResolution,
     ReplaceDraftOrder, EnterManualCartMode, storeVars

\* No step makes failures undone.
LEMMA FaultsMount ==
  ASSUME MemoryInv, NEW can,
         Works \/ Breaks \/ Throws(can) \/ UNCHANGED faults
  PROVE  faults' >= faults
  BY CheckoutBounds DEF MemoryInv, RestType, Works, Breaks, Throws, Fault

\* the awaits of calls without a role
Plainly == Awaits \ (Starting \cup {"commit", "close"})

\* A call without a role goes on without one,
LEMMA RolelessMoves ==
  ASSUME MemoryInv, NEW t \in Slots, task[t] # Nothing, Role(task[t]) = "other",
         NEW pc \in Plainly, Goto(t, pc)
  PROVE  RolesKept
<1>1. Becomes(t, Role(task'[t])) /\ task'[t].pc = pc
  BY RoleMoves DEF Plainly
<1>2. Role(task'[t]) = "other"
  BY <1>1 DEF Role, Plainly
<1> QED
  BY <1>1, <1>2, RolesStay

\* returns,
LEMMA RolelessReturns ==
  ASSUME MemoryInv, NEW t \in Slots, Role(task[t]) = "other", Return(t)
  PROVE  RolesKept
  BY RoleReturns, RolesStay

\* starts,
LEMMA RolelessStarts ==
  ASSUME MemoryInv, NEW t \in Slots, NEW c \in CallType,
         c.s \in Sessions => Held(c.s), Role(c) = "other", Spawn(t, c)
  PROVE  RolesKept
  BY RoleStarts, RolesStay

\* or changes in more than its await.
LEMMA RolelessChanges ==
  ASSUME MemoryInv, NEW t \in Slots, Role(task[t]) = "other",
         NEW c, c.s \in Sessions => Held(c.s), Role(c) = "other",
         task' = [task EXCEPT ![t] = c]
  PROVE  RolesKept
<1>1. \A u \in Slots : task'[u] = IF u = t THEN c ELSE task[u]
  BY DEF MemoryInv, CallsInv
<1> QED
  BY <1>1 DEF RolesKept, Orderly, Held, Role

\* A scan opens and closes nothing, as long as the scanner is not lost for good.
LEMMA ScanCalm ==
  ASSUME MemoryInv, NEW t \in Slots, ScanStep(t),
         ~AbandonTerminal(t), ~AbandonCancelled(t)
  PROVE  Calm
<1> USE DEF At, Works, Breaks, Throws, ScannerFails
<1>1. CASE Capture(t)
  <2>1. RolesKept
    BY <1>1, RolelessMoves DEF Capture, Role, Starting, Plainly, Awaits, ScanAwaits
  <2> QED
    BY <1>1, <2>1, FaultsMount, LedgerKeepers
       DEF Capture, Calm, FlagsKept, Remembers
<1>2. CASE RetainCapture(t)
  <2>1. RolesKept
    BY <1>2, RolelessMoves DEF RetainCapture, Role, Starting, Plainly, Awaits, ScanAwaits
  <2> QED
    BY <1>2, <2>1, FaultsMount, LedgerKeepers
       DEF RetainCapture, Calm, FlagsKept, Remembers
<1>3. CASE Stage(t)
  <2>1. RolesKept
    BY <1>3, RolelessMoves DEF Stage, Role, Starting, Plainly, Awaits, ScanAwaits
  <2> QED
    BY <1>3, <2>1, FaultsMount, LedgerKeepers
       DEF Stage, Calm, FlagsKept, Remembers
<1>4. CASE Infer(t)
  <2>1. RolesKept
    BY <1>4, RolelessMoves DEF Infer, Role, Starting, Plainly, Awaits, ScanAwaits
  <2> QED
    BY <1>4, <2>1, FaultsMount, LedgerKeepers
       DEF Infer, Calm, FlagsKept, Remembers
<1>5. CASE Analyzed(t)
  <2>1. RolesKept
    BY <1>5, RolelessMoves DEF Analyzed, Role, Starting, Plainly, Awaits, ScanAwaits
  <2> QED
    BY <1>5, <2>1, FaultsMount, LedgerKeepers
       DEF Analyzed, Calm, FlagsKept, Remembers
<1>6. CASE RetainReceipt(t)
  <2>1. RolesKept
    BY <1>6, RolelessMoves
       DEF RetainReceipt, Role, Starting, Plainly, Awaits, ScanAwaits
  <2> QED
    BY <1>6, <2>1, FaultsMount, LedgerKeepers
       DEF RetainReceipt, Calm, FlagsKept, Remembers
<1>7. CASE Complete(t)
  <2> DEFINE v == Mapped(<<task[t].s, task[t].n>>, recs[task[t].s][task[t].n].result)
             c == [task[t] EXCEPT !.pc = "present", !.view = v]
  <2>1. task[t] \in CallType
    BY <1>7 DEF Complete, MemoryInv, CallsInv
  <2>2. c.pc = "present" /\ c.s = task[t].s
    BY <2>1 DEF CallType
  <2>3. Role(task[t]) = "other" /\ Role(c) = "other"
    BY <1>7, <2>2 DEF Complete, Role, Starting
  <2>4. \/ task' = [task EXCEPT ![t] = c]
        \/ Goto(t, "catch")
    BY <1>7 DEF Complete, MemoryInv, CallsInv
  <2> HIDE DEF c
  <2>5. task[t].s \in Sessions => Held(task[t].s)
    BY <1>7 DEF Complete, Held
  <2>6. RolesKept
    BY <1>7, <2>2, <2>3, <2>4, <2>5, RolelessChanges, RolelessMoves
       DEF Complete, Plainly, Starting, Awaits, ScanAwaits
  <2>7. FlagsKept /\ Remembers
    BY <1>7 DEF Complete, FlagsKept, Remembers, MemoryInv, ControllerInv, ControllerType
  <2> QED
    BY <1>7, <2>6, <2>7, FaultsMount, LedgerKeepers DEF Complete, Calm
<1>8. CASE PresentDraft(t)
  <2>1. RolesKept
    BY <1>8, RolelessMoves
       DEF PresentDraft, Role, Starting, Plainly, Awaits, ScanAwaits
  <2> QED
    BY <1>8, <2>1, FaultsMount, LedgerKeepers
       DEF PresentDraft, Calm, FlagsKept, Remembers
<1>9. CASE PresentResult(t)
  <2>1. RolesKept
    BY <1>9, RolelessMoves, RolelessReturns
       DEF PresentResult, Role, Starting, Plainly, Awaits, ScanAwaits
  <2>2. FlagsKept /\ Remembers
    BY <1>9 DEF PresentResult, FlagsKept, Remembers, MemoryInv, ControllerInv,
       ControllerType
  <2> QED
    BY <1>9, <2>1, <2>2, FaultsMount, LedgerKeepers DEF PresentResult, Calm
<1>10. CASE CatchScan(t)
  <2>1. RolesKept
    <3>1. CASE Abandons(t)
      <4>1. task[t] # Nothing /\ Role(task[t]) = "other"
        BY <1>10 DEF CatchScan, At, Role, Starting
      <4>2. Role(task'[t]) = "other" /\ Held(task'[t].s)
        BY <3>1, <4>1, AbandonsNext DEF Role, Starting, Held
      <4> QED
        BY <3>1, <4>1, <4>2, AbandonsNext, RolelessChanges
    <3> QED
      BY <1>10, <3>1, RolelessMoves, RolelessReturns
         DEF CatchScan, Abandons, Role, Starting, Plainly, Awaits, ScanAwaits
  <2> QED
    BY <1>10, <2>1, FaultsMount, LedgerKeepers
       DEF CatchScan, Calm, FlagsKept, Remembers
<1>11. CASE DropCancelled(t)
  <2>1. RolesKept
    BY <1>11, RolelessReturns DEF DropCancelled, Role, Starting
  <2> QED
    BY <1>11, <2>1, FaultsMount, LedgerKeepers
       DEF DropCancelled, Calm, FlagsKept, Remembers
<1> QED
  BY <1>1, <1>2, <1>3, <1>4, <1>5, <1>6, <1>7, <1>8, <1>9, <1>10, <1>11 DEF ScanStep


\* Reviewing the order opens and closes nothing.
LEMMA ReviewCalm ==
  ASSUME MemoryInv, NEW t \in Slots, ReviewStep(t)
  PROVE  Calm
<1> USE DEF At, Works, Breaks, Throws
<1>1. CASE PublishMismatch(t)
  <2>1. CASE Goto(t, "reset") /\ task[t].op = "restart"
    <3>1. Becomes(t, Role(task'[t])) /\ task'[t].pc = "reset" /\ task'[t].op = "restart"
      BY <1>1, <2>1, RoleMoves DEF PublishMismatch, Awaits
    <3>2. Role(task[t]) = "other" /\ Role(task'[t]) = "other"
      BY <1>1, <3>1 DEF PublishMismatch, Role, Starting
    <3> QED
      BY <1>1, <3>1, <3>2, RolesStay, FaultsMount, LedgerKeepers
         DEF PublishMismatch, Calm, FlagsKept, Remembers
  <2>2. CASE Return(t)
    <3>1. RolesKept
      BY <1>1, <2>2, RolelessReturns DEF PublishMismatch, Role, Starting
    <3> QED
      BY <1>1, <3>1, FaultsMount, LedgerKeepers
         DEF PublishMismatch, Calm, FlagsKept, Remembers
  <2> QED
    BY <1>1, <2>1, <2>2 DEF PublishMismatch
<1>2. CASE EnterManualMode(t)
  <2>1. RolesKept
    BY <1>2, RolelessMoves, RolelessReturns
       DEF EnterManualMode, Role, Starting, Plainly, Awaits, ScanAwaits
  <2>2. FlagsKept /\ Remembers
    BY <1>2 DEF EnterManualMode, Emptied, FlagsKept, Remembers, MemoryInv,
       ControllerInv, ControllerType
  <2> QED
    BY <1>2, <2>1, <2>2, FaultsMount, LedgerKeepers DEF EnterManualMode, Calm
<1>3. CASE EmptyCart(t)
  <2>1. RolesKept
    BY <1>3, RolelessReturns DEF EmptyCart, Role, Starting
  <2> QED
    BY <1>3, <2>1, FaultsMount, LedgerKeepers
       DEF EmptyCart, Calm, FlagsKept, Remembers
<1>4. CASE RecordChoice(t)
  <2> DEFINE o == task[t].o
             p == task[t].p
             drafts == [view.drafts EXCEPT ![o] = IF @ = Absent THEN @ ELSE p]
             v == [view EXCEPT !.drafts = drafts, !.lines = LinesFor(drafts, ctl.added)]
             c == [task[t] EXCEPT !.pc = "redraw", !.s = ctl.session, !.view = v]
  <2>1. task[t] \in CallType
    BY <1>4 DEF RecordChoice, MemoryInv, CallsInv
  <2>2. c.pc = "redraw" /\ c.s = ctl.session
    BY <2>1 DEF CallType
  <2>3. Role(task[t]) = "other" /\ Role(c) = "other"
    BY <1>4, <2>2 DEF RecordChoice, Role, Starting
  <2>4. task' = [task EXCEPT ![t] = c] \/ Return(t)
    BY <1>4 DEF RecordChoice, MemoryInv, CallsInv
  <2> HIDE DEF c
  <2>5. RolesKept
    BY <2>2, <2>3, <2>4, RolelessChanges, RolelessReturns DEF Held
  <2>6. FlagsKept /\ Remembers
    BY <1>4 DEF RecordChoice, Set, FlagsKept, Remembers, MemoryInv, ControllerInv,
       ControllerType
  <2> QED
    BY <1>4, <2>5, <2>6, FaultsMount, LedgerKeepers DEF RecordChoice, Calm
<1>5. CASE PublishChoice(t)
  <2>1. RolesKept
    BY <1>5, RolelessReturns DEF PublishChoice, Role, Starting
  <2> QED
    BY <1>5, <2>1, FaultsMount, LedgerKeepers
       DEF PublishChoice, Calm, FlagsKept, Remembers
<1>6. CASE PublishLines(t)
  <2>1. RolesKept
    BY <1>6, RolelessReturns DEF PublishLines, Role, Starting
  <2> QED
    BY <1>6, <2>1, FaultsMount, LedgerKeepers
       DEF PublishLines, Calm, FlagsKept, Remembers
<1> QED
  BY <1>1, <1>2, <1>3, <1>4, <1>5, <1>6 DEF ReviewStep

\* the commands that start, close or leave no session
QuietCommand(t) ==
  \/ Scan(t) \/ RetryScan(t) \/ CancelScan(t) \/ Retake(t)
  \/ \E op \in {"mismatch", "restart"} : ReportCountMismatch(t, op)
  \/ EnterManualCart(t) \/ RetryManualCart(t)
  \/ \E o \in Objects, p \in Products :
       Choose(t, o, p) \/ OverrideResolvedProduct(t, o, p)
  \/ \E p \in Products, units \in 0..MaxManual : EditQuantity(t, p, units)
  \/ Pay(t) \/ RetryPayment(t) \/ EnterAdmin(t)

\* A call for the session in use, of an await without a role, has none.
LEMMA RolelessCall ==
  ASSUME MemoryInv, NEW op \in Calls, NEW pc \in Plainly
  PROVE  /\ Call(op, pc) \in CallType /\ Role(Call(op, pc)) = "other"
         /\ Call(op, pc).s \in Sessions => Held(Call(op, pc).s)
<1>1. /\ Call(op, pc) \in CallType /\ Call(op, pc).pc = pc
      /\ Call(op, pc).s = ctl.session
  BY CallTyped DEF Plainly, MemoryInv, ControllerInv
<1> QED
  BY <1>1 DEF Role, Plainly, Held

\* Such a call starts.
LEMMA RolelessSpawn ==
  ASSUME MemoryInv, NEW t \in Slots, NEW op \in Calls, NEW pc \in Plainly,
         Spawn(t, Call(op, pc))
  PROVE  RolesKept
  BY RolelessCall, RolelessStarts


\* Pressing any other button opens and closes nothing yet.
LEMMA CommandCalm ==
  ASSUME MemoryInv, NEW t \in Slots, QuietCommand(t)
  PROVE  Calm
<1>0. LedgerKept /\ faults' >= faults
  <2>1. Command(t)
    BY DEF QuietCommand, Command
  <2>2. UNCHANGED storeVars
    BY <2>1, CommandQuiet
  <2>3. UNCHANGED faults
    BY DEF QuietCommand, Scan, RetryScan, CancelScan, Retake, ReportCountMismatch,
       EnterManualCart, RetryManualCart, Choose, OverrideResolvedProduct,
       EditQuantity, Pay, RetryPayment, EnterAdmin
  <2> QED
    BY <2>2, <2>3, LedgerKeepers, FaultsMount
<1>1. /\ ctl \in ControllerType /\ view \in ViewType
      /\ task \in [Slots -> CallType \cup {Nothing}]
  BY DEF MemoryInv, CallsInv, ControllerInv, RestType
<1> USE DEF Set, Calm
<1>2. UNCHANGED task => RolesKept
  BY DEF RolesKept, Orderly, Held
<1>3. UNCHANGED ctl => FlagsKept /\ Remembers
  BY DEF FlagsKept, Remembers
<1>4. CASE Scan(t)
  <2> DEFINE pc == IF CanAnalyze THEN "capture" ELSE "catch"
             c == [Call("scan", pc) EXCEPT !.n = ctl.attempt + 1]
  <2>1. pc \in Plainly /\ "scan" \in Calls
    BY DEF Plainly, Starting, Awaits, ScanAwaits, Calls
  <2>2. Call("scan", pc) \in CallType /\ Call("scan", pc).pc = pc
        /\ Call("scan", pc).s = ctl.session
    BY <1>1, <2>1, CallTyped DEF Plainly
  <2>3. c.pc = pc /\ c.s = ctl.session
    BY <2>2 DEF CallType
  <2>4. task' = [Cancelled(task) EXCEPT ![t] = c] /\ task[t] = Nothing
    BY <1>4 DEF Scan
  <2>5. Role(c) = "other" /\ Role(task[t]) = "other"
    BY <2>1, <2>3, <2>4 DEF Role, Plainly
  <2>6. ctl.session \in Sessions => Held(ctl.session)
    BY DEF Held
  <2> HIDE DEF c
  <2>7. c \in CallType \cup {Nothing}
    <3>1. task'[t] = c /\ MemoryInv'
      BY <1>4, <2>4, CancelledSound, CommandMemory DEF Command
    <3> QED
      BY <3>1 DEF MemoryInv, CallsInv
  <2>8. Becomes(t, Role(c))
    BY <2>3, <2>4, <2>5, <2>6, <2>7, RoleCancels
  <2>9. FlagsKept /\ Remembers
    BY <1>1, <1>4 DEF Scan, FlagsKept, Remembers, ControllerType
  <2> QED
    BY <1>0, <2>5, <2>8, <2>9, RolesStay
<1>5. CASE RetryScan(t)
  <2> DEFINE call(pc) == [Call("retry", pc) EXCEPT !.s = ctl.rec[1], !.n = ctl.rec[2]]
  <2>1. ASSUME NEW pc \in {"analyzed", "catch", "infer", "retain"}, Spawn(t, call(pc))
        PROVE  RolesKept
    <3>1. pc \in Plainly /\ "retry" \in Calls
      BY DEF Plainly, Starting, Awaits, ScanAwaits, Calls
    <3>2. Call("retry", pc) \in CallType /\ Call("retry", pc).pc = pc
      BY <1>1, <3>1, CallTyped DEF Plainly
    <3>3. call(pc).pc = pc /\ call(pc).s = ctl.rec[1]
      BY <3>2 DEF CallType
    <3>4. Role(call(pc)) = "other" /\ Role(task[t]) = "other"
      BY <2>1, <3>1, <3>3 DEF Role, Plainly, Spawn
    <3>5. ctl.rec[1] \in Sessions => Held(ctl.rec[1])
      BY <1>5 DEF RetryScan, Held
    <3>6. task' = [task EXCEPT ![t] = call(pc)]
      BY <2>1 DEF Spawn
    <3> HIDE DEF call
    <3> QED
      BY <3>3, <3>4, <3>5, <3>6, RolelessChanges
  <2>2. \/ UNCHANGED task
        \/ \E pc \in {"analyzed", "catch", "infer", "retain"} : Spawn(t, call(pc))
    BY <1>5 DEF RetryScan
  <2>3. FlagsKept /\ Remembers
    BY <1>1, <1>5 DEF RetryScan, FlagsKept, Remembers, ControllerType
  <2> QED
    BY <1>0, <1>2, <2>1, <2>2, <2>3
<1>6. CASE CancelScan(t)
  <2>1. ASSUME task' = Cancelled(task) PROVE RolesKept
    <3>1. \A u \in Slots : Role(task'[u]) = Role(task[u])
      BY <2>1, RoleCancelled
    <3>2. ASSUME NEW u \in Slots, NEW s \in Sessions, task'[u] # Nothing, task'[u].s = s
          PROVE  Held(s)
      BY <2>1, <3>2, RoleCancelled DEF Held
    <3>3. ASSUME NEW u \in Slots, Role(task'[u]) = "commit" PROVE task'[u].s = task[u].s
      BY <2>1, <3>3, RoleCancelled DEF Role
    <3> QED
      BY <3>1, <3>2, <3>3 DEF RolesKept, Orderly
  <2>2. Spawn(t, Call("cancel", "cancel")) => RolesKept
    BY RolelessSpawn DEF Plainly, Starting, Awaits, Calls
  <2> QED
    BY <1>0, <1>3, <1>6, <2>1, <2>2 DEF CancelScan
<1>7. CASE Retake(t)
  <2> DEFINE c == Call("retake", "reset")
  <2>1. c \in CallType /\ c.op = "retake" /\ c.pc = "reset" /\ c.s = ctl.session
    BY <1>1, CallTyped DEF Calls, Awaits
  <2>2. Role(c) = "other" /\ (c.s \in Sessions => Held(c.s)) /\ Spawn(t, c)
    BY <1>7, <2>1 DEF Role, Held, Retake
  <2> HIDE DEF c
  <2>3. RolesKept
    BY <2>1, <2>2, RolelessStarts
  <2> QED
    BY <1>0, <1>3, <1>7, <2>3 DEF Retake
<1>8. ASSUME NEW op \in {"mismatch", "restart"}, ReportCountMismatch(t, op)
      PROVE  Calm
  <2>1. Spawn(t, Call(op, "mismatch")) => RolesKept
    BY RolelessSpawn DEF Plainly, Starting, Awaits, Calls
  <2>2. FlagsKept /\ Remembers
    BY <1>1, <1>8 DEF ReportCountMismatch, FlagsKept, Remembers, ControllerType
  <2> QED
    BY <1>0, <1>2, <1>8, <2>1, <2>2 DEF ReportCountMismatch
<1>9. CASE EnterManualCart(t) \/ RetryManualCart(t)
  <2>1. StartManualCart(t)
    BY <1>9 DEF EnterManualCart, RetryManualCart
  <2>2. \A pc \in {"emptyCart", "enterManual"} : Spawn(t, Call("manual", pc)) => RolesKept
    BY RolelessSpawn DEF Plainly, Starting, Awaits, Calls
  <2>3. RolesKept
    BY <1>2, <2>1, <2>2 DEF StartManualCart
  <2>4. FlagsKept /\ Remembers
    BY <1>1, <2>1 DEF StartManualCart, Emptied, FlagsKept, Remembers, ControllerType
  <2> QED
    BY <1>0, <2>3, <2>4
<1>10. ASSUME NEW o \in Objects, NEW p \in Products,
              Choose(t, o, p) \/ OverrideResolvedProduct(t, o, p)
       PROVE  Calm
  <2> DEFINE c == [Call("resolve", "record") EXCEPT !.o = o, !.p = p,
                                                    !.view.scan = view.scan]
  <2>1. "record" \in Plainly /\ "resolve" \in Calls
    BY DEF Plainly, Starting, Awaits, Calls
  <2>2. Call("resolve", "record") \in CallType
        /\ Call("resolve", "record").pc = "record"
        /\ Call("resolve", "record").s = ctl.session
    BY <1>1, <2>1, CallTyped DEF Plainly
  <2>3. c.pc = "record" /\ c.s = ctl.session
    BY <2>2 DEF CallType
  <2>4. Role(c) = "other" /\ (c.s \in Sessions => Held(c.s))
    BY <2>3 DEF Role, Starting, Held
  <2>5. task[t] = Nothing /\ task' = [task EXCEPT ![t] = c]
    BY <1>10 DEF Choose, OverrideResolvedProduct, Spawn
  <2> HIDE DEF c
  <2>6. RolesKept
    BY <2>4, <2>5, RolelessChanges DEF Role
  <2> QED
    BY <1>0, <1>3, <1>10, <2>6 DEF Choose, OverrideResolvedProduct
<1>11. ASSUME NEW p \in Products, NEW units \in 0..MaxManual, EditQuantity(t, p, units)
       PROVE  Calm
  <2> DEFINE c == [Call("edit", "persist") EXCEPT
                     !.view.lines = LinesFor(view.drafts, ctl'.added)]
  <2>1. "persist" \in Plainly /\ "edit" \in Calls
    BY DEF Plainly, Starting, Awaits, Calls
  <2>2. Call("edit", "persist") \in CallType /\ Call("edit", "persist").pc = "persist"
        /\ Call("edit", "persist").s = ctl.session
    BY <1>1, <2>1, CallTyped DEF Plainly
  <2>3. c.pc = "persist" /\ c.s = ctl.session
    BY <2>2 DEF CallType
  <2>4. Role(c) = "other" /\ (c.s \in Sessions => Held(c.s))
    BY <2>3 DEF Role, Starting, Held
  <2>5. UNCHANGED task \/ Spawn(t, c)
    BY <1>11 DEF EditQuantity
  <2> HIDE DEF c
  <2>6. RolesKept
    BY <1>2, <2>4, <2>5, RolelessChanges DEF Role, Spawn
  <2>7. FlagsKept /\ Remembers
    BY <1>1, <1>11 DEF EditQuantity, FlagsKept, Remembers, ControllerType
  <2> QED
    BY <1>0, <2>6, <2>7
<1>12. CASE Pay(t)
  <2>1. ctl.session \in Sessions /\ view \in ViewType
    BY <1>12 DEF Pay, MemoryInv, ControllerInv, RestType
  <2>2. PICK c \in CallType : Spawn(t, c) /\ c.pc = "prepare" /\ c.s = ctl.session
    BY <1>1, <1>12, <2>1, PayStarts DEF Pay
  <2>3. Role(c) = "other" /\ (c.s \in Sessions => Held(c.s))
    BY <2>2 DEF Role, Starting, Held
  <2>4. RolesKept
    BY <2>2, <2>3, RolelessChanges DEF Role, Spawn
  <2>5. FlagsKept /\ Remembers
    BY <1>1, <1>12 DEF Pay, FlagsKept, Remembers, ControllerType
  <2> QED
    BY <1>0, <2>4, <2>5
<1>13. CASE RetryPayment(t)
  <2>1. ctl.frozen.s \in Sessions /\ ctl.frozen.review \in ViewType
    BY <1>1, <1>13 DEF RetryPayment, ControllerType
  <2>2. PICK c \in CallType : Spawn(t, c) /\ c.pc = "prepare" /\ c.s = ctl.frozen.s
    BY <1>1, <1>13, <2>1, PayStarts DEF RetryPayment
  <2>3. Role(c) = "other" /\ (c.s \in Sessions => Held(c.s))
    BY <1>13, <2>2 DEF Role, Starting, Held, RetryPayment
  <2>4. RolesKept
    BY <2>2, <2>3, RolelessChanges DEF Role, Spawn
  <2> QED
    BY <1>0, <1>3, <1>13, <2>4 DEF RetryPayment
<1>14. CASE EnterAdmin(t)
  <2>1. Spawn(t, Call("admin", "admin")) => RolesKept
    BY RolelessSpawn DEF Plainly, Starting, Awaits, Calls
  <2> QED
    BY <1>0, <1>2, <1>3, <1>14, <2>1 DEF EnterAdmin
<1> QED
  BY <1>4, <1>5, <1>6, <1>7, <1>8, <1>9, <1>10, <1>11, <1>12, <1>13, <1>14
     DEF QuietCommand


\* The loss of a device, or no step at all, opens and closes nothing.
LEMMA IdleCalm ==
  ASSUME MemoryInv, LoseDevice \/ UNCHANGED vars
  PROVE  Calm
<1>1. UNCHANGED <<storeVars, ctl, task>> /\ faults' >= faults
  BY FaultsMount DEF LoseDevice, Breaks, vars, checkoutVars
<1> QED
  BY <1>1, LedgerKeepers DEF Calm, RolesKept, Orderly, Held, FlagsKept, Remembers

-----------------------------------------------------------------------------
(* Steps that open, settle or close a session.                             *)

\* Where no session's state changes, the database goes on agreeing.
LEMMA KnownKept ==
  ASSUME MemoryInv, OpenInv, Orderly, Remembers, UNCHANGED sessionState,
         ctl'.session = ctl.session, ctl'.active = ctl.active,
         ctl'.recovered = ctl.recovered, faults' >= faults
  PROVE  Known'
<1>1. \A s \in Sessions : Held(s)' => Held(s)
  BY HeldBefore DEF Held
<1>2. faults' = 0 => faults = 0
  BY DEF MemoryInv, RestType
<1> QED
  BY <1>1, <1>2 DEF OpenInv, Known

\* Abandoning a session that is referred to abandons the one in use.
LEMMA KnownAbandon ==
  ASSUME StoreTypeOK, MemoryInv, OpenInv, Orderly, Remembers,
         NEW s, s \in Sessions => Held(s), AbandonSession(s),
         ctl'.session = ctl.session, ~ctl'.active,
         ctl'.recovered = ctl.recovered, faults' >= faults
  PROVE  Known'
<1>1. \A u \in Sessions : Held(u)' => Held(u)
  BY HeldBefore DEF Held
<1>2. faults' = 0 => faults = 0
  BY DEF MemoryInv, RestType
<1>3. s \in Sessions /\ ctl.active /\ s = ctl.session
  BY DEF AbandonSession, CanAbandonSession, IsActive, OpenInv, Known
<1>4. \A u \in Sessions :
        sessionState'[u] = IF u = s THEN "abandoned" ELSE sessionState[u]
  BY <1>3 DEF AbandonSession, StoreTypeOK
<1> QED
  BY <1>1, <1>2, <1>3, <1>4 DEF OpenInv, Known

\* a step of the call that starts a session, as far as the other records go
LEMMA StarterKeeps ==
  ASSUME MemoryInv, OpenInv, NEW t \in Slots, Role(task[t]) \in Starting,
         NEW r, Becomes(t, r),
         \/ r \in Starting /\ ctl'.starting = ctl.starting
         \/ r = "other" /\ ctl'.starting = FALSE,
         r \in {"recover", "begin"} => ~ctl'.active,
         ctl'.initialized = ctl.initialized, ctl'.closed = ctl.closed,
         UNCHANGED payment, faults' >= faults
  PROVE  Reserved' /\ Unoccupied' /\ Committing' /\ Closing'
<1> USE DEF OpenInv, Becomes, Starting
<1>1. ctl.starting /\ \A u \in Slots : Role(task[u]) \in Starting => u = t
  BY DEF Reserved
<1>2. Reserved'
  BY <1>1 DEF Reserved
<1>3. Unoccupied'
  BY <1>1 DEF Unoccupied
<1>4. Committing'
  BY DEF Committing, Orderly, AlreadyPaid
<1>5. Closing'
  <2>1. faults' = 0 => faults = 0
    BY DEF MemoryInv, RestType
  <2> QED
    BY <1>1, <2>1 DEF Closing
<1> QED
  BY <1>2, <1>3, <1>4, <1>5

\* a step of another call that leaves the reservation alone
LEMMA BystanderKeeps ==
  ASSUME MemoryInv, OpenInv, NEW t \in Slots, Role(task[t]) \notin Starting,
         NEW r, Becomes(t, r), r \notin Starting \cup {"misplaced"},
         ctl'.starting = ctl.starting, ctl'.initialized = ctl.initialized,
         ctl'.active => ctl.active
  PROVE  Reserved' /\ Unoccupied'
<1> USE DEF OpenInv, Becomes, Starting
<1>1. Reserved'
  BY DEF Reserved
<1>2. Unoccupied'
  BY DEF Unoccupied
<1> QED
  BY <1>1, <1>2

\* Closing waits for whatever session is still in use.
LEMMA ClosingKept ==
  ASSUME MemoryInv, OpenInv, NEW t \in Slots, Role(task[t]) # "close",
         NEW r, Becomes(t, r), ctl'.closed = ctl.closed,
         ctl'.starting = ctl.starting, ctl'.active => ctl.active, faults' >= faults
  PROVE  Closing'
<1>1. faults' = 0 => faults = 0
  BY DEF MemoryInv, RestType
<1> QED
  BY <1>1 DEF OpenInv, Closing, Becomes

\* The commit in flight stays the only one, and of an unpaid session.
LEMMA CommittingKept ==
  ASSUME OpenInv, NEW t \in Slots, NEW r, r # "commit", Becomes(t, r),
         UNCHANGED payment
  PROVE  Committing'
  BY DEF OpenInv, Committing, Becomes, Orderly, AlreadyPaid

\* The call that starts a session is the one at its awaits,
LEMMA StarterAt ==
  ASSUME OpenInv, NEW t \in Slots, NEW pc \in Starting, At(t, pc),
         pc = "reset" => task[t].op \notin {"retake", "restart"}
  PROVE  Role(task[t]) = pc
  BY DEF At, Role, OpenInv, Reserved

\* and it goes on from one to another.
LEMMA StarterMoves ==
  ASSUME MemoryInv, NEW t \in Slots, Role(task[t]) \in Starting,
         NEW pc \in Starting, Goto(t, pc)
  PROVE  Becomes(t, pc)
<1>1. task[t] # Nothing /\ task[t].op \notin {"retake", "restart"} /\ pc \in Awaits
  BY DEF Role, Starting, Awaits
<1>2. Becomes(t, Role(task'[t])) /\ task'[t] # Nothing /\ task'[t].pc = pc
      /\ task'[t].op = task[t].op
  BY <1>1, RoleMoves
<1>3. Role(task'[t]) = pc
  BY <1>1, <1>2 DEF Role
<1> QED
  BY <1>2, <1>3


\* Every step of a session start keeps the records of the open session together.
LEMMA StartKeeps ==
  ASSUME StoreTypeOK, MemoryInv, OpenInv, NEW t \in Slots, SessionStartStep(t)
  PROVE  OpenInv'
<1>0. /\ ctl \in ControllerType /\ faults \in Nat
      /\ Role(task[t]) \in Starting => ctl.starting /\ ctl.initialized
  BY CheckoutBounds
     DEF MemoryInv, ControllerInv, RestType, OpenInv, Reserved, Unoccupied
<1>1. ASSUME NEW pc \in Starting, At(t, pc),
             pc = "reset" => task[t].op \notin {"retake", "restart"}
      PROVE  Role(task[t]) = pc /\ Role(task[t]) \in Starting
  BY <1>1, StarterAt
<1>2. ASSUME Role(task[t]) \in Starting, NEW pc \in Starting, Goto(t, pc)
      PROVE  Becomes(t, pc) /\ Orderly
  BY <1>2, StarterMoves DEF Becomes
<1>3. Return(t) => Becomes(t, "other") /\ Orderly
  BY RoleReturns DEF Becomes
<1>4. ctl.session \in Sessions => Held(ctl.session)
  BY DEF Held
<1> USE DEF Set
<1>5. CASE RecoverAtStartup(t)
  <2>1. Role(task[t]) = "recover" /\ Role(task[t]) \in Starting
    BY <1>1, <1>5 DEF RecoverAtStartup, Starting
  <2>2. CASE Breaks /\ Goto(t, "terminalize") /\ UNCHANGED ctl
    <3>1. Becomes(t, "terminalize") /\ Orderly
      BY <1>2, <2>1, <2>2 DEF Starting
    <3>2. faults' >= faults /\ UNCHANGED <<sessionState, payment>> /\ Remembers
      BY <2>2, FaultsMount DEF Breaks, storeVars, Remembers
    <3> QED
      BY <2>1, <2>2, <3>1, <3>2, KnownKept, StarterKeeps DEF OpenInv, Starting
  <2>3. CASE /\ RecoverInterruptedCheckout /\ Set("recovered", TRUE)
             /\ Goto(t, "catalog") /\ UNCHANGED faults
    <3>1. Becomes(t, "catalog") /\ Orderly
      BY <1>2, <2>1, <2>3 DEF Starting
    <3>2. ctl' = [ctl EXCEPT !.recovered = TRUE] /\ ctl' \in ControllerType
      BY <1>0, <2>3 DEF ControllerType
    <3>3. /\ ctl'.session = ctl.session /\ ctl'.active = ctl.active
          /\ ctl'.starting = ctl.starting /\ ctl'.initialized = ctl.initialized
          /\ ctl'.closed = ctl.closed /\ ctl'.frozen = ctl.frozen /\ ctl'.rec = ctl.rec
      BY <1>0, <3>2 DEF ControllerType
    <3>4. Remembers /\ UNCHANGED payment /\ faults' >= faults
      BY <1>0, <2>3, <3>3 DEF Remembers, RecoverInterruptedCheckout
    <3>5. \A s \in Sessions : Held(s)' => Held(s)
      BY <3>1, <3>3, <3>4, HeldBefore DEF Held
    <3>6. ~ctl.active
      BY <2>1 DEF OpenInv, Unoccupied
    <3>7. \A s \in Sessions : /\ sessionState'[s] # "active"
                              /\ sessionState'[s] = "none" => sessionState[s] = "none"
      BY <2>3 DEF RecoverInterruptedCheckout
    <3>8. Known'
      BY <3>3, <3>5, <3>6, <3>7 DEF OpenInv, Known
    <3> QED
      BY <2>1, <3>1, <3>3, <3>4, <3>8, StarterKeeps DEF OpenInv, Starting
  <2> QED
    BY <1>5, <2>2, <2>3 DEF RecoverAtStartup
<1>6. CASE AbandonOld(t)
  <2>1. Role(task[t]) = "abandonOld" /\ Role(task[t]) \in Starting
    BY <1>1, <1>6 DEF AbandonOld, Starting
  <2>2. CASE Throws(CanAbandonSession(ctl.session)) /\ Goto(t, "terminalize")
             /\ UNCHANGED ctl
    <3>1. Becomes(t, "terminalize") /\ Orderly
      BY <1>2, <2>1, <2>2 DEF Starting
    <3>2. faults' >= faults /\ UNCHANGED <<sessionState, payment>> /\ Remembers
      BY <2>2, FaultsMount DEF Throws, storeVars, Remembers
    <3> QED
      BY <2>1, <2>2, <3>1, <3>2, KnownKept, StarterKeeps DEF OpenInv, Starting
  <2>3. CASE AbandonSession(ctl.session) /\ Set("active", FALSE)
             /\ Goto(t, "reset") /\ UNCHANGED faults
    <3>1. Becomes(t, "reset") /\ Orderly
      BY <1>2, <2>1, <2>3 DEF Starting
    <3>2. /\ ctl'.session = ctl.session /\ ctl'.active = FALSE
          /\ ctl'.starting = ctl.starting /\ ctl'.initialized = ctl.initialized
          /\ ctl'.closed = ctl.closed /\ ctl'.recovered = ctl.recovered
          /\ Remembers
      BY <1>0, <2>3 DEF ControllerType, Remembers
    <3>3. UNCHANGED payment /\ faults' >= faults
      BY <1>0, <2>3 DEF AbandonSession
    <3>4. Known'
      BY <1>4, <2>3, <3>1, <3>2, <3>3, KnownAbandon
    <3> QED
      BY <2>1, <3>1, <3>2, <3>3, <3>4, StarterKeeps DEF OpenInv, Starting
  <2> QED
    BY <1>6, <2>2, <2>3 DEF AbandonOld
<1>7. CASE ResetCapture(t)
  <2>1. UNCHANGED <<sessionState, payment, ctl>> /\ Remembers /\ faults' >= faults
    BY <1>7, FaultsMount DEF ResetCapture, Works, Breaks, storeVars, Remembers
  <2>2. CASE task[t].op \in {"retake", "restart"}
    <3>1. Role(task[t]) = "other" /\ Return(t)
      BY <1>7, <2>2 DEF ResetCapture, At, Role
    <3>2. RolesKept
      BY <3>1, RolelessReturns
    <3> QED
      BY <2>1, <3>2, CalmKeeps DEF Calm, FlagsKept, LedgerKept
  <2>3. CASE task[t].op \notin {"retake", "restart"}
    <3>1. Role(task[t]) = "reset" /\ Role(task[t]) \in Starting
      BY <1>1, <1>7, <2>3 DEF ResetCapture, Starting
    <3>2. PICK pc \in {"catalog", "terminalize"} : Goto(t, pc)
      BY <1>7, <2>3 DEF ResetCapture
    <3>3. Becomes(t, pc) /\ Orderly /\ pc \in Starting
      BY <1>2, <3>1, <3>2 DEF Starting
    <3> QED
      BY <2>1, <3>1, <3>3, KnownKept, StarterKeeps DEF OpenInv
  <2> QED
    BY <2>2, <2>3
<1>8. CASE ReadCatalog(t)
  <2>1. Role(task[t]) = "catalog" /\ Role(task[t]) \in Starting
    BY <1>1, <1>8 DEF ReadCatalog, Starting
  <2>2. PICK pc \in {"begin", "terminalize"} : Goto(t, pc) /\ (pc = "begin" => ~ctl.active)
    BY <1>8 DEF ReadCatalog
  <2>3. Becomes(t, pc) /\ Orderly /\ pc \in Starting
    BY <1>2, <2>1, <2>2 DEF Starting
  <2>4. UNCHANGED <<sessionState, payment, ctl>> /\ Remembers /\ faults' >= faults
    BY <1>8, FaultsMount DEF ReadCatalog, Works, Breaks, storeVars, Remembers
  <2> QED
    BY <2>1, <2>2, <2>3, <2>4, KnownKept, StarterKeeps DEF OpenInv
<1>9. CASE BeginCheckout(t)
  <2>1. Role(task[t]) = "begin" /\ Role(task[t]) \in Starting /\ ~ctl.active
    BY <1>1, <1>9 DEF BeginCheckout, Starting, OpenInv, Unoccupied
  <2>2. CASE Goto(t, "terminalize") /\ UNCHANGED ctl /\ (Works \/ Breaks)
    <3>1. Becomes(t, "terminalize") /\ Orderly
      BY <1>2, <2>1, <2>2 DEF Starting
    <3>2. faults' >= faults /\ UNCHANGED <<sessionState, payment>> /\ Remembers
      BY <2>2, FaultsMount DEF Works, Breaks, storeVars, Remembers
    <3> QED
      BY <2>1, <2>2, <3>1, <3>2, KnownKept, StarterKeeps DEF OpenInv, Starting
  <2>3. ASSUME NEW s \in Sessions, BeginSession(s), UNCHANGED faults,
               ctl' = [ctl EXCEPT !.session = s, !.active = TRUE], Goto(t, "settings")
        PROVE  OpenInv'
    <3>1. Becomes(t, "settings") /\ Orderly
      BY <1>2, <2>1, <2>3 DEF Starting
    <3>2. /\ ctl'.session = s /\ ctl'.active = TRUE
          /\ ctl'.starting = ctl.starting /\ ctl'.initialized = ctl.initialized
          /\ ctl'.closed = ctl.closed /\ ctl'.recovered = ctl.recovered
          /\ ctl'.frozen = ctl.frozen /\ ctl'.rec = ctl.rec
      BY <1>0, <2>3 DEF ControllerType
    <3>3. Remembers /\ UNCHANGED payment /\ faults' >= faults
      BY <1>0, <2>3, <3>2 DEF Remembers, BeginSession
    <3>4. \A u \in Sessions : Held(u)' => Held(u) \/ u = s
      BY <3>1, <3>2, <3>3, HeldBefore DEF Held
    <3>5. /\ sessionState[s] = "none"
          /\ \A u \in Sessions :
               sessionState'[u] = IF u = s THEN "active" ELSE sessionState[u]
      BY <2>3 DEF BeginSession, CanBeginSession, StoreTypeOK
    <3>6. Known'
      BY <2>1, <2>3, <3>2, <3>4, <3>5 DEF OpenInv, Known
    <3> QED
      BY <2>1, <3>1, <3>2, <3>3, <3>6, StarterKeeps DEF OpenInv, Starting
  <2> QED
    BY <1>9, <2>2, <2>3 DEF BeginCheckout
<1>10. CASE ReadSettings(t)
  <2>1. Role(task[t]) = "settings" /\ Role(task[t]) \in Starting
    BY <1>1, <1>10 DEF ReadSettings, Starting
  <2>2. CASE Breaks /\ Goto(t, "terminalize") /\ UNCHANGED ctl
    <3>1. Becomes(t, "terminalize") /\ Orderly
      BY <1>2, <2>1, <2>2 DEF Starting
    <3>2. faults' >= faults /\ UNCHANGED <<sessionState, payment>> /\ Remembers
      BY <2>2, FaultsMount DEF Breaks, storeVars, Remembers
    <3> QED
      BY <2>1, <2>2, <3>1, <3>2, KnownKept, StarterKeeps DEF OpenInv, Starting
  <2>3. CASE /\ Works /\ ctl' = ForNewSession(t)
             /\ IF task[t].op = "initialize" THEN Goto(t, "scanner") ELSE Return(t)
    <3>1. /\ ctl'.session = ctl.session /\ ctl'.active = ctl.active
          /\ ctl'.starting = (task[t].op = "initialize") /\ ctl'.initialized = TRUE
          /\ ctl'.closed = ctl.closed /\ ctl'.recovered = ctl.recovered
          /\ ctl'.frozen = Nothing /\ ctl'.rec = Nothing
      BY <2>3 DEF ForNewSession, FreshController
    <3>2. faults' >= faults /\ UNCHANGED <<sessionState, payment>> /\ Remembers
      BY <2>3, <3>1, FaultsMount DEF Works, storeVars, Remembers
    <3>3. CASE task[t].op = "initialize"
      <4>1. Becomes(t, "scanner") /\ Orderly
        BY <1>2, <2>1, <2>3, <3>3 DEF Starting
      <4> QED
        BY <1>0, <2>1, <3>1, <3>2, <3>3, <4>1, KnownKept, StarterKeeps
           DEF OpenInv, Starting
    <3>4. CASE task[t].op # "initialize"
      <4>1. Becomes(t, "other") /\ Orderly
        BY <1>3, <2>3, <3>4
      <4> QED
        BY <1>0, <2>1, <3>1, <3>2, <3>4, <4>1, KnownKept, StarterKeeps DEF OpenInv
    <3> QED
      BY <3>3, <3>4
  <2> QED
    BY <1>10, <2>2, <2>3 DEF ReadSettings, Opened
<1>11. CASE StartScanner(t)
  <2>1. Role(task[t]) = "scanner" /\ Role(task[t]) \in Starting
    BY <1>1, <1>11 DEF StartScanner, Starting
  <2>2. faults' >= faults /\ UNCHANGED <<sessionState, payment>>
    BY <1>11, FaultsMount DEF StartScanner, Works, Breaks, storeVars
  <2>3. CASE Goto(t, "abandonStartup") /\ UNCHANGED ctl
    <3>1. Becomes(t, "abandonStartup") /\ Orderly
      BY <1>2, <2>1, <2>3 DEF Starting
    <3> QED
      BY <2>1, <2>2, <2>3, <3>1, KnownKept, StarterKeeps DEF OpenInv, Starting, Remembers
  <2>4. CASE Return(t) /\ Set("starting", FALSE)
    <3>1. /\ ctl'.session = ctl.session /\ ctl'.active = ctl.active
          /\ ctl'.starting = FALSE /\ ctl'.initialized = ctl.initialized
          /\ ctl'.closed = ctl.closed /\ ctl'.recovered = ctl.recovered
          /\ Remembers
      BY <1>0, <2>4 DEF ControllerType, Remembers
    <3> QED
      BY <1>3, <2>1, <2>2, <2>4, <3>1, KnownKept, StarterKeeps DEF OpenInv
  <2> QED
    BY <1>11, <2>3, <2>4 DEF StartScanner, Opened
<1>12. CASE AbandonStartup(t)
  <2>1. Role(task[t]) = "abandonStartup" /\ Role(task[t]) \in Starting
    BY <1>1, <1>12 DEF AbandonStartup, Starting
  <2>2. CASE Throws(CanAbandonSession(ctl.session)) /\ Goto(t, "terminalize")
             /\ UNCHANGED ctl
    <3>1. Becomes(t, "terminalize") /\ Orderly
      BY <1>2, <2>1, <2>2 DEF Starting
    <3>2. faults' >= faults /\ UNCHANGED <<sessionState, payment>> /\ Remembers
      BY <2>2, FaultsMount DEF Throws, storeVars, Remembers
    <3> QED
      BY <2>1, <2>2, <3>1, <3>2, KnownKept, StarterKeeps DEF OpenInv, Starting
  <2>3. CASE /\ AbandonSession(ctl.session) /\ UNCHANGED faults /\ Return(t)
             /\ ctl' = [ctl EXCEPT !.active = FALSE, !.starting = FALSE]
    <3>1. /\ ctl'.session = ctl.session /\ ctl'.active = FALSE
          /\ ctl'.starting = FALSE /\ ctl'.initialized = ctl.initialized
          /\ ctl'.closed = ctl.closed /\ ctl'.recovered = ctl.recovered
          /\ Remembers
      BY <1>0, <2>3 DEF ControllerType, Remembers
    <3>2. UNCHANGED payment /\ faults' >= faults
      BY <1>0, <2>3 DEF AbandonSession
    <3>3. Known'
      BY <1>3, <1>4, <2>3, <3>1, <3>2, KnownAbandon
    <3> QED
      BY <1>3, <2>1, <2>3, <3>1, <3>2, <3>3, StarterKeeps DEF OpenInv
  <2> QED
    BY <1>12, <2>2, <2>3 DEF AbandonStartup
<1>13. CASE TerminalizeStart(t)
  <2>1. Role(task[t]) = "terminalize" /\ Role(task[t]) \in Starting
    BY <1>1, <1>13 DEF TerminalizeStart, Starting
  <2>2. Becomes(t, "other") /\ Orderly
    BY <1>3, <1>13 DEF TerminalizeStart
  <2>3. CASE Set("starting", FALSE) /\ UNCHANGED storeVars /\ faults' >= faults
    <3>1. /\ ctl'.session = ctl.session /\ ctl'.active = ctl.active
          /\ ctl'.starting = FALSE /\ ctl'.initialized = ctl.initialized
          /\ ctl'.closed = ctl.closed /\ ctl'.recovered = ctl.recovered
          /\ Remembers
      BY <1>0, <2>3 DEF ControllerType, Remembers
    <3> QED
      BY <2>1, <2>2, <2>3, <3>1, KnownKept, StarterKeeps DEF OpenInv, storeVars
  <2>4. CASE /\ AbandonSession(ctl.session) /\ UNCHANGED faults
             /\ ctl' = [ctl EXCEPT !.active = FALSE, !.starting = FALSE]
    <3>1. /\ ctl'.session = ctl.session /\ ctl'.active = FALSE
          /\ ctl'.starting = FALSE /\ ctl'.initialized = ctl.initialized
          /\ ctl'.closed = ctl.closed /\ ctl'.recovered = ctl.recovered
          /\ Remembers
      BY <1>0, <2>4 DEF ControllerType, Remembers
    <3>2. UNCHANGED payment /\ faults' >= faults
      BY <1>0, <2>4 DEF AbandonSession
    <3>3. Known'
      BY <1>4, <2>2, <2>4, <3>1, <3>2, KnownAbandon
    <3> QED
      BY <2>1, <2>2, <3>1, <3>2, <3>3, StarterKeeps DEF OpenInv
  <2> QED
    BY <1>13, <2>3, <2>4, FaultsMount DEF TerminalizeStart, Works, Throws
<1> QED
  BY <1>5, <1>6, <1>7, <1>8, <1>9, <1>10, <1>11, <1>12, <1>13 DEF SessionStartStep


\* A call of no role that abandons the session ends its use.
LEMMA AbandonKeeps ==
  ASSUME StoreTypeOK, MemoryInv, OpenInv, NEW t \in Slots, Role(task[t]) = "other",
         Becomes(t, "other"), NEW s, s \in Sessions => Held(s), AbandonSession(s),
         ctl' = [ctl EXCEPT !.active = FALSE], UNCHANGED faults
  PROVE  OpenInv'
<1>1. /\ ctl'.session = ctl.session /\ ctl'.active = FALSE
      /\ ctl'.starting = ctl.starting /\ ctl'.initialized = ctl.initialized
      /\ ctl'.closed = ctl.closed /\ ctl'.recovered = ctl.recovered
      /\ Remembers
  BY DEF MemoryInv, ControllerInv, ControllerType, Remembers
<1>2. UNCHANGED payment /\ faults' >= faults /\ Orderly
  BY CheckoutBounds DEF AbandonSession, MemoryInv, RestType, Becomes
<1>3. Known'
  BY <1>1, <1>2, KnownAbandon
<1>4. Reserved' /\ Unoccupied' /\ Committing' /\ Closing'
  BY <1>1, <1>2, BystanderKeeps, CommittingKept, ClosingKept DEF Starting
<1> QED
  BY <1>3, <1>4 DEF OpenInv

\* A failed attempt to abandon it, or none, leaves everything as it is.
LEMMA ReturnCalm ==
  ASSUME MemoryInv, NEW t \in Slots, Role(task[t]) = "other", Return(t),
         UNCHANGED ctl, NEW can, Throws(can)
  PROVE  Calm
  BY RolelessReturns, FaultsMount, LedgerKeepers
     DEF Calm, FlagsKept, Remembers, Throws

\* A scanner lost for good, a cancelled scan and the administrator end the
\* session in use and nothing else.
LEMMA InterruptionKeeps ==
  ASSUME StoreTypeOK, MemoryInv, OpenInv, NEW t \in Slots,
         AbandonTerminal(t) \/ AbandonCancelled(t) \/ AbandonForAdmin(t)
  PROVE  OpenInv'
<1>1. Role(task[t]) = "other" /\ task[t] # Nothing
  BY DEF AbandonTerminal, AbandonCancelled, AbandonForAdmin, At, Role, Starting
<1>2. ctl.session \in Sessions => Held(ctl.session)
  BY DEF Held
<1>3. task[t].s \in Sessions => Held(task[t].s)
  BY <1>1 DEF Held
<1>4. CASE AbandonTerminal(t)
  <2>1. Becomes(t, "other")
    BY <1>4, RoleReturns DEF AbandonTerminal
  <2> QED
    BY <1>1, <1>3, <1>4, <2>1, AbandonKeeps, ReturnCalm, CalmKeeps
       DEF AbandonTerminal, Set
<1>5. CASE AbandonCancelled(t) \/ AbandonForAdmin(t)
  <2>1. CASE /\ AbandonSession(task[t].s) /\ Set("active", FALSE) /\ UNCHANGED faults
             /\ task' = [Cancelled(task) EXCEPT ![t] = Nothing]
    <3>1. Becomes(t, "other")
      BY <2>1, RoleCancels DEF Role
    <3> QED
      BY <1>1, <1>3, <2>1, <3>1, AbandonKeeps DEF Set
  <2>2. CASE Throws(CanAbandonSession(task[t].s)) /\ Return(t) /\ UNCHANGED ctl
    BY <1>1, <2>2, ReturnCalm, CalmKeeps
  <2> QED
    BY <1>5, <2>1, <2>2 DEF AbandonCancelled, AbandonForAdmin
<1> QED
  BY <1>4, <1>5

\* Closing ends the session in use, unless the database fails.
LEMMA CloseKeeps ==
  ASSUME StoreTypeOK, MemoryInv, OpenInv, NEW t \in Slots, AbandonClosed(t)
  PROVE  OpenInv'
<1>1. Role(task[t]) = "close" /\ ~ctl.starting /\ Becomes(t, "other") /\ Orderly
  BY RoleReturns DEF AbandonClosed, At, Role, Starting, Becomes
<1>2. ctl.session \in Sessions => Held(ctl.session)
  BY DEF Held
<1>3. CASE AbandonSession(ctl.session) /\ Set("active", FALSE) /\ UNCHANGED faults
  <2>1. /\ ctl'.session = ctl.session /\ ctl'.active = FALSE
        /\ ctl'.starting = ctl.starting /\ ctl'.initialized = ctl.initialized
        /\ ctl'.closed = ctl.closed /\ ctl'.recovered = ctl.recovered
        /\ Remembers
    BY <1>3 DEF MemoryInv, ControllerInv, ControllerType, Remembers, Set
  <2>2. UNCHANGED payment /\ faults' >= faults
    BY <1>3, CheckoutBounds DEF AbandonSession, MemoryInv, RestType
  <2>3. Known'
    BY <1>1, <1>2, <1>3, <2>1, <2>2, KnownAbandon
  <2>4. Reserved' /\ Unoccupied' /\ Committing'
    BY <1>1, <2>1, <2>2, BystanderKeeps, CommittingKept DEF Starting
  <2>5. Closing'
    BY <1>1, <2>1 DEF Closing
  <2> QED
    BY <2>3, <2>4, <2>5 DEF OpenInv
<1>4. CASE UNCHANGED <<storeVars, ctl>> /\ faults' >= faults
           /\ (ctl.active => faults' # 0)
  <2>1. Remembers /\ UNCHANGED <<sessionState, payment>>
    BY <1>4 DEF Remembers, storeVars
  <2>2. Known' /\ Reserved' /\ Unoccupied' /\ Committing'
    BY <1>1, <1>4, <2>1, KnownKept, BystanderKeeps, CommittingKept DEF Starting
  <2>3. Closing'
    BY <1>1, <1>4 DEF Closing
  <2> QED
    BY <2>2, <2>3 DEF OpenInv
<1>5. ctl.active => CanAbandonSession(ctl.session)
  BY DEF MemoryInv, ControllerInv, OpenInv, Known, CanAbandonSession, IsActive
<1>6. faults \in Nat
  BY CheckoutBounds DEF MemoryInv, RestType
<1>7. CASE ~ctl.active /\ Works /\ UNCHANGED ctl
  BY <1>4, <1>6, <1>7 DEF Works
<1>8. CASE ctl.active /\ Throws(CanAbandonSession(ctl.session)) /\ UNCHANGED ctl
  <2>1. UNCHANGED storeVars /\ faults' = faults + 1
    BY <1>5, <1>8 DEF Throws, Fault
  <2> QED
    BY <1>4, <1>6, <1>8, <2>1
<1> QED
  BY <1>3, <1>7, <1>8 DEF AbandonClosed


\* A payment commits one session's order at a time, and ends its use.
LEMMA PaymentKeeps ==
  ASSUME StoreTypeOK, PaidIffCompleted, MemoryInv, OpenInv,
         NEW t \in Slots, PaymentStep(t)
  PROVE  OpenInv'
<1>0. ctl \in ControllerType /\ faults \in Nat
  BY CheckoutBounds DEF MemoryInv, ControllerInv, RestType
<1>1. CASE PreparePayment(t)
  <2>1. Role(task[t]) = "other" /\ task[t] # Nothing
    BY <1>1 DEF PreparePayment, At, Role, Starting
  <2>2. LedgerKept /\ faults' >= faults
    BY <1>1, LedgerKeepers, FaultsMount DEF PreparePayment, Throws
  <2>3. FlagsKept /\ Remembers
    BY <1>0, <1>1 DEF PreparePayment, Set, FlagsKept, Remembers, ControllerType
  <2>4. CASE Accepts(t) \/ Return(t) \/ Goto(t, "join")
    <3>1. Accepts(t) => RolesKept
      BY <2>1, AcceptsNext, RolelessChanges DEF Role, Held
    <3>2. RolesKept
      BY <2>1, <2>4, <3>1, RolelessReturns, RolelessMoves
         DEF Plainly, Starting, Awaits
    <3> QED
      BY <2>2, <2>3, <3>2, CalmKeeps DEF Calm
  <2>5. CASE Goto(t, "commit") /\ ~CommitInFlight /\ CanReplaceDraft(task[t].s)
    <3>1. Becomes(t, Role(task'[t])) /\ task'[t] # Nothing /\ task'[t].pc = "commit"
      BY <2>1, <2>5, RoleMoves DEF Awaits
    <3>2. Becomes(t, "commit") /\ Orderly
      BY <3>1 DEF Role, Starting, Becomes
    <3>3. \A u \in Slots : Role(task[u]) # "commit"
      BY <2>5 DEF CommitInFlight, At, Role, Starting
    <3>4. ~AlreadyPaid(task[t].s)
      BY <2>5 DEF CanReplaceDraft, IsActive, PaidIffCompleted, AlreadyPaid
    <3>5. Committing'
      BY <2>2, <3>2, <3>3, <3>4 DEF Committing, Becomes, Orderly, AlreadyPaid, LedgerKept
    <3>6. Known' /\ Reserved' /\ Unoccupied' /\ Closing'
      BY <2>1, <2>2, <2>3, <3>2, KnownKept, BystanderKeeps, ClosingKept
         DEF LedgerKept, FlagsKept, Starting
    <3> QED
      BY <3>5, <3>6 DEF OpenInv
  <2> QED
    BY <1>1, <2>4, <2>5, UpcomingTyped DEF PreparePayment, ReplaceDraftOrder, Accepts
<1>2. CASE CommitPayment(t)
  <2>1. Role(task[t]) = "commit" /\ task[t].s \in Sessions
    BY <1>2 DEF CommitPayment, At, Role, Starting, MemoryInv, CallsInv, CallsSound,
       CallSound, Paying
  <2>2. ~AlreadyPaid(task[t].s) /\ Held(task[t].s)
    BY <1>2, <2>1 DEF CommitPayment, At, OpenInv, Committing, Held
  <2>3. Becomes(t, "other") /\ Orderly
    BY <1>2 DEF CommitPayment, Settled, Joined, At, Becomes, Orderly, Role, Starting, Held
  <2>4. CASE UNCHANGED <<storeVars, ctl>> /\ faults' >= faults
    <3>1. Remembers /\ UNCHANGED <<sessionState, payment>>
      BY <2>4 DEF Remembers, storeVars
    <3> QED
      BY <2>1, <2>3, <2>4, <3>1, KnownKept, BystanderKeeps, CommittingKept, ClosingKept
         DEF OpenInv, Starting
  <2>5. CASE /\ CommitSimulatedPayment(task[t].s, task[t].view.lines) /\ UNCHANGED faults
             /\ ctl' = [ctl EXCEPT !.active = FALSE, !.frozen = Nothing]
    <3>1. /\ ctl'.session = ctl.session /\ ctl'.active = FALSE
          /\ ctl'.starting = ctl.starting /\ ctl'.initialized = ctl.initialized
          /\ ctl'.closed = ctl.closed /\ ctl'.recovered = ctl.recovered
          /\ ctl'.frozen = Nothing /\ ctl'.rec = ctl.rec /\ Remembers
      BY <1>0, <2>5 DEF ControllerType, Remembers
    <3>2. /\ sessionState[task[t].s] = "active"
          /\ \A s \in Sessions :
               sessionState'[s] = IF s = task[t].s THEN "completed" ELSE sessionState[s]
      BY <2>1, <2>2, <2>5
         DEF CommitSimulatedPayment, CanCommitPayment, IsActive, StoreTypeOK
    <3>3. \A s \in Sessions : Held(s)' => Held(s)
      BY <2>3, <3>1, HeldBefore DEF Held
    <3>4. Known'
      BY <2>1, <2>2, <2>5, <3>1, <3>2, <3>3 DEF OpenInv, Known
    <3>5. Committing'
      BY <2>1, <2>3 DEF OpenInv, Committing, Becomes
    <3>6. Reserved' /\ Unoccupied' /\ Closing'
      BY <1>0, <2>1, <2>3, <2>5, <3>1, BystanderKeeps, ClosingKept DEF Starting
    <3> QED
      BY <3>4, <3>5, <3>6 DEF OpenInv
  <2>6. \/ CommitSimulatedPayment(task[t].s, task[t].view.lines) /\ UNCHANGED faults
           /\ ctl' = [ctl EXCEPT !.active = FALSE, !.frozen = Nothing]
        \/ Throws(CanCommitPayment(task[t].s, task[t].view.lines)) /\ UNCHANGED ctl
    BY <1>2 DEF CommitPayment, PaymentSucceeds
  <2> QED
    BY <2>4, <2>5, <2>6, FaultsMount DEF Throws
<1> QED
  BY <1>1, <1>2 DEF PaymentStep

\* The commands that start or close a session reserve it first.
LEMMA ReservationKeeps ==
  ASSUME MemoryInv, OpenInv, NEW t \in Slots,
         \/ Initialize(t) \/ StartNextCustomer(t) \/ StartFreshCustomerSession(t)
         \/ Close(t)
  PROVE  OpenInv'
<1>0. ctl \in ControllerType /\ faults \in Nat
  BY CheckoutBounds DEF MemoryInv, ControllerInv, RestType
<1>1. UNCHANGED <<sessionState, payment, faults>>
  BY DEF Initialize, StartNextCustomer, StartFreshCustomerSession, StartSession, Close,
     storeVars
<1>2. ASSUME NEW op \in Calls \ {"retake", "restart"},
             NEW pc \in {"recover", "abandonOld", "reset", "close"},
             Spawn(t, Call(op, pc))
      PROVE  Becomes(t, pc) /\ Role(task[t]) = "other" /\ Orderly
  <2>1. /\ Call(op, pc) \in CallType /\ Call(op, pc).op = op
        /\ Call(op, pc).pc = pc /\ Call(op, pc).s = ctl.session
    BY <1>0, CallTyped DEF Awaits
  <2>2. /\ Role(Call(op, pc)) = pc
        /\ Call(op, pc).s \in Sessions => Held(Call(op, pc).s)
    BY <2>1, NothingIsNoCall DEF Role, Starting, Held
  <2> QED
    BY <1>2, <2>1, <2>2, RoleStarts DEF Becomes
<1>3. CASE Close(t)
  <2>1. Becomes(t, "close") /\ Role(task[t]) = "other" /\ Orderly
    BY <1>2, <1>3 DEF Close, Calls
  <2>2. /\ ctl'.session = ctl.session /\ ctl'.active = ctl.active
        /\ ctl'.starting = ctl.starting /\ ctl'.initialized = ctl.initialized
        /\ ctl'.recovered = ctl.recovered /\ Remembers
    BY <1>0, <1>3 DEF Close, Set, ControllerType, Remembers
  <2>3. Known' /\ Reserved' /\ Unoccupied' /\ Committing'
    BY <1>0, <1>1, <2>1, <2>2, KnownKept, BystanderKeeps, CommittingKept DEF Starting
  <2>4. Closing'
    BY <2>1 DEF Closing, Becomes
  <2> QED
    BY <2>3, <2>4 DEF OpenInv
<1>4. ASSUME NEW op \in {"initialize", "next", "fresh"},
             NEW pc \in {"recover", "abandonOld", "reset"}, Spawn(t, Call(op, pc)),
             ctl'.starting = TRUE, ctl'.initialized = TRUE, ctl'.closed = FALSE,
             ctl'.session = ctl.session, ctl'.active = ctl.active,
             ctl'.recovered = ctl.recovered, Remembers,
             ~ctl.starting, pc = "recover" => ~ctl.active
      PROVE  OpenInv'
  <2>1. Becomes(t, pc) /\ Role(task[t]) = "other" /\ Orderly
    BY <1>2, <1>4 DEF Calls
  <2>2. Known' /\ Committing'
    BY <1>0, <1>1, <1>4, <2>1, KnownKept, CommittingKept
  <2>3. \A u \in Slots : Role(task[u]) \notin Starting
    BY <1>4 DEF OpenInv, Reserved
  <2>4. Reserved' /\ Unoccupied'
    BY <1>4, <2>1, <2>3 DEF OpenInv, Reserved, Unoccupied, Becomes, Starting
  <2>5. Closing'
    BY <1>4 DEF Closing
  <2> QED
    BY <2>2, <2>4, <2>5 DEF OpenInv
<1>5. CASE Initialize(t)
  <2>1. /\ ctl'.session = ctl.session /\ ctl'.active = ctl.active
        /\ ctl'.starting = TRUE /\ ctl'.initialized = TRUE /\ ctl'.closed = FALSE
        /\ ctl'.recovered = ctl.recovered /\ Remembers
    BY <1>0, <1>5 DEF Initialize, ControllerType, Remembers
  <2>2. ~ctl.starting /\ ~ctl.active
    BY <1>5 DEF Initialize, OpenInv, Unoccupied
  <2> QED
    BY <1>4, <1>5, <2>1, <2>2 DEF Initialize
<1>6. ASSUME NEW op \in {"next", "fresh"}, StartSession(t, op) PROVE OpenInv'
  <2>1. /\ ctl'.session = ctl.session /\ ctl'.active = ctl.active
        /\ ctl'.starting = TRUE /\ ctl'.initialized = TRUE /\ ctl'.closed = FALSE
        /\ ctl'.recovered = ctl.recovered /\ Remembers
    BY <1>0, <1>6 DEF StartSession, Open, Set, ControllerType, Remembers
  <2>2. PICK pc \in {"abandonOld", "reset"} : Spawn(t, Call(op, pc))
    BY <1>6 DEF StartSession
  <2>3. ~ctl.starting
    BY <1>6 DEF StartSession
  <2> QED
    BY <1>4, <2>1, <2>2, <2>3
<1> QED
  BY <1>3, <1>5, <1>6 DEF StartNextCustomer, StartFreshCustomerSession


\* A process that starts again refers to no session of the one that died.
LEMMA RestartKeeps ==
  ASSUME MemoryInv, Restart
  PROVE  OpenInv'
<1>1. faults' # 0
  BY CheckoutBounds DEF Restart, Breaks, Fault, MemoryInv, RestType
<1>2. /\ ctl'.session = Nothing /\ ctl'.frozen = Nothing /\ ctl'.rec = Nothing
      /\ ctl'.active = FALSE /\ ctl'.starting = FALSE /\ ctl'.recovered = FALSE
      /\ ctl'.initialized = FALSE /\ ctl'.closed = FALSE
  BY DEF Restart, FreshController
<1>3. \A t \in Slots : task'[t] = Nothing /\ Role(task'[t]) = "other"
  BY DEF Restart, Role
<1>4. \A s \in Sessions : ~Held(s)'
  BY <1>2, <1>3, CheckoutBounds DEF Held
<1>5. Reserved' /\ Unoccupied' /\ Committing' /\ Closing'
  BY <1>2, <1>3 DEF Reserved, Unoccupied, Committing, Closing, Starting
<1>6. Known'
  BY <1>1, <1>2, <1>4 DEF Known
<1> QED
  BY <1>5, <1>6 DEF OpenInv

\* At first there is no session at all.
LEMMA OpenInit == CheckoutInit => OpenInv
<1> SUFFICES ASSUME CheckoutInit PROVE OpenInv
  OBVIOUS
<1>1. /\ ctl.session = Nothing /\ ctl.frozen = Nothing /\ ctl.rec = Nothing
      /\ ctl.active = FALSE /\ ctl.starting = FALSE /\ ctl.closed = FALSE
  BY DEF CheckoutInit, FreshController
<1>2. \A t \in Slots : task[t] = Nothing /\ Role(task[t]) = "other"
  BY DEF CheckoutInit, Role
<1>3. \A s \in Sessions : ~Held(s) /\ sessionState[s] = "none"
  BY <1>1, <1>2, CheckoutBounds DEF Held, CheckoutInit, StoreInit
<1> QED
  BY <1>1, <1>2, <1>3
     DEF OpenInv, Reserved, Unoccupied, Known, Committing, Closing, Starting

\* Every step of every call keeps the records of the open session together.
LEMMA OpenStep ==
  StoreTypeOK /\ PaidIffCompleted /\ MemoryInv /\ OpenInv /\ [Next]_vars => OpenInv'
<1> SUFFICES ASSUME StoreTypeOK, PaidIffCompleted, MemoryInv, OpenInv, [Next]_vars
             PROVE  OpenInv'
  OBVIOUS
<1>1. CASE UNCHANGED vars \/ LoseDevice
  BY <1>1, IdleCalm, CalmKeeps
<1>2. CASE Restart
  BY <1>2, RestartKeeps
<1>3. ASSUME NEW t \in Slots, Command(t) PROVE OpenInv'
  <2>1. \/ QuietCommand(t)
        \/ Initialize(t) \/ StartNextCustomer(t) \/ StartFreshCustomerSession(t)
        \/ Close(t)
    BY <1>3 DEF Command, QuietCommand
  <2> QED
    BY <2>1, CommandCalm, CalmKeeps, ReservationKeeps
<1>4. ASSUME NEW t \in Slots, Step(t) PROVE OpenInv'
  <2>1. CASE ScanStep(t)
    BY <2>1, ScanCalm, CalmKeeps, InterruptionKeeps
  <2>2. CASE ReviewStep(t)
    BY <2>2, ReviewCalm, CalmKeeps
  <2> QED
    BY <1>4, <2>1, <2>2, StartKeeps, PaymentKeeps, InterruptionKeeps, CloseKeeps
       DEF Step
<1> QED
  BY <1>1, <1>2, <1>3, <1>4 DEF Next

\* However calls interleave, the reservation, the roles of the calls in flight,
\* the flags of the controller and the rows of the database tell one story of
\* which session is open.
THEOREM OpenInvariant == Spec => []OpenInv
<1>1. StoreInv => PaidIffCompleted
  BY DEF StoreInv
<1> QED
  BY <1>1, OpenInit, OpenStep, CheckoutRefinesStore, StoreTypeCorrect, StoreInvariant,
     MemoryInvariant, PTL DEF Spec

\* The controller and the database never disagree on the open session, with any
\* number of calls in flight: what the controller believes active is active, and
\* once start-up recovery has run nothing else is.
THEOREM CheckoutOneOpenSession == Spec => []OneOpenSession
<1>1. OpenInv => OneOpenSession
  BY DEF OpenInv, Known, OneOpenSession
<1> QED
  BY <1>1, OpenInvariant, PTL

\* Closing leaves no session open unless something failed: what was in flight
\* when close was called, a start, a scan or a payment, does not outlive it.
THEOREM CheckoutClosedIsAbandoned == Spec => []ClosedIsAbandoned
<1>1. OpenInv => ClosedIsAbandoned
  BY DEF OpenInv, Known, Closing, ClosedIsAbandoned, Idle, Role
<1> QED
  BY <1>1, OpenInvariant, PTL

\* A commit in flight is of the session in use, and the only one: a second press
\* of pay, or a retry, joins it instead of charging twice.
THEOREM OneCommitAtATime ==
  Spec => [](\A t, u \in Slots : At(t, "commit") /\ At(u, "commit") => t = u)
<1>1. OpenInv => \A t, u \in Slots : At(t, "commit") /\ At(u, "commit") => t = u
  BY DEF OpenInv, Committing, At, Role, Starting
<1> QED
  BY <1>1, OpenInvariant, PTL


-----------------------------------------------------------------------------
(* What a call in flight may rely on about itself.                         *)

Reviewing == {"retakeRequired", "customerReview", "orderReview"}

\* Where a scan or a retry c may be suspended, and what has happened by then:
\* only a cancelled scan is dropped, a session is abandoned for a lost device only
\* after a failure, a draft shows a review, and inference has a row of evidence.
CallApt(c, closed, failures, rows) ==
  /\ c.op \in {"scan", "retry"} => c.pc \in ScanAwaits \cup {"abandonTerminal"}
  /\ c.op = "retry" => ~c.stale /\ c.pc \notin {"drop", "abandonTerminal"}
  /\ c.pc = "drop" => c.stale
  /\ c.pc = "abandonTerminal" => c.op = "scan" /\ failures >= 1
  /\ c.pc = "close" => closed
  /\ c.pc \in {"present", "display"} => c.view.phase \in Reviewing
  /\ c.pc = "infer" => rows[c.s][c.n] # NoAttempt

CallsApt ==
  \A t \in Slots : task[t] # Nothing => CallApt(task[t], ctl.closed, faults, attempt)

\* a capture this process staged has its row, and a device is lost by a failure
StagedRows ==
  \A s \in Sessions, n \in Attempts : recs[s][n].staged => attempt[s][n] # NoAttempt
Losses == sc.worker = "fatal" \/ sc.camera = "lost" => faults >= 1

AptInv == CallsApt /\ StagedRows /\ Losses

\* the customer looks at the analysing screen
Waiting ==
  view.phase = "analyzing" /\ view.code = "none" /\ mode = "customer" /\ ~ctl.closed

\* the calls that will replace it: a retry, a scan that was not cancelled, and
\* the start of a session
Publishes(c, controller) ==
  \/ c.op = "retry"
  \/ /\ c.op = "scan" /\ ~c.stale
     /\ c.pc = "abandonTerminal" => controller.active /\ c.s = controller.session
  \/ Role(c) \in Starting

Answered ==
  Waiting /\ faults <= 1 =>
    \E t \in Slots : task[t] # Nothing /\ Publishes(task[t], ctl)

\* Failures and evidence are only ever added, and a controller stays closed.
Ages ==
  /\ faults' >= faults /\ faults \in Nat /\ faults' \in Nat
  /\ ctl.closed => ctl'.closed
  /\ \A s \in Sessions, n \in Attempts :
       attempt[s][n] # NoAttempt => attempt'[s][n] # NoAttempt

\* What a call relies on is therefore not taken away.
LEMMA CallStaysApt ==
  ASSUME Ages, NEW c, CallApt(c, ctl.closed, faults, attempt),
         c.pc = "infer" => c.s \in Sessions /\ c.n \in Attempts
  PROVE  CallApt(c, ctl'.closed, faults', attempt')
  BY DEF Ages, CallApt

\* A call that waits for inference is a scan with a session and an attempt.
LEMMA InferringCall ==
  ASSUME MemoryInv, NEW u \in Slots, task[u] # Nothing, task[u].pc = "infer"
  PROVE  task[u].s \in Sessions /\ task[u].n \in Attempts
  BY DEF MemoryInv, CallsInv, CallsSound, CallSound, ScanAwaits

\* one call starts, moves or returns
LEMMA AptChanges ==
  ASSUME MemoryInv, CallsApt, Ages, NEW t \in Slots,
         \A u \in Slots : u # t => task'[u] = task[u],
         task'[t] # Nothing => CallApt(task'[t], ctl'.closed, faults', attempt')
  PROVE  CallsApt'
<1> SUFFICES ASSUME NEW u \in Slots, task'[u] # Nothing
             PROVE  CallApt(task'[u], ctl'.closed, faults', attempt')
  BY DEF CallsApt
<1>1. CASE u = t
  BY <1>1
<1>2. CASE u # t
  <2>1. task'[u] = task[u] /\ task[u] # Nothing
    BY <1>2
  <2>2. CallApt(task[u], ctl.closed, faults, attempt)
    BY <2>1 DEF CallsApt
  <2> QED
    BY <2>1, <2>2, CallStaysApt, InferringCall
<1> QED
  BY <1>1, <1>2

\* the scans in flight are cancelled as well
LEMMA AptCancelled ==
  ASSUME MemoryInv, CallsApt, Ages, NEW t \in Slots,
         \A u \in Slots : u # t => task'[u] = Cancelled(task)[u],
         task'[t] # Nothing => CallApt(task'[t], ctl'.closed, faults', attempt')
  PROVE  CallsApt'
<1> SUFFICES ASSUME NEW u \in Slots, task'[u] # Nothing, u # t
             PROVE  CallApt(task'[u], ctl'.closed, faults', attempt')
  BY DEF CallsApt
<1>1. task'[u] = Cancelled(task)[u] /\ task[u] # Nothing
  BY CancelledSound
<1>2. CallApt(task[u], ctl'.closed, faults', attempt')
  BY <1>1, CallStaysApt, InferringCall DEF CallsApt
<1>3. CASE task[u].op = "scan"
  <2>1. task[u] \in CallType /\ task'[u] = [task[u] EXCEPT !.stale = TRUE]
    BY <1>1, <1>3 DEF Cancelled, MemoryInv, CallsInv
  <2>2. /\ task'[u].op = task[u].op /\ task'[u].pc = task[u].pc
        /\ task'[u].s = task[u].s /\ task'[u].n = task[u].n
        /\ task'[u].view = task[u].view /\ task'[u].stale = TRUE
    BY <2>1 DEF CallType
  <2> QED
    BY <1>2, <1>3, <2>2 DEF CallApt
<1>4. CASE task[u].op # "scan"
  BY <1>1, <1>2, <1>4 DEF Cancelled
<1> QED
  BY <1>3, <1>4

\* A call that goes on to another await keeps everything else.
LEMMA GoesOn ==
  ASSUME MemoryInv, NEW t \in Slots, task[t] # Nothing, NEW pc \in Awaits, Goto(t, pc)
  PROVE  /\ \A u \in Slots : u # t => task'[u] = task[u]
         /\ task'[t] # Nothing /\ task'[t].pc = pc /\ task'[t].op = task[t].op
         /\ task'[t].s = task[t].s /\ task'[t].n = task[t].n
         /\ task'[t].stale = task[t].stale /\ task'[t].view = task[t].view
<1>1. task[t] \in CallType
  BY DEF MemoryInv, CallsInv
<1>2. /\ \A u \in Slots : u # t => task'[u] = task[u]
      /\ task'[t] = [task[t] EXCEPT !.pc = pc]
  BY DEF Goto, MemoryInv, CallsInv
<1>3. [task[t] EXCEPT !.pc = pc] \in CallType
  BY <1>1 DEF CallType
<1> QED
  BY <1>1, <1>2, <1>3, NothingIsNoCall DEF CallType

\* One that returns leaves the others alone.
LEMMA ComesBack ==
  ASSUME MemoryInv, NEW t \in Slots, Return(t)
  PROVE  task'[t] = Nothing /\ \A u \in Slots : u # t => task'[u] = task[u]
  BY DEF Return, MemoryInv, CallsInv

\* So does one that starts.
LEMMA SetsOut ==
  ASSUME MemoryInv, NEW t \in Slots, NEW c \in CallType, Spawn(t, c)
  PROVE  /\ task[t] = Nothing /\ task'[t] = c /\ task'[t] # Nothing
         /\ \A u \in Slots : u # t => task'[u] = task[u]
  BY NothingIsNoCall DEF Spawn, MemoryInv, CallsInv

\* Time only passes: no step but a restart undoes a failure or opens what is closed.
LEMMA FlagsAge ==
  ASSUME MemoryInv, [Next]_vars, ~Restart
  PROVE  faults' >= faults /\ faults \in Nat /\ faults' \in Nat /\ (ctl.closed => ctl'.closed)
<1>1. faults \in Nat /\ ctl \in ControllerType
  BY CheckoutBounds DEF MemoryInv, ControllerInv, RestType
<1> SUFFICES faults' \in {faults, faults + 1} /\ (ctl.closed => ctl'.closed)
  BY <1>1
<1> USE <1>1 DEF Works, Breaks, Throws, Fault, Set, ControllerType
<1>2. CASE UNCHANGED vars \/ LoseDevice
  BY <1>2 DEF vars, checkoutVars, LoseDevice
<1>3. ASSUME NEW t \in Slots, Command(t) PROVE faults' = faults /\ (ctl.closed => ctl'.closed)
  <2>1. CASE \/ Initialize(t) \/ StartNextCustomer(t) \/ StartFreshCustomerSession(t)
             \/ Close(t)
    BY <2>1 DEF Initialize, StartNextCustomer, StartFreshCustomerSession, StartSession, Close
  <2>2. CASE QuietCommand(t)
    <3>1. ctl'.closed = ctl.closed
      BY <2>2, CommandCalm DEF Calm, FlagsKept
    <3> QED
      BY <2>2, <3>1 DEF QuietCommand, Scan, RetryScan, CancelScan, Retake,
         ReportCountMismatch, EnterManualCart, RetryManualCart, Choose,
         OverrideResolvedProduct, EditQuantity, Pay, RetryPayment, EnterAdmin
  <2> QED
    BY <1>3, <2>1, <2>2 DEF Command, QuietCommand
<1>4. ASSUME NEW t \in Slots, SessionStartStep(t)
      PROVE  faults' \in {faults, faults + 1} /\ (ctl.closed => ctl'.closed)
  BY <1>4 DEF SessionStartStep, RecoverAtStartup, AbandonOld, ResetCapture, ReadCatalog,
     BeginCheckout, ReadSettings, StartScanner, AbandonStartup, TerminalizeStart,
     ForNewSession, FreshController
<1>5. ASSUME NEW t \in Slots, ScanStep(t)
      PROVE  faults' \in {faults, faults + 1} /\ (ctl.closed => ctl'.closed)
  BY <1>5 DEF ScanStep, Capture, RetainCapture, Stage, Infer, Analyzed, RetainReceipt,
     Complete, PresentDraft, PresentResult, CatchScan, AbandonTerminal, DropCancelled,
     AbandonCancelled
<1>6. ASSUME NEW t \in Slots, ReviewStep(t)
      PROVE  faults' \in {faults, faults + 1} /\ (ctl.closed => ctl'.closed)
  BY <1>6 DEF ReviewStep, PublishMismatch, EnterManualMode, Emptied, EmptyCart,
     RecordChoice, PublishChoice, PublishLines
<1>7. ASSUME NEW t \in Slots, PaymentStep(t)
      PROVE  faults' \in {faults, faults + 1} /\ (ctl.closed => ctl'.closed)
  BY <1>7 DEF PaymentStep, PreparePayment, CommitPayment, PaymentSucceeds
<1>8. ASSUME NEW t \in Slots, AbandonForAdmin(t) \/ AbandonClosed(t)
      PROVE  faults' \in {faults, faults + 1} /\ (ctl.closed => ctl'.closed)
  BY <1>8 DEF AbandonForAdmin, AbandonClosed
<1> QED
  BY <1>2, <1>3, <1>4, <1>5, <1>6, <1>7, <1>8 DEF Next, Step

\* Nor does one take evidence away.
LEMMA StepAges ==
  ASSUME StoreTypeOK, MemoryInv, [Next]_vars, ~Restart
  PROVE  Ages
<1>1. KeepsEvidence
  BY StoreStep, KeepsEvidenceStep
<1> QED
  BY <1>1, FlagsAge DEF Ages, KeepsEvidence

\* A capture is marked as staged by the step that writes its row.
LEMMA RowsStaged ==
  ASSUME StoreTypeOK, MemoryInv, StagedRows, [Next]_vars, ~Restart
  PROVE  StagedRows'
<1> SUFFICES ASSUME NEW s \in Sessions, NEW n \in Attempts, recs'[s][n].staged
             PROVE  attempt'[s][n] # NoAttempt
  BY DEF StagedRows
<1>1. attempt[s][n] # NoAttempt => attempt'[s][n] # NoAttempt
  BY StepAges DEF Ages
<1>2. recs \in [Sessions -> [Attempts -> RecoveryType]] /\ recs[s][n] \in RecoveryType
  BY DEF MemoryInv, RestType
<1>3. CASE recs'[s][n].staged = recs[s][n].staged
  BY <1>1, <1>3 DEF StagedRows
<1>4. ASSUME UNCHANGED recs PROVE recs'[s][n].staged = recs[s][n].staged
  BY <1>4
<1>5. CASE UNCHANGED vars \/ LoseDevice
  BY <1>3, <1>4, <1>5 DEF vars, checkoutVars, LoseDevice
<1>6. ASSUME NEW t \in Slots, Command(t) PROVE attempt'[s][n] # NoAttempt
  BY <1>3, <1>4, <1>6 DEF Command, Initialize, StartNextCustomer,
     StartFreshCustomerSession, StartSession, Close, Scan, RetryScan, CancelScan, Retake,
     ReportCountMismatch, EnterManualCart, RetryManualCart, Choose,
     OverrideResolvedProduct, EditQuantity, Pay, RetryPayment, EnterAdmin
<1>7. ASSUME NEW t \in Slots, Step(t), ~Stage(t) PROVE attempt'[s][n] # NoAttempt
  <2>1. recs'[s][n].staged = recs[s][n].staged
    <3>1. CASE SessionStartStep(t)
      BY <1>4, <3>1 DEF SessionStartStep, RecoverAtStartup, AbandonOld, ResetCapture,
         ReadCatalog, BeginCheckout, ReadSettings, StartScanner, AbandonStartup,
         TerminalizeStart
    <3>2. CASE ReviewStep(t) \/ PaymentStep(t) \/ AbandonForAdmin(t) \/ AbandonClosed(t)
      BY <1>4, <3>2 DEF ReviewStep, PublishMismatch, EnterManualMode, EmptyCart,
         RecordChoice, PublishChoice, PublishLines, PaymentStep, PreparePayment,
         CommitPayment, AbandonForAdmin, AbandonClosed
    <3>3. CASE Analyzed(t) \/ RetainReceipt(t) \/ Complete(t)
      <4>1. task[t].s \in Sessions /\ task[t].n \in Attempts
        BY <3>3 DEF Analyzed, RetainReceipt, Complete, At, MemoryInv, CallsInv,
           CallsSound, CallSound, ScanAwaits
      <4> DEFINE e == recs[task[t].s][task[t].n]
      <4>2. e \in RecoveryType
        BY <1>2, <4>1
      <4>3. \A v : /\ [e EXCEPT !.result = v].staged = e.staged
                   /\ [e EXCEPT !.receipt = v].staged = e.staged
                   /\ [e EXCEPT !.completed = v].staged = e.staged
        BY <4>2 DEF RecoveryType
      <4>4. ASSUME NEW f, recs' = [recs EXCEPT ![task[t].s][task[t].n] = f]
            PROVE  recs'[s][n] = IF s = task[t].s /\ n = task[t].n
                                   THEN f ELSE recs[s][n]
        BY <1>2, <4>1, <4>4
      <4>5. CASE Analyzed(t)
        <5>1. PICK v : \/ UNCHANGED recs
                       \/ recs' = [recs EXCEPT ![task[t].s][task[t].n] =
                                                 [e EXCEPT !.result = v]]
          BY <4>5 DEF Analyzed
        <5> DEFINE f == [e EXCEPT !.result = v]
        <5>2. UNCHANGED recs \/ recs' = [recs EXCEPT ![task[t].s][task[t].n] = f]
          BY <5>1
        <5>3. f.staged = e.staged
          BY <4>3
        <5> HIDE DEF f
        <5>4. UNCHANGED recs \/ recs'[s][n] = IF s = task[t].s /\ n = task[t].n
                                               THEN f ELSE recs[s][n]
          BY <4>4, <5>2
        <5> QED
          BY <1>4, <5>3, <5>4
      <4>6. CASE RetainReceipt(t)
        <5> DEFINE f == [e EXCEPT !.receipt = TRUE]
        <5>2. UNCHANGED recs \/ recs' = [recs EXCEPT ![task[t].s][task[t].n] = f]
          BY <4>6 DEF RetainReceipt
        <5>3. f.staged = e.staged
          BY <4>3
        <5> HIDE DEF f
        <5>4. UNCHANGED recs \/ recs'[s][n] = IF s = task[t].s /\ n = task[t].n
                                               THEN f ELSE recs[s][n]
          BY <4>4, <5>2
        <5> QED
          BY <1>4, <5>3, <5>4
      <4>7. CASE Complete(t)
        <5> DEFINE f == [e EXCEPT !.completed = TRUE]
        <5>2. UNCHANGED recs \/ recs' = [recs EXCEPT ![task[t].s][task[t].n] = f]
          BY <4>7 DEF Complete
        <5>3. f.staged = e.staged
          BY <4>3
        <5> HIDE DEF f
        <5>4. UNCHANGED recs \/ recs'[s][n] = IF s = task[t].s /\ n = task[t].n
                                               THEN f ELSE recs[s][n]
          BY <4>4, <5>2
        <5> QED
          BY <1>4, <5>3, <5>4
      <4> QED
        BY <3>3, <4>5, <4>6, <4>7
    <3> QED
      BY <1>4, <1>7, <3>1, <3>2, <3>3 DEF Step, ScanStep, Capture, RetainCapture, Infer,
         PresentDraft, PresentResult, CatchScan, AbandonTerminal, DropCancelled,
         AbandonCancelled
  <2> QED
    BY <1>3, <2>1
<1>8. ASSUME NEW t \in Slots, Stage(t) PROVE attempt'[s][n] # NoAttempt
  <2>1. CASE UNCHANGED recs
    BY <1>3, <1>4, <2>1
  <2>2. CASE /\ StageAttempt(task[t].s, task[t].n)
             /\ recs' = [recs EXCEPT ![task[t].s][task[t].n].staged = TRUE]
    <3>1. CASE s = task[t].s /\ n = task[t].n
      <4>1. attempt'[s][n] = Staged
        BY <2>2, <3>1 DEF StageAttempt, StoreTypeOK
      <4> QED
        BY <4>1, StoreBounds
    <3>2. CASE ~(s = task[t].s /\ n = task[t].n)
      BY <1>2, <1>3, <2>2, <3>2
    <3> QED
      BY <3>1, <3>2
  <2> QED
    BY <1>8, <2>1, <2>2 DEF Stage
<1> QED
  BY <1>5, <1>6, <1>7, <1>8 DEF Next, Step, ScanStep

\* A device is lost by a failure and by nothing else.
LEMMA DevicesLost ==
  ASSUME MemoryInv, Losses, [Next]_vars, ~Restart
  PROVE  Losses'
<1>1. faults' >= faults /\ faults \in Nat /\ faults' \in Nat /\ sc \in ScannerType
  BY FlagsAge DEF MemoryInv, RestType
<1>2. UNCHANGED <<sc>> => Losses'
  BY <1>1 DEF Losses
<1>3. ASSUME sc'.worker = sc.worker, sc'.camera = sc.camera PROVE Losses'
  BY <1>1, <1>3 DEF Losses
<1>4. CASE LoseDevice
  BY <1>1, <1>4 DEF LoseDevice, Breaks, Fault, Losses
<1>5. ASSUME NEW t \in Slots, StartScanner(t) PROVE Losses'
  <2>1. CASE sc' = [sc EXCEPT !.worker = "ready", !.camera = "ready"]
    <3>1. sc'.worker = "ready" /\ sc'.camera = "ready"
      BY <1>1, <2>1 DEF ScannerType
    <3> QED
      BY <3>1 DEF Losses
  <2>2. CASE Breaks
    BY <1>1, <2>2 DEF Breaks, Fault, Losses
  <2> QED
    BY <1>5, <2>1, <2>2 DEF StartScanner
<1>6. ASSUME NEW t \in Slots, Command(t) PROVE sc'.worker = sc.worker /\ sc'.camera = sc.camera
  <2>1. CASE Scan(t)
    BY <1>1, <2>1 DEF Scan, Analyzing, ScannerType
  <2>2. CASE RetryScan(t)
    BY <1>1, <2>2 DEF RetryScan, Analyzing, ScannerType
  <2>3. CASE Retake(t)
    BY <1>1, <2>3 DEF Retake, ScannerType
  <2>4. CASE UNCHANGED sc
    BY <2>4
  <2> QED
    BY <1>6, <2>1, <2>2, <2>3, <2>4 DEF Command, Initialize, StartNextCustomer,
       StartFreshCustomerSession, StartSession, Close, CancelScan, ReportCountMismatch,
       EnterManualCart, RetryManualCart, Choose, OverrideResolvedProduct, EditQuantity,
       Pay, RetryPayment, EnterAdmin
<1>7. ASSUME NEW t \in Slots, Step(t), ~StartScanner(t)
      PROVE  sc'.worker = sc.worker /\ sc'.camera = sc.camera
  <2>1. CASE SessionStartStep(t)
    BY <1>1, <1>7, <2>1 DEF SessionStartStep, RecoverAtStartup, AbandonOld, ResetCapture,
       ReadCatalog, BeginCheckout, ReadSettings, AbandonStartup, TerminalizeStart,
       ScannerType
  <2>2. CASE ReviewStep(t) \/ PaymentStep(t) \/ AbandonForAdmin(t) \/ AbandonClosed(t)
    BY <2>2 DEF ReviewStep, PublishMismatch, EnterManualMode, EmptyCart,
       RecordChoice, PublishChoice, PublishLines, PaymentStep, PreparePayment,
       CommitPayment, AbandonForAdmin, AbandonClosed
  <2>3. CASE ScanStep(t)
    BY <1>1, <2>3 DEF ScanStep, Capture, RetainCapture, Stage, Infer, Analyzed,
       RetainReceipt, Complete, PresentDraft, PresentResult, CatchScan, AbandonTerminal,
       DropCancelled, AbandonCancelled, ScannerFails, ScannerType
  <2> QED
    BY <1>7, <2>1, <2>2, <2>3 DEF Step
<1> QED
  BY <1>2, <1>3, <1>4, <1>5, <1>6, <1>7 DEF Next, vars, checkoutVars

\* What a step of call t, or a command given to slot t, must leave of the answer
\* the customer waits for: t itself will publish it, or t had no part in it and
\* all the others are as they were.
Heard(t) ==
  Waiting' /\ faults' <= 1 =>
    \/ task'[t] # Nothing /\ Publishes(task'[t], ctl')
    \/ /\ Waiting /\ ctl'.active = ctl.active /\ ctl'.session = ctl.session
       /\ task[t] # Nothing => ~Publishes(task[t], ctl)
       /\ \A u \in Slots : u # t => task'[u] = task[u]

\* The screen is left alone, and the session in use is the same.
Unspoken ==
  UNCHANGED <<view, mode>> /\ ctl'.active = ctl.active /\ ctl'.session = ctl.session

\* Such a step leaves the answer to come.
LEMMA HeardAnswers ==
  ASSUME MemoryInv, Answered, Ages, NEW t \in Slots, Heard(t)
  PROVE  Answered'
<1>1. faults' <= 1 => faults <= 1
  BY DEF Ages
<1> QED
  BY <1>1 DEF Answered, Heard, Publishes

\* A step that shows anything else ends the waiting.
LEMMA Spoken ==
  ASSUME Ages, NEW v, Show(v), v.phase # "analyzing" \/ v.code # "none"
  PROVE  ~Waiting'
  BY DEF Ages, Show, Waiting

\* A cleared screen shows the phase and the code it is given.
LEMMA BlankShows ==
  \A phase, code : Blank(phase, code).phase = phase /\ Blank(phase, code).code = code
  BY DEF Blank

\* Nobody waits, so nothing is owed.
LEMMA HeardWhere ==
  ASSUME NEW t, ~Waiting'
  PROVE  Heard(t)
  BY DEF Heard

\* A step that touches neither the calls nor the screen owes what was owed.
LEMMA HeardStill ==
  ASSUME Ages, NEW t \in Slots, UNCHANGED task, Unspoken
  PROVE  Heard(t)
  BY DEF Heard, Unspoken, Ages, Waiting, Publishes

\* A call that will publish nothing may start, move or return.
LEMMA HeardBeside ==
  ASSUME Ages, NEW t \in Slots, Unspoken,
         task[t] # Nothing => ~Publishes(task[t], ctl),
         \A u \in Slots : u # t => task'[u] = task[u]
  PROVE  Heard(t)
  BY DEF Heard, Unspoken, Ages, Waiting

\* the awaits at which a call relies on something of this section
Wary == {"drop", "abandonTerminal", "close", "present", "display", "infer"}

\* Other awaits ask for nothing, if the call is neither a scan nor a retry.
LEMMA AptElsewhere ==
  ASSUME NEW c, c.op \notin {"scan", "retry"}, c.pc \notin Wary, NEW k, NEW f, NEW rows
  PROVE  CallApt(c, k, f, rows)
  BY DEF CallApt, Wary

\* A call of another kind, away from the awaits of a start, publishes nothing
\* the customer waits for.
LEMMA Bystands ==
  ASSUME NEW c, c.op \notin {"scan", "retry"}, Role(c) \notin Starting, NEW controller
  PROVE  ~Publishes(c, controller)
  BY DEF Publishes

\* A call at such an await is neither a scan nor a retry.
LEMMA OtherCall ==
  ASSUME AptInv, NEW t \in Slots, task[t] # Nothing,
         task[t].pc \notin ScanAwaits \cup {"abandonTerminal"}
  PROVE  task[t].op \notin {"scan", "retry"}
  BY DEF AptInv, CallsApt, CallApt

\* A call that starts a session goes on starting it.
LEMMA StarterHeard ==
  ASSUME MemoryInv, AptInv, Ages, NEW t \in Slots, Role(task[t]) \in Starting,
         NEW pc \in Starting, Goto(t, pc)
  PROVE  CallsApt' /\ Heard(t)
<1>1. /\ task[t] # Nothing /\ task[t].pc \in Starting
      /\ task[t].op \notin {"retake", "restart"} /\ pc \in Awaits
  BY DEF Role, Starting, Awaits
<1>2. task[t].op \notin {"scan", "retry"}
  BY <1>1, OtherCall DEF Starting, ScanAwaits
<1>3. /\ \A u \in Slots : u # t => task'[u] = task[u]
      /\ task'[t] # Nothing /\ task'[t].pc = pc /\ task'[t].op = task[t].op
  BY <1>1, GoesOn
<1>4. CallApt(task'[t], ctl'.closed, faults', attempt')
  BY <1>2, <1>3, AptElsewhere DEF Wary, Starting
<1>5. Role(task'[t]) \in Starting
  BY <1>1, <1>3 DEF Role
<1> QED
  BY <1>3, <1>4, <1>5, AptChanges DEF AptInv, Heard, Publishes

\* A call that returns relies on nothing any more.
LEMMA AptReturns ==
  ASSUME MemoryInv, AptInv, Ages, NEW t \in Slots, Return(t)
  PROVE  CallsApt'
  BY ComesBack, AptChanges DEF AptInv

\* A call that is no scan goes on, or starts, where nothing is asked of it.
LEMMA AptMoves ==
  ASSUME MemoryInv, AptInv, Ages, NEW t \in Slots, task[t] # Nothing,
         task[t].op \notin {"scan", "retry"}, NEW pc \in Awaits \ Wary, Goto(t, pc)
  PROVE  CallsApt'
  BY GoesOn, AptElsewhere, AptChanges DEF AptInv

\* So does one that starts, and it owes the customer nothing.
LEMMA AptStarts ==
  ASSUME MemoryInv, AptInv, Ages, NEW t \in Slots, NEW c,
         c.op \notin {"scan", "retry"}, c.pc \notin Wary, Spawn(t, c)
  PROVE  CallsApt' /\ (Unspoken => Heard(t))
<1>1. CallApt(c, ctl'.closed, faults', attempt')
  BY AptElsewhere
<1>2. /\ task[t] = Nothing /\ task'[t] = c
      /\ \A u \in Slots : u # t => task'[u] = task[u]
  BY DEF Spawn, MemoryInv, CallsInv
<1>3. CallsApt'
  BY <1>1, <1>2, AptChanges DEF AptInv
<1>4. Unspoken => Heard(t)
  BY <1>2, HeardBeside
<1> QED
  BY <1>3, <1>4

\* A scan or a retry goes on, and goes on owing the customer an answer.
LEMMA ScanHeard ==
  ASSUME MemoryInv, AptInv, Ages, Unspoken, NEW t \in Slots, task[t] # Nothing,
         task[t].pc \in ScanAwaits, NEW pc \in ScanAwaits, Goto(t, pc),
         pc = "drop" => task[t].op # "retry" /\ task[t].stale,
         pc \in {"present", "display"} => task[t].view.phase \in Reviewing,
         pc = "infer" => attempt'[task[t].s][task[t].n] # NoAttempt
  PROVE  CallsApt' /\ Heard(t)
<1>1. /\ \A u \in Slots : u # t => task'[u] = task[u]
      /\ task'[t] # Nothing /\ task'[t].pc = pc /\ task'[t].op = task[t].op
      /\ task'[t].s = task[t].s /\ task'[t].n = task[t].n
      /\ task'[t].stale = task[t].stale /\ task'[t].view = task[t].view
  BY GoesOn DEF Awaits
<1>2. CallApt(task[t], ctl.closed, faults, attempt)
  BY DEF AptInv, CallsApt
<1>3. pc \notin {"abandonTerminal", "close"}
  BY DEF ScanAwaits
<1>4. CallApt(task'[t], ctl'.closed, faults', attempt')
  BY <1>1, <1>2, <1>3 DEF CallApt
<1>5. Publishes(task[t], ctl) => Publishes(task'[t], ctl')
  BY <1>1, <1>3 DEF Publishes, Role, Starting, ScanAwaits, Unspoken
<1> QED
  BY <1>1, <1>4, <1>5, AptChanges DEF AptInv, Heard, Unspoken, Ages, Waiting

\* A session start shows the screen of its outcome before it returns.
LEMMA StartHeard ==
  ASSUME MemoryInv, OpenInv, AptInv, Ages, NEW t \in Slots, SessionStartStep(t)
  PROVE  CallsApt' /\ Heard(t)
<1>1. ASSUME NEW pc \in Starting, At(t, pc),
             pc = "reset" => task[t].op \notin {"retake", "restart"}
      PROVE  Role(task[t]) \in Starting
  BY <1>1, StarterAt
<1>2. ASSUME Role(task[t]) \in Starting, NEW pc \in Starting, Goto(t, pc)
      PROVE  CallsApt' /\ Heard(t)
  BY <1>2, StarterHeard
<1>3. ASSUME Return(t), NEW v, Show(v), v.phase # "analyzing" PROVE CallsApt' /\ Heard(t)
  BY <1>3, AptReturns, Spoken, HeardWhere
<1>4. ASSUME Return(t), NEW phase \in Phases \ {"analyzing"}, NEW code,
             Show(Blank(phase, code))
      PROVE  CallsApt' /\ Heard(t)
  BY <1>3, <1>4, BlankShows
<1> USE DEF Phases
<1>5. CASE RecoverAtStartup(t)
  BY <1>1, <1>2, <1>5 DEF RecoverAtStartup, Starting
<1>6. CASE AbandonOld(t)
  BY <1>1, <1>2, <1>6 DEF AbandonOld, Starting
<1>7. CASE ResetCapture(t)
  <2>1. CASE task[t].op \in {"retake", "restart"}
    <3>1. CASE UNCHANGED view
      <4>1. task[t] # Nothing /\ task[t].op \notin {"scan", "retry"}
            /\ Role(task[t]) \notin Starting
        BY <1>7, <2>1 DEF ResetCapture, At, Role, Starting
      <4>2. Unspoken /\ Return(t)
        BY <1>7, <2>1, <3>1 DEF ResetCapture, Unspoken
      <4> QED
        BY <4>1, <4>2, AptReturns, Bystands, ComesBack, HeardBeside
    <3> QED
      BY <1>4, <1>7, <2>1, <3>1 DEF ResetCapture
  <2>2. CASE task[t].op \notin {"retake", "restart"}
    BY <1>1, <1>2, <1>7, <2>2 DEF ResetCapture, Starting
  <2> QED
    BY <2>1, <2>2
<1>8. CASE ReadCatalog(t)
  BY <1>1, <1>2, <1>8 DEF ReadCatalog, Starting
<1>9. CASE BeginCheckout(t)
  BY <1>1, <1>2, <1>9 DEF BeginCheckout, Starting
<1>10. CASE ReadSettings(t)
  BY <1>1, <1>2, <1>4, <1>10 DEF ReadSettings, Opened, Starting
<1>11. CASE StartScanner(t)
  BY <1>1, <1>2, <1>4, <1>11 DEF StartScanner, Opened, Starting
<1>12. CASE AbandonStartup(t)
  BY <1>1, <1>2, <1>4, <1>12 DEF AbandonStartup, Starting
<1>13. CASE TerminalizeStart(t)
  BY <1>4, <1>13 DEF TerminalizeStart
<1> QED
  BY <1>5, <1>6, <1>7, <1>8, <1>9, <1>10, <1>11, <1>12, <1>13 DEF SessionStartStep

\* An unusable result asks for a retake, and any other draws a review.
LEMMA MappedReviews ==
  ASSUME NEW scan, NEW r
  PROVE  Mapped(scan, r).phase \in Reviewing
  BY BlankShows DEF Mapped, Reviewing

\* A scan or a retry shows the customer its result or its failure: it ends without
\* a word only if it was cancelled, or if ending the session failed as well.
LEMMA ScanStepHeard ==
  ASSUME StoreTypeOK, MemoryInv, OpenInv, AptInv, Ages, NEW t \in Slots, ScanStep(t)
  PROVE  CallsApt' /\ Heard(t)
<1>0. /\ task[t] # Nothing => task[t] \in CallType /\ CallApt(task[t], ctl.closed, faults, attempt)
      /\ ctl \in ControllerType
  BY DEF MemoryInv, CallsInv, ControllerInv, AptInv, CallsApt
<1>1. ASSUME At(t, "capture") \/ At(t, "retain") \/ At(t, "stage") \/ At(t, "infer")
               \/ At(t, "analyzed") \/ At(t, "receipt") \/ At(t, "complete")
               \/ At(t, "present") \/ At(t, "display") \/ At(t, "catch") \/ At(t, "drop")
      PROVE  task[t] # Nothing /\ task[t].pc \in ScanAwaits
  BY <1>1 DEF At, ScanAwaits
<1>2. ASSUME Unspoken, task[t] # Nothing, task[t].pc \in ScanAwaits,
             NEW pc \in ScanAwaits \ {"drop", "present", "display", "infer"}, Goto(t, pc)
      PROVE  CallsApt' /\ Heard(t)
  BY <1>2, ScanHeard
<1>3. ASSUME Return(t), NEW v, Show(v), v.phase # "analyzing" \/ v.code # "none"
      PROVE  CallsApt' /\ Heard(t)
  BY <1>3, AptReturns, Spoken, HeardWhere
<1>4. ASSUME Return(t), Unspoken, task[t] # Nothing, ~Publishes(task[t], ctl)
      PROVE  CallsApt' /\ Heard(t)
  BY <1>4, AptReturns, ComesBack, HeardBeside
<1> USE DEF ScannerFails
<1>5. CASE Capture(t)
  BY <1>1, <1>2, <1>5 DEF Capture, Unspoken, ScanAwaits
<1>6. CASE RetainCapture(t)
  BY <1>1, <1>2, <1>6 DEF RetainCapture, Unspoken, ScanAwaits
<1>7. CASE Stage(t)
  <2>1. CASE StageAttempt(task[t].s, task[t].n) /\ Goto(t, "infer")
    <3>1. task[t].s \in Sessions /\ task[t].n \in Attempts
      BY <1>1, <1>7 DEF Stage, MemoryInv, CallsInv, CallsSound, CallSound
    <3>2. attempt'[task[t].s][task[t].n] # NoAttempt
      BY <2>1, <3>1, StoreBounds DEF StageAttempt, StoreTypeOK
    <3> QED
      BY <1>1, <1>7, <2>1, <3>2, ScanHeard DEF Stage, Unspoken, ScanAwaits
  <2> QED
    BY <1>1, <1>2, <1>7, <2>1 DEF Stage, Unspoken, ScanAwaits
<1>8. CASE Infer(t)
  BY <1>1, <1>2, <1>8 DEF Infer, Unspoken, ScanAwaits
<1>9. CASE Analyzed(t)
  <2>1. CASE Goto(t, "drop") /\ task[t].stale
    <3>1. task[t].op # "retry"
      BY <1>0, <1>1, <1>9, <2>1 DEF Analyzed, CallApt
    <3> QED
      BY <1>1, <1>9, <2>1, <3>1, ScanHeard DEF Analyzed, Unspoken, ScanAwaits
  <2> QED
    BY <1>1, <1>2, <1>9, <2>1 DEF Analyzed, Unspoken, ScanAwaits
<1>10. CASE RetainReceipt(t)
  BY <1>1, <1>2, <1>10 DEF RetainReceipt, Unspoken, ScanAwaits
<1>11. CASE Complete(t)
  <2> DEFINE v == Mapped(<<task[t].s, task[t].n>>, recs[task[t].s][task[t].n].result)
             c == [task[t] EXCEPT !.pc = "present", !.view = v]
  <2>1. task[t] # Nothing /\ task[t].pc = "complete" /\ task[t] \in CallType
    BY <1>0, <1>11 DEF Complete, At
  <2>4. c \in CallType
    <3>1. /\ CallSound(task[t], recs, confirmed)
          /\ task[t].s \in Sessions /\ task[t].n \in Attempts
          /\ recs[task[t].s][task[t].n] \in RecoveryType
      BY <1>1, <1>11 DEF Complete, MemoryInv, CallsInv, CallsSound, CallSound, RestType
    <3>2. v \in ViewType
      BY <2>1, <3>1, MappedType DEF CallSound, RecoveryType, Scans
    <3> HIDE DEF v
    <3> QED
      BY <2>1, <3>2 DEF CallType, Awaits, ScanAwaits
  <2>2. Unspoken
    BY <1>0, <1>11 DEF Complete, Unspoken, ControllerType
  <2>3. CASE task' = [task EXCEPT ![t].pc = "present", ![t].view = v]
    <3>1. task' = [task EXCEPT ![t] = c]
      BY <2>3 DEF MemoryInv, CallsInv
    <3>2. /\ c.pc = "present" /\ c.op = task[t].op /\ c.stale = task[t].stale
          /\ c.view = v
      BY <2>1 DEF CallType
    <3>3. v.phase \in Reviewing
      BY MappedReviews
    <3> HIDE DEF c, v
    <3>4. task'[t] = c /\ \A u \in Slots : u # t => task'[u] = task[u]
      BY <3>1 DEF MemoryInv, CallsInv
    <3>5. CallApt(task'[t], ctl'.closed, faults', attempt')
      BY <1>0, <2>1, <3>2, <3>3, <3>4 DEF CallApt, ScanAwaits
    <3>6. c # Nothing
      BY <2>4, NothingIsNoCall
    <3>7. Publishes(task[t], ctl) => Publishes(task'[t], ctl')
      BY <2>1, <3>2, <3>4 DEF Publishes, Role, Starting
    <3> QED
      BY <2>1, <2>2, <3>4, <3>5, <3>6, <3>7, AptChanges
         DEF AptInv, Heard, Unspoken, Ages, Waiting
  <2> QED
    BY <1>1, <1>2, <1>11, <2>2, <2>3 DEF Complete, ScanAwaits
<1>12. CASE PresentDraft(t)
  <2>1. task[t] # Nothing => task[t].view.phase \in Reviewing
    BY <1>0, <1>12 DEF PresentDraft, At, CallApt
  <2> QED
    BY <1>1, <1>2, <1>12, <2>1, ScanHeard DEF PresentDraft, Unspoken, ScanAwaits
<1>13. CASE PresentResult(t)
  <2>1. task[t] # Nothing => task[t].view.phase \in Reviewing
    BY <1>0, <1>13 DEF PresentResult, At, CallApt
  <2>2. task[t] # Nothing => task[t].view.phase # "analyzing"
    BY <2>1 DEF Reviewing
  <2> QED
    BY <1>1, <1>2, <1>3, <1>13, <2>2 DEF PresentResult, At, Unspoken, ScanAwaits
<1>14. CASE CatchScan(t)
  <2>1. task[t] # Nothing /\ task[t].pc = "catch" /\ task[t] \in CallType
    BY <1>0, <1>14 DEF CatchScan, At
  <2>2. CASE task[t].op = "scan" /\ task[t].stale /\ Goto(t, "drop") /\ UNCHANGED view
    BY <1>1, <1>14, <2>2, ScanHeard DEF CatchScan, Unspoken, ScanAwaits
  <2>3. CASE /\ task[t].op = "scan" /\ ~task[t].stale
             /\ sc.worker = "fatal" \/ sc.camera = "lost"
             /\ Abandons(t) /\ UNCHANGED view
    <3>1. /\ \A u \in Slots : u # t => task'[u] = task[u]
          /\ task'[t] # Nothing /\ task'[t].pc = "abandonTerminal"
          /\ task'[t].op = "scan" /\ ~task'[t].stale /\ task'[t].s = ctl.session
      BY <2>1, <2>3, AbandonsNext
    <3>2. faults' >= 1
      BY <2>3 DEF AptInv, Losses, Ages
    <3>3. CallApt(task'[t], ctl'.closed, faults', attempt')
      BY <3>1, <3>2 DEF CallApt
    <3>4. ctl'.active /\ ctl'.session = ctl.session
      BY <1>14, <2>3 DEF CatchScan, Abandons
    <3> QED
      BY <3>1, <3>3, <3>4, AptChanges DEF AptInv, Heard, Publishes
  <2>4. CASE Return(t) /\ (\/ Show(Blank("terminalFailure", "scanner_terminal"))
                           \/ Show(Blank("recoverableFailure", "audit_or_scan")))
    BY <1>3, <2>4, BlankShows
  <2> QED
    BY <1>14, <2>2, <2>3, <2>4 DEF CatchScan, Abandons
<1>15. CASE AbandonTerminal(t)
  <2>1. /\ task[t] # Nothing /\ Return(t)
        /\ task[t].op = "scan" /\ faults >= 1 /\ task[t].pc = "abandonTerminal"
    BY <1>0, <1>15 DEF AbandonTerminal, At, CallApt
  <2>2. CASE Show(Blank("terminalFailure", "scanner_terminal"))
    BY <1>3, <2>1, <2>2, BlankShows
  <2>3. CASE Throws(CanAbandonSession(task[t].s)) /\ UNCHANGED <<view, ctl>>
    <3>1. CASE ctl.active /\ task[t].s = ctl.session
      <4>1. CanAbandonSession(task[t].s)
        BY <3>1 DEF CanAbandonSession, IsActive, OpenInv, Known, MemoryInv, ControllerInv
      <4>2. faults' > 1
        BY <2>1, <2>3, <4>1 DEF Throws, Fault, Ages
      <4> QED
        BY <2>1, <4>2, AptReturns DEF Heard, Ages
    <3>2. CASE ~(ctl.active /\ task[t].s = ctl.session)
      <4>1. ~Publishes(task[t], ctl)
        BY <2>1, <3>2 DEF Publishes, Role, Starting
      <4> QED
        BY <1>4, <1>15, <2>1, <2>3, <4>1 DEF AbandonTerminal, Unspoken
    <3> QED
      BY <3>1, <3>2
  <2> QED
    BY <1>15, <2>2, <2>3 DEF AbandonTerminal
<1>16. CASE DropCancelled(t)
  <2>1. task[t] # Nothing /\ task[t].pc = "drop" /\ Return(t)
    BY <1>16 DEF DropCancelled, At
  <2>2. ~Publishes(task[t], ctl)
    BY <1>0, <2>1 DEF CallApt, Publishes, Role, Starting
  <2> QED
    BY <1>4, <1>16, <2>1, <2>2 DEF DropCancelled, Unspoken
<1>17. CASE AbandonCancelled(t)
  <2>1. CASE /\ task' = [Cancelled(task) EXCEPT ![t] = Nothing]
             /\ Show(Blank("terminalFailure", "analysis_cancelled"))
    <3>1. task'[t] = Nothing /\ \A u \in Slots : u # t => task'[u] = Cancelled(task)[u]
      BY <2>1, CancelledSound
    <3>2. ~Waiting'
      BY <2>1, Spoken, BlankShows
    <3> QED
      BY <3>1, <3>2, AptCancelled, HeardWhere DEF AptInv
  <2>2. CASE Return(t) /\ Show(Blank("analyzing", "cancellation_persistence"))
    BY <1>3, <2>2, BlankShows
  <2> QED
    BY <1>17, <2>1, <2>2 DEF AbandonCancelled
<1> QED
  BY <1>5, <1>6, <1>7, <1>8, <1>9, <1>10, <1>11, <1>12, <1>13, <1>14, <1>15, <1>16, <1>17
     DEF ScanStep

\* A screen that is shown again in another phase ends the waiting too.
LEMMA Rephrased ==
  ASSUME Ages, NEW v \in ViewType, NEW phase, phase # "analyzing", NEW code, NEW lines,
         \/ Show([v EXCEPT !.phase = phase])
         \/ Show([v EXCEPT !.phase = phase, !.code = code])
         \/ Show([v EXCEPT !.code = code, !.phase = phase])
         \/ Show([v EXCEPT !.phase = phase, !.code = code, !.lines = lines])
  PROVE  ~Waiting'
  BY DEF Ages, Show, Waiting, ViewType

\* What the calls that a command builds are, and where they start.
LEMMA BuiltCalls ==
  ASSUME ctl \in ControllerType
  PROVE  /\ \A o, p, scan :
              LET c == [Call("resolve", "record") EXCEPT !.o = o, !.p = p,
                                                         !.view.scan = scan]
              IN  c.op = "resolve" /\ c.pc = "record"
         /\ \A lines : LET c == [Call("edit", "persist") EXCEPT !.view.lines = lines]
                       IN  c.op = "edit" /\ c.pc = "persist"
  BY CallTyped, NamesOfCalls DEF CallType

\* Reviewing the order owes the customer who waits for a scan nothing.
LEMMA ReviewHeard ==
  ASSUME MemoryInv, AptInv, Ages, NEW t \in Slots, ReviewStep(t)
  PROVE  CallsApt' /\ Heard(t)
<1>1. /\ task[t] # Nothing /\ task[t] \in CallType /\ task[t].view \in ViewType
      /\ task[t].pc \in {"mismatch", "enterManual", "emptyCart", "record", "redraw",
                         "persist"}
  BY DEF ReviewStep, PublishMismatch, EnterManualMode, EmptyCart, RecordChoice,
     PublishChoice, PublishLines, At, MemoryInv, CallsInv, CallType
<1>2. task[t].op \notin {"scan", "retry"} /\ ~Publishes(task[t], ctl)
  BY <1>1, OtherCall DEF Publishes, Role, Starting, ScanAwaits
<1>3. ctl \in ControllerType /\ view \in ViewType
  BY DEF MemoryInv, ControllerInv, RestType
<1>4. ASSUME Return(t), NEW v, Show(v), v.phase # "analyzing" PROVE CallsApt' /\ Heard(t)
  BY <1>4, AptReturns, Spoken, HeardWhere
<1>5. ASSUME Return(t), Unspoken PROVE CallsApt' /\ Heard(t)
  BY <1>2, <1>5, AptReturns, ComesBack, HeardBeside
<1>6. ASSUME NEW pc \in Awaits \ Wary, Goto(t, pc), Unspoken \/ ~Waiting'
      PROVE  CallsApt' /\ Heard(t)
  BY <1>1, <1>2, <1>6, AptMoves, GoesOn, HeardBeside, HeardWhere
<1>7. CASE PublishMismatch(t)
  <2>1. Show(Blank("retakeRequired", "count_mismatch")) => ~Waiting'
    BY Spoken, BlankShows
  <2>2. UNCHANGED view => Unspoken
    BY <1>7 DEF PublishMismatch, Unspoken
  <2> QED
    BY <1>4, <1>5, <1>6, <1>7, <2>1, <2>2, BlankShows DEF PublishMismatch, Awaits, Wary
<1>8. CASE EnterManualMode(t)
  <2>1. UNCHANGED view => Unspoken
    BY <1>3, <1>8 DEF EnterManualMode, Emptied, Unspoken, ControllerType
  <2> QED
    BY <1>4, <1>6, <1>8, <2>1, BlankShows
       DEF EnterManualMode, ManualCartFailure, Awaits, Wary
<1>9. CASE EmptyCart(t)
  BY <1>4, <1>9, BlankShows DEF EmptyCart, ManualCartFailure
<1>10. CASE RecordChoice(t)
  <2> DEFINE o == task[t].o
             p == task[t].p
             drafts == [view.drafts EXCEPT ![o] = IF @ = Absent THEN @ ELSE p]
             v == [view EXCEPT !.drafts = drafts, !.lines = LinesFor(drafts, ctl.added)]
             c == [task[t] EXCEPT !.pc = "redraw", !.s = ctl.session, !.view = v]
  <2>1. c.pc = "redraw" /\ c.op = task[t].op
    BY <1>1 DEF CallType
  <2>2. task' = [task EXCEPT ![t] = c] \/ Return(t)
    BY <1>10 DEF RecordChoice, MemoryInv, CallsInv
  <2>3. Unspoken
    BY <1>3, <1>10 DEF RecordChoice, Set, Unspoken, ControllerType
  <2> HIDE DEF c
  <2>4. CASE task' = [task EXCEPT ![t] = c]
    <3>1. task'[t] = c /\ \A u \in Slots : u # t => task'[u] = task[u]
      BY <2>4 DEF MemoryInv, CallsInv
    <3>2. CallApt(c, ctl'.closed, faults', attempt')
      BY <1>2, <2>1, AptElsewhere DEF Wary
    <3> QED
      BY <1>2, <2>3, <3>1, <3>2, AptChanges, HeardBeside DEF AptInv
  <2> QED
    BY <1>5, <2>2, <2>3, <2>4
<1>11. CASE PublishChoice(t)
  <2>1. CASE UNCHANGED view
    BY <1>5, <1>11, <2>1 DEF PublishChoice, Unspoken
  <2>2. ASSUME NEW phase \in {"orderReview", "customerReview"},
               Show([task[t].view EXCEPT !.code = "none", !.phase = phase])
        PROVE  CallsApt' /\ Heard(t)
    BY <1>1, <1>11, <2>2, Rephrased, AptReturns, HeardWhere DEF PublishChoice
  <2> QED
    BY <1>11, <2>1, <2>2 DEF PublishChoice
<1>12. CASE PublishLines(t)
  <2>1. CASE UNCHANGED view
    BY <1>5, <1>12, <2>1 DEF PublishLines, Unspoken
  <2>2. CASE Show([view EXCEPT !.phase = "orderReview", !.code = "none",
                               !.lines = task[t].view.lines])
    BY <1>3, <1>12, <2>2, Rephrased, AptReturns, HeardWhere DEF PublishLines
  <2> QED
    BY <1>12, <2>1, <2>2 DEF PublishLines
<1> QED
  BY <1>7, <1>8, <1>9, <1>10, <1>11, <1>12 DEF ReviewStep

\* Nor does a payment.
LEMMA PaymentHeard ==
  ASSUME MemoryInv, AptInv, Ages, NEW t \in Slots, PaymentStep(t)
  PROVE  CallsApt' /\ Heard(t)
<1>1. /\ task[t] # Nothing /\ task[t] \in CallType /\ task[t].view \in ViewType
      /\ task[t].pc \in {"prepare", "commit"}
  BY DEF PaymentStep, PreparePayment, CommitPayment, At, MemoryInv, CallsInv, CallType
<1>2. task[t].op \notin {"scan", "retry"} /\ ~Publishes(task[t], ctl)
  BY <1>1, OtherCall DEF Publishes, Role, Starting, ScanAwaits
<1>3. CASE PreparePayment(t)
  <2>1. CASE UNCHANGED view /\ Accepts(t)
    <3>1. Unspoken
      BY <1>3, <2>1 DEF PreparePayment, Set, Unspoken, MemoryInv, ControllerInv,
         ControllerType
    <3>2. CallsApt'
      <4>1. /\ \A u \in Slots : u # t => task'[u] = task[u]
            /\ task'[t].op \notin {"scan", "retry"} /\ task'[t].pc = "prepare"
        BY <1>1, <1>2, <1>3, <2>1, AcceptsNext DEF PreparePayment, At
      <4> QED
        BY <4>1, AptElsewhere, AptChanges DEF AptInv, Wary
    <3> QED
      BY <1>1, <1>2, <2>1, <3>1, <3>2, AcceptsNext, HeardBeside
  <2>2. ASSUME NEW pc \in {"join", "commit"}, Goto(t, pc), UNCHANGED <<view, ctl>>
        PROVE  CallsApt' /\ Heard(t)
    <3>1. Unspoken /\ pc \in Awaits \ Wary
      BY <1>3, <2>2 DEF PreparePayment, Unspoken, Awaits, Wary
    <3> QED
      BY <1>1, <1>2, <2>2, <3>1, AptMoves, GoesOn, HeardBeside
  <2>3. CASE PaymentFails(t) /\ Return(t)
    <3>1. ~Waiting'
      BY <1>1, <2>3, Rephrased DEF PaymentFails
    <3> QED
      BY <2>3, <3>1, AptReturns, HeardWhere
  <2> QED
    BY <1>3, <2>1, <2>2, <2>3, UpcomingTyped DEF PreparePayment, Accepts
<1>4. CASE CommitPayment(t)
  <2>1. PICK last \in LastCallers(t) : PaymentSucceeds(last) \/ PaymentFails(last)
    BY <1>4 DEF CommitPayment
  <2>2. task[last].view \in ViewType
    BY <1>1, <2>1 DEF LastCallers, Joined, At, MemoryInv, CallsInv, CallType
  <2>3. ~Waiting'
    BY <2>1, <2>2, Rephrased DEF PaymentSucceeds, PaymentFails
  <2>4. \A u \in Slots : task'[u] # Nothing => task'[u] = task[u]
    BY <1>4 DEF CommitPayment, Settled
  <2>5. CallsApt'
    BY <2>4, CallStaysApt, InferringCall DEF AptInv, CallsApt
  <2> QED
    BY <2>3, <2>5, HeardWhere
<1> QED
  BY <1>3, <1>4 DEF PaymentStep

\* The administrator and the closing leave the customer's screen.
LEMMA LeavingHeard ==
  ASSUME MemoryInv, AptInv, Ages, NEW t \in Slots, AbandonForAdmin(t) \/ AbandonClosed(t)
  PROVE  CallsApt' /\ Heard(t)
<1>1. task[t] # Nothing /\ task[t].pc \in {"admin", "close"}
  BY DEF AbandonForAdmin, AbandonClosed, At
<1>2. ~Publishes(task[t], ctl)
  BY <1>1, OtherCall DEF Publishes, Role, Starting, ScanAwaits
<1>3. CASE AbandonForAdmin(t)
  <2>1. CASE mode' = "admin" /\ task' = [Cancelled(task) EXCEPT ![t] = Nothing]
    <3>1. task'[t] = Nothing /\ \A u \in Slots : u # t => task'[u] = Cancelled(task)[u]
      BY <2>1, CancelledSound
    <3> QED
      BY <2>1, <3>1, AptCancelled, HeardWhere DEF AptInv, Waiting
  <2>2. CASE Return(t) /\ UNCHANGED <<ctl, mode>>
    BY <1>2, <1>3, <2>2, AptReturns, ComesBack, HeardBeside DEF AbandonForAdmin, Unspoken
  <2> QED
    BY <1>3, <2>1, <2>2 DEF AbandonForAdmin
<1>4. CASE AbandonClosed(t)
  <2>1. ctl.closed
    BY <1>1, <1>4 DEF AbandonClosed, At, AptInv, CallsApt, CallApt
  <2> QED
    BY <1>4, <2>1, AptReturns, HeardWhere DEF AbandonClosed, Ages, Waiting
<1> QED
  BY <1>3, <1>4

\* A button gives the customer a screen, or a call that will: only scan and retry
\* make the customer wait, and each starts the call that ends it.
LEMMA CommandHeard ==
  ASSUME MemoryInv, OpenInv, AptInv, Ages, NEW t \in Slots, Command(t)
  PROVE  CallsApt' /\ Heard(t)
<1>1. ctl \in ControllerType /\ view \in ViewType /\ (ctl.active => ctl.session \in Sessions)
  BY DEF MemoryInv, ControllerInv, RestType
<1>2. ASSUME NEW op \in Calls \ {"scan", "retry"}, NEW pc \in Awaits \ Wary,
             Spawn(t, Call(op, pc)), Unspoken \/ ~Waiting'
      PROVE  CallsApt' /\ Heard(t)
  BY <1>1, <1>2, CallTyped, AptStarts, HeardWhere
<1>3. ASSUME NEW c, c.op \notin {"scan", "retry"}, c.pc \notin Wary, Spawn(t, c),
             Unspoken \/ ~Waiting'
      PROVE  CallsApt' /\ Heard(t)
  BY <1>3, AptStarts, HeardWhere
<1>4. UNCHANGED task => CallsApt'
  BY CallStaysApt, InferringCall DEF AptInv, CallsApt
<1>5. ASSUME UNCHANGED task, Unspoken \/ ~Waiting' PROVE CallsApt' /\ Heard(t)
  BY <1>4, <1>5, HeardStill, HeardWhere
<1> USE DEF Set
<1>6. CASE Initialize(t)
  <2>1. Unspoken
    BY <1>1, <1>6 DEF Initialize, Unspoken, ControllerType
  <2> QED
    BY <1>2, <1>6, <2>1 DEF Initialize, Calls, Awaits, Wary
<1>7. ASSUME NEW op \in {"next", "fresh"}, StartSession(t, op) PROVE CallsApt' /\ Heard(t)
  <2>1. Unspoken
    BY <1>1, <1>7 DEF StartSession, Unspoken, ControllerType
  <2> QED
    BY <1>2, <1>7, <2>1 DEF StartSession, Calls, Awaits, Wary
<1>8. CASE Scan(t)
  <2> DEFINE n == ctl.attempt + 1
             pc == IF CanAnalyze THEN "capture" ELSE "catch"
             c == [Call("scan", pc) EXCEPT !.n = n]
  <2>1. pc \in {"capture", "catch"} /\ pc \in Awaits /\ "scan" \in Calls
    BY DEF Awaits, ScanAwaits, Calls
  <2>2. Call("scan", pc) \in CallType /\ Call("scan", pc).op = "scan"
        /\ Call("scan", pc).pc = pc /\ Call("scan", pc).stale = FALSE
    BY <1>1, <2>1, CallTyped DEF Call
  <2>3. n \in 0..MaxAttempts
    BY <1>1, <1>8, StoreBounds DEF Scan, ControllerType
  <2>4. c \in CallType /\ c.op = "scan" /\ c.pc = pc /\ ~c.stale
    BY <2>2, <2>3 DEF CallType
  <2>5. task' = [Cancelled(task) EXCEPT ![t] = c]
    BY <1>8 DEF Scan
  <2> HIDE DEF c, pc
  <2>6. task'[t] = c /\ \A u \in Slots : u # t => task'[u] = Cancelled(task)[u]
    BY <2>5, CancelledSound
  <2>7. c # Nothing /\ CallApt(c, ctl'.closed, faults', attempt') /\ Publishes(c, ctl')
    BY <2>1, <2>4, NothingIsNoCall DEF CallApt, Publishes, ScanAwaits
  <2> QED
    BY <2>6, <2>7, AptCancelled DEF AptInv, Heard
<1>9. CASE RetryScan(t)
  <2> DEFINE call(pc) == [Call("retry", pc) EXCEPT !.s = ctl.rec[1], !.n = ctl.rec[2]]
  <2>1. ctl.rec[1] \in Sessions /\ ctl.rec[2] \in Attempts
    BY <1>1, <1>9 DEF RetryScan, ControllerType, Scans
  <2>2. ASSUME NEW pc \in {"analyzed", "catch", "infer", "retain"}
        PROVE  /\ call(pc) \in CallType /\ call(pc).op = "retry" /\ call(pc).pc = pc
               /\ call(pc).s = ctl.rec[1] /\ call(pc).n = ctl.rec[2] /\ ~call(pc).stale
    <3>1. call(pc) \in CallType
      BY <1>1, <2>1, ScanCallSound DEF ScanAwaits
    <3>2. pc \in Awaits /\ "retry" \in Calls
      BY DEF Calls, Awaits, ScanAwaits
    <3>3. Call("retry", pc) \in CallType /\ Call("retry", pc).op = "retry"
          /\ Call("retry", pc).pc = pc
      BY <1>1, <3>2, CallTyped
    <3>4. Call("retry", pc).stale = FALSE
      BY DEF Call
    <3> QED
      BY <3>1, <3>3, <3>4 DEF CallType
  <2>3. \/ UNCHANGED task /\ Show(Blank("ready", "none"))
        \/ \E pc \in {"analyzed", "catch", "infer", "retain"} :
             /\ Spawn(t, call(pc))
             /\ pc = "infer" => recs[ctl.rec[1]][ctl.rec[2]].staged
    BY <1>9 DEF RetryScan
  <2> HIDE DEF call
  <2>4. CASE UNCHANGED task /\ Show(Blank("ready", "none"))
    BY <1>5, <2>4, Spoken, BlankShows
  <2>5. ASSUME NEW pc \in {"analyzed", "catch", "infer", "retain"}, Spawn(t, call(pc)),
               pc = "infer" => recs[ctl.rec[1]][ctl.rec[2]].staged
        PROVE  CallsApt' /\ Heard(t)
    <3>1. /\ task'[t] = call(pc) /\ task'[t] # Nothing
          /\ \A u \in Slots : u # t => task'[u] = task[u]
      BY <2>2, <2>5, SetsOut
    <3>2. pc = "infer" => attempt'[ctl.rec[1]][ctl.rec[2]] # NoAttempt
      BY <2>1, <2>5 DEF AptInv, StagedRows, Ages
    <3>3. CallApt(task'[t], ctl'.closed, faults', attempt')
      BY <2>2, <3>1, <3>2 DEF CallApt, ScanAwaits
    <3>4. Publishes(task'[t], ctl')
      BY <2>2, <3>1 DEF Publishes
    <3> QED
      BY <3>1, <3>3, <3>4, AptChanges DEF AptInv, Heard
  <2> QED
    BY <2>3, <2>4, <2>5
<1>10. CASE CancelScan(t)
  <2>1. CASE task' = Cancelled(task) /\ task[t] = Nothing
             /\ Show(Blank("terminalFailure", "analysis_cancelled"))
    <3>1. task'[t] = Nothing /\ \A u \in Slots : u # t => task'[u] = Cancelled(task)[u]
      BY <2>1, CancelledSound
    <3> QED
      BY <2>1, <3>1, AptCancelled, Spoken, BlankShows, HeardWhere DEF AptInv
  <2>2. UNCHANGED view => Unspoken
    BY <1>10 DEF CancelScan, Unspoken
  <2> QED
    BY <1>2, <1>10, <2>1, <2>2 DEF CancelScan, Calls, Awaits, Wary
<1>11. CASE Retake(t)
  BY <1>2, <1>11 DEF Retake, Unspoken, Calls, Awaits, Wary
<1>12. ASSUME NEW op \in {"mismatch", "restart"}, ReportCountMismatch(t, op)
       PROVE  CallsApt' /\ Heard(t)
  <2>1. Unspoken
    BY <1>1, <1>12 DEF ReportCountMismatch, Unspoken, ControllerType
  <2> QED
    BY <1>2, <1>5, <1>12, <2>1 DEF ReportCountMismatch, Calls, Awaits, ScanAwaits, Wary
<1>13. CASE EnterManualCart(t) \/ RetryManualCart(t)
  <2>1. Unspoken \/ ~Waiting'
    <3>1. ctl'.active = ctl.active /\ ctl'.session = ctl.session
      BY <1>1, <1>13 DEF EnterManualCart, RetryManualCart, StartManualCart, Emptied,
         ControllerType
    <3> QED
      BY <1>13, <3>1, Spoken, BlankShows
         DEF EnterManualCart, RetryManualCart, ManualCartFailure, Unspoken
  <2> QED
    BY <1>2, <1>5, <1>13, <2>1
       DEF EnterManualCart, RetryManualCart, StartManualCart, Calls, Awaits, Wary
<1>14. ASSUME NEW o \in Objects, NEW p \in Products,
              Choose(t, o, p) \/ OverrideResolvedProduct(t, o, p)
       PROVE  CallsApt' /\ Heard(t)
  <2> DEFINE c == [Call("resolve", "record") EXCEPT !.o = o, !.p = p,
                                                    !.view.scan = view.scan]
  <2>1. c.op = "resolve" /\ c.pc = "record"
    BY <1>1, BuiltCalls
  <2>2. Spawn(t, c) /\ Unspoken
    BY <1>14 DEF Choose, OverrideResolvedProduct, Unspoken
  <2> HIDE DEF c
  <2> QED
    BY <1>3, <2>1, <2>2 DEF Wary
<1>15. ASSUME NEW p \in Products, NEW units \in 0..MaxManual, EditQuantity(t, p, units)
       PROVE  CallsApt' /\ Heard(t)
  <2> DEFINE c == [Call("edit", "persist") EXCEPT
                     !.view.lines = LinesFor(view.drafts, ctl'.added)]
  <2>1. c.op = "edit" /\ c.pc = "persist"
    BY <1>1, BuiltCalls
  <2>2. Unspoken /\ (Spawn(t, c) \/ UNCHANGED task)
    BY <1>1, <1>15 DEF EditQuantity, Unspoken, ControllerType
  <2> HIDE DEF c
  <2> QED
    BY <1>3, <1>5, <2>1, <2>2 DEF Wary
<1>16. CASE Pay(t)
  <2>1. ctl.session \in Sessions
    BY <1>16 DEF Pay, MemoryInv, ControllerInv
  <2>2. PICK c \in CallType : Spawn(t, c) /\ c.op = "pay" /\ c.pc = "prepare"
    BY <1>1, <1>16, <2>1, PayStarts DEF Pay
  <2>3. ~Waiting'
    BY <1>1, <1>16, Rephrased DEF Pay
  <2> QED
    BY <1>3, <2>2, <2>3 DEF Wary
<1>17. CASE RetryPayment(t)
  <2>1. ctl.frozen.s \in Sessions /\ ctl.frozen.review \in ViewType
    BY <1>1, <1>17 DEF RetryPayment, ControllerType
  <2>2. PICK c \in CallType : Spawn(t, c) /\ c.op = "pay" /\ c.pc = "prepare"
    BY <1>1, <1>17, <2>1, PayStarts DEF RetryPayment
  <2>3. ~Waiting'
    BY <1>17, <2>1, Rephrased DEF RetryPayment
  <2> QED
    BY <1>3, <2>2, <2>3 DEF Wary
<1>18. CASE EnterAdmin(t)
  <2>1. Unspoken \/ ~Waiting'
    BY <1>18 DEF EnterAdmin, Unspoken, Waiting
  <2> QED
    BY <1>2, <1>5, <1>18, <2>1 DEF EnterAdmin, Calls, Awaits, Wary
<1>19. CASE Close(t)
  <2>1. ctl'.closed
    BY <1>1, <1>19 DEF Close, ControllerType
  <2>2. /\ Call("close", "close") \in CallType /\ Call("close", "close").op = "close"
        /\ Call("close", "close").pc = "close" /\ Spawn(t, Call("close", "close"))
    BY <1>1, <1>19, CallTyped DEF Close, Calls, Awaits
  <2>3. /\ task'[t] = Call("close", "close")
        /\ \A u \in Slots : u # t => task'[u] = task[u]
    BY <2>2, SetsOut
  <2>4. CallApt(task'[t], ctl'.closed, faults', attempt')
    BY <2>1, <2>2, <2>3 DEF CallApt
  <2> QED
    BY <2>1, <2>3, <2>4, AptChanges, HeardWhere DEF AptInv, Waiting
<1> QED
  BY <1>6, <1>7, <1>8, <1>9, <1>10, <1>11, <1>12, <1>13, <1>14, <1>15, <1>16, <1>17,
     <1>18, <1>19 DEF Command, StartNextCustomer, StartFreshCustomerSession

\* Nothing is in flight and nothing is waited for when a process starts.
LEMMA AptInit == CheckoutInit => AptInv /\ Answered
  BY BlankShows DEF CheckoutInit, AptInv, CallsApt, StagedRows, Losses, FreshRecovery,
     FreshScanner, Answered, Waiting

\* Nor when one starts again: the calls of the last one died with it.
LEMMA AptRestart == Restart => AptInv' /\ Answered'
  BY BlankShows DEF Restart, AptInv, CallsApt, StagedRows, Losses, FreshRecovery,
     FreshScanner, Answered, Waiting

\* Every step leaves each call what it relies on, and the customer an answer to come.
LEMMA AptStep ==
  StoreTypeOK /\ MemoryInv /\ OpenInv /\ AptInv /\ Answered /\ [Next]_vars
    => AptInv' /\ Answered'
<1> SUFFICES ASSUME StoreTypeOK, MemoryInv, OpenInv, AptInv, Answered, [Next]_vars
             PROVE  AptInv' /\ Answered'
  OBVIOUS
<1>1. CASE Restart
  BY <1>1, AptRestart
<1>2. CASE ~Restart
  <2>1. Ages
    BY <1>2, StepAges
  <2>2. StagedRows' /\ Losses'
    BY <1>2, RowsStaged, DevicesLost DEF AptInv
  <2>3. CASE UNCHANGED <<task, view, mode, ctl>>
    <3>1. CallsApt'
      BY <2>1, <2>3, CallStaysApt, InferringCall DEF AptInv, CallsApt
    <3>2. Answered'
      BY <2>1, <2>3 DEF Answered, Waiting, Ages
    <3> QED
      BY <2>2, <3>1, <3>2 DEF AptInv
  <2>4. ASSUME NEW t \in Slots, Command(t) \/ Step(t) PROVE AptInv' /\ Answered'
    <3>1. CallsApt' /\ Heard(t)
      BY <2>1, <2>4, CommandHeard, StartHeard, ScanStepHeard, ReviewHeard, PaymentHeard,
         LeavingHeard DEF Step
    <3> QED
      BY <2>1, <2>2, <3>1, HeardAnswers DEF AptInv
  <2> QED
    BY <1>2, <2>3, <2>4 DEF Next, LoseDevice, vars, checkoutVars
<1> QED
  BY <1>1, <1>2

\* Wherever a call is suspended it finds what it relies on, and whoever waits on the
\* analysing screen waits for a call that will answer, unless two failures met.
THEOREM AnswerInvariant == Spec => [](AptInv /\ Answered)
  BY AptInit, AptStep, StoreTypeCorrect, CheckoutRefinesStore, MemoryInvariant,
     OpenInvariant, PTL DEF Spec

\* No capture reaches the recognition before its row of evidence is in the audit
\* store, whatever was cancelled, retried or begun meanwhile.
THEOREM CheckoutEvidenceBeforeInference == Spec => []EvidenceBeforeInference
<1>1. AptInv => EvidenceBeforeInference
  BY DEF AptInv, CallsApt, CallApt, EvidenceBeforeInference, At
<1> QED
  BY <1>1, AnswerInvariant, PTL

\* One failure never leaves the customer on the analysing screen for ever, with any
\* number of calls in flight.
THEOREM CheckoutAnalyzingIsLive == Spec => []AnalyzingIsLive
<1>1. MemoryInv /\ Answered => AnalyzingIsLive
  BY CheckoutBounds DEF MemoryInv, RestType, Answered, Waiting, AnalyzingIsLive, Idle
<1> QED
  BY <1>1, MemoryInvariant, AnswerInvariant, PTL


-----------------------------------------------------------------------------
(* The completion screen: calls that press pay while a commit is in flight   *)
(* join it, and the last of them shows what was paid.                        *)

Settling == {"commit", "join"}

\* a commit is joined only while it is in flight, and by calls of its session,
\* or of another one once its own is closed and the commit bound to fail
JoinInv ==
  /\ \A u \in Slots : At(u, "join") => CommitInFlight
  /\ \A t, u \in Slots :
       At(t, "commit") /\ At(u, "join") =>
         task[u].s = task[t].s \/ sessionState[task[t].s] # "active"

\* the calls that settle a payment stay where they are, and no other turns up
SettlersKept ==
  \A u \in Slots :
    /\ \A pc \in Settling : At(u, pc)' <=> At(u, pc)
    /\ At(u, "commit") \/ At(u, "join") => task'[u].s = task[u].s

\* Cancelling the scans in flight moves no call.
LEMMA CancelledStays ==
  ASSUME MemoryInv, NEW u \in Slots, task[u] # Nothing
  PROVE  /\ Cancelled(task)[u] # Nothing /\ Cancelled(task)[u].pc = task[u].pc
         /\ Cancelled(task)[u].s = task[u].s
<1>1. task[u] \in CallType
  BY DEF MemoryInv, CallsInv
<1>2. [task[u] EXCEPT !.stale = TRUE] \in CallType
  BY <1>1 DEF CallType
<1> QED
  BY <1>1, <1>2, NothingIsNoCall DEF Cancelled, CallType

\* A call that settles nothing comes, moves or goes.
LEMMA SettlersStay ==
  ASSUME MemoryInv, NEW t \in Slots,
         task[t] # Nothing => task[t].pc \notin Settling,
         task'[t] # Nothing => task'[t].pc \notin Settling,
         \A u \in Slots : u # t => task'[u] = task[u] \/ task'[u] = Cancelled(task)[u]
  PROVE  SettlersKept
<1> SUFFICES ASSUME NEW u \in Slots
             PROVE  /\ \A pc \in Settling : At(u, pc)' <=> At(u, pc)
                    /\ At(u, "commit") \/ At(u, "join") => task'[u].s = task[u].s
  BY DEF SettlersKept
<1>1. CASE u = t
  BY <1>1 DEF At, Settling
<1>2. CASE u # t
  BY <1>2, CancelledStays DEF At, Cancelled
<1> QED
  BY <1>1, <1>2

\* One that moves does not stop settling,
LEMMA SettlersMove ==
  ASSUME MemoryInv, NEW t \in Slots, task[t] # Nothing, task[t].pc \notin Settling,
         NEW pc \in Awaits \ Settling, Goto(t, pc)
  PROVE  SettlersKept
  BY GoesOn, SettlersStay

\* nor does one that returns,
LEMMA SettlersReturn ==
  ASSUME MemoryInv, NEW t \in Slots, task[t] # Nothing => task[t].pc \notin Settling,
         Return(t)
  PROVE  SettlersKept
  BY ComesBack, SettlersStay

\* one that starts,
LEMMA SettlersStart ==
  ASSUME MemoryInv, NEW t \in Slots, NEW c, c.pc \notin Settling, Spawn(t, c)
  PROVE  SettlersKept
<1>1. /\ task[t] = Nothing /\ task'[t] = c
      /\ \A u \in Slots : u # t => task'[u] = task[u]
  BY DEF Spawn, MemoryInv, CallsInv
<1> QED
  BY <1>1, SettlersStay

\* or one that cancels the scans.
LEMMA SettlersCancel ==
  ASSUME MemoryInv, NEW t \in Slots, task[t] # Nothing => task[t].pc \notin Settling,
         NEW c, c # Nothing => c.pc \notin Settling,
         task' = [Cancelled(task) EXCEPT ![t] = c]
  PROVE  SettlersKept
<1>1. task'[t] = c /\ \A u \in Slots : u # t => task'[u] = Cancelled(task)[u]
  BY CancelledSound
<1> QED
  BY <1>1, SettlersStay

\* A command starts to settle nothing.
LEMMA CommandSettles ==
  ASSUME MemoryInv, NEW t \in Slots, Command(t)
  PROVE  SettlersKept
<1>1. ctl \in ControllerType /\ view \in ViewType
  BY DEF MemoryInv, ControllerInv, RestType
<1>2. ASSUME NEW op \in Calls, NEW pc \in Awaits \ Settling, Spawn(t, Call(op, pc))
      PROVE  SettlersKept
  BY <1>1, <1>2, CallTyped, SettlersStart
<1>3. UNCHANGED task => SettlersKept
  BY DEF SettlersKept, At
<1>4. CASE Initialize(t)
  BY <1>2, <1>4 DEF Initialize, Calls, Awaits, Settling
<1>5. ASSUME NEW op \in {"next", "fresh"}, StartSession(t, op) PROVE SettlersKept
  BY <1>2, <1>5 DEF StartSession, Calls, Awaits, Settling
<1>6. CASE Scan(t)
  <2> DEFINE n == ctl.attempt + 1
             pc == IF CanAnalyze THEN "capture" ELSE "catch"
             c == [Call("scan", pc) EXCEPT !.n = n]
  <2>1. pc \in {"capture", "catch"} /\ pc \in Awaits /\ "scan" \in Calls
    BY DEF Awaits, ScanAwaits, Calls
  <2>2. Call("scan", pc) \in CallType /\ Call("scan", pc).pc = pc
    BY <1>1, <2>1, CallTyped
  <2>3. c.pc = pc
    BY <2>2 DEF CallType
  <2>4. task' = [Cancelled(task) EXCEPT ![t] = c] /\ task[t] = Nothing
    BY <1>6 DEF Scan
  <2> HIDE DEF c, pc
  <2> QED
    BY <2>1, <2>3, <2>4, SettlersCancel DEF Settling
<1>7. CASE RetryScan(t)
  <2> DEFINE call(pc) == [Call("retry", pc) EXCEPT !.s = ctl.rec[1], !.n = ctl.rec[2]]
  <2>1. ASSUME NEW pc \in {"analyzed", "catch", "infer", "retain"}
        PROVE  call(pc).pc = pc
    <3>1. pc \in Awaits /\ "retry" \in Calls
      BY DEF Calls, Awaits, ScanAwaits
    <3>2. Call("retry", pc) \in CallType /\ Call("retry", pc).pc = pc
      BY <1>1, <3>1, CallTyped
    <3> QED
      BY <3>2 DEF CallType
  <2>2. \/ UNCHANGED task
        \/ \E pc \in {"analyzed", "catch", "infer", "retain"} : Spawn(t, call(pc))
    BY <1>7 DEF RetryScan
  <2> HIDE DEF call
  <2> QED
    BY <1>3, <2>1, <2>2, SettlersStart DEF Settling
<1>8. CASE CancelScan(t)
  <2>1. CASE task' = Cancelled(task) /\ task[t] = Nothing
    <3>1. task'[t] = Nothing /\ \A u \in Slots : u # t => task'[u] = Cancelled(task)[u]
      BY <2>1, CancelledSound
    <3> QED
      BY <2>1, <3>1, SettlersStay
  <2> QED
    BY <1>2, <1>8, <2>1 DEF CancelScan, Calls, Awaits, Settling
<1>9. CASE Retake(t)
  BY <1>2, <1>9 DEF Retake, Calls, Awaits, Settling
<1>10. ASSUME NEW op \in {"mismatch", "restart"}, ReportCountMismatch(t, op)
       PROVE  SettlersKept
  BY <1>2, <1>3, <1>10 DEF ReportCountMismatch, Calls, Awaits, Settling
<1>11. CASE EnterManualCart(t) \/ RetryManualCart(t)
  BY <1>2, <1>3, <1>11
     DEF EnterManualCart, RetryManualCart, StartManualCart, Calls, Awaits, Settling
<1>12. ASSUME NEW o \in Objects, NEW p \in Products,
              Choose(t, o, p) \/ OverrideResolvedProduct(t, o, p)
       PROVE  SettlersKept
  <2> DEFINE c == [Call("resolve", "record") EXCEPT !.o = o, !.p = p,
                                                    !.view.scan = view.scan]
  <2>1. c.pc = "record"
    BY <1>1, BuiltCalls
  <2>2. Spawn(t, c)
    BY <1>12 DEF Choose, OverrideResolvedProduct
  <2> HIDE DEF c
  <2> QED
    BY <2>1, <2>2, SettlersStart DEF Settling
<1>13. ASSUME NEW p \in Products, NEW units \in 0..MaxManual, EditQuantity(t, p, units)
       PROVE  SettlersKept
  <2> DEFINE c == [Call("edit", "persist") EXCEPT
                     !.view.lines = LinesFor(view.drafts, ctl'.added)]
  <2>1. c.pc = "persist"
    BY <1>1, BuiltCalls
  <2>2. Spawn(t, c) \/ UNCHANGED task
    BY <1>13 DEF EditQuantity
  <2> HIDE DEF c
  <2> QED
    BY <1>3, <2>1, <2>2, SettlersStart DEF Settling
<1>14. CASE Pay(t)
  <2>1. ctl.session \in Sessions /\ view \in ViewType
    BY <1>14 DEF Pay, MemoryInv, ControllerInv, RestType
  <2>2. PICK c \in CallType : Spawn(t, c) /\ c.pc = "prepare"
    BY <1>1, <1>14, <2>1, PayStarts DEF Pay
  <2> QED
    BY <2>2, SettlersStart DEF Settling
<1>15. CASE RetryPayment(t)
  <2>1. ctl.frozen.s \in Sessions /\ ctl.frozen.review \in ViewType
    BY <1>1, <1>15 DEF RetryPayment, ControllerType
  <2>2. PICK c \in CallType : Spawn(t, c) /\ c.pc = "prepare"
    BY <1>1, <1>15, <2>1, PayStarts DEF RetryPayment
  <2> QED
    BY <2>2, SettlersStart DEF Settling
<1>16. CASE EnterAdmin(t)
  BY <1>2, <1>3, <1>16 DEF EnterAdmin, Calls, Awaits, Settling
<1>17. CASE Close(t)
  BY <1>2, <1>17 DEF Close, Calls, Awaits, Settling
<1> QED
  BY <1>4, <1>5, <1>6, <1>7, <1>8, <1>9, <1>10, <1>11, <1>12, <1>13, <1>14, <1>15, <1>16,
     <1>17 DEF Command, StartNextCustomer, StartFreshCustomerSession

\* Nor does the start of a session, a scan, a review, the administrator or closing.
LEMMA StepSettles ==
  ASSUME MemoryInv, NEW t \in Slots, Step(t), ~PaymentStep(t)
  PROVE  SettlersKept
<1>1. task[t] # Nothing /\ task[t].pc \notin Settling /\ task[t] \in CallType
  BY DEF Step, At, MemoryInv, CallsInv, Settling, SessionStartStep, RecoverAtStartup,
     AbandonOld, ResetCapture, ReadCatalog, BeginCheckout, ReadSettings, StartScanner,
     AbandonStartup, TerminalizeStart, ScanStep, Capture, RetainCapture, Stage, Infer,
     Analyzed, RetainReceipt, Complete, PresentDraft, PresentResult, CatchScan,
     AbandonTerminal, DropCancelled, AbandonCancelled, ReviewStep, PublishMismatch,
     EnterManualMode, EmptyCart, RecordChoice, PublishChoice, PublishLines,
     AbandonForAdmin, AbandonClosed
<1>2. ASSUME NEW pc \in Awaits \ Settling, Goto(t, pc) PROVE SettlersKept
  BY <1>1, <1>2, SettlersMove
<1>3. Return(t) => SettlersKept
  BY <1>1, SettlersReturn
<1>4. task' = [Cancelled(task) EXCEPT ![t] = Nothing] => SettlersKept
  BY <1>1, SettlersCancel
<1>5. ASSUME NEW c, c.pc \notin Settling, task' = [task EXCEPT ![t] = c]
      PROVE  SettlersKept
  <2>1. task'[t] = c /\ \A u \in Slots : u # t => task'[u] = task[u]
    BY <1>5 DEF MemoryInv, CallsInv
  <2> QED
    BY <1>1, <1>5, <2>1, SettlersStay
<1> USE DEF Awaits, ScanAwaits, Settling
<1>6. CASE SessionStartStep(t)
  BY <1>2, <1>3, <1>6 DEF SessionStartStep, RecoverAtStartup, AbandonOld, ResetCapture,
     ReadCatalog, BeginCheckout, ReadSettings, StartScanner, AbandonStartup,
     TerminalizeStart, Opened
<1>7. CASE Complete(t)
  <2> DEFINE v == Mapped(<<task[t].s, task[t].n>>, recs[task[t].s][task[t].n].result)
             c == [task[t] EXCEPT !.pc = "present", !.view = v]
  <2>1. c.pc = "present"
    BY <1>1 DEF CallType
  <2>2. task' = [task EXCEPT ![t] = c] \/ Goto(t, "catch")
    BY <1>7 DEF Complete, MemoryInv, CallsInv
  <2> HIDE DEF c
  <2> QED
    BY <1>2, <1>5, <2>1, <2>2
<1>8. CASE ScanStep(t) /\ ~Complete(t)
  <2>1. CASE Abandons(t)
    BY <1>1, <1>5, <2>1, AbandonsNext
  <2> QED
    BY <1>2, <1>3, <1>4, <1>8, <2>1 DEF Abandons, ScanStep, Capture, RetainCapture, Stage,
       Infer, Analyzed, RetainReceipt, PresentDraft, PresentResult, CatchScan,
       AbandonTerminal, DropCancelled, AbandonCancelled, ScannerFails
<1>9. CASE RecordChoice(t)
  <2> DEFINE o == task[t].o
             p == task[t].p
             drafts == [view.drafts EXCEPT ![o] = IF @ = Absent THEN @ ELSE p]
             v == [view EXCEPT !.drafts = drafts, !.lines = LinesFor(drafts, ctl.added)]
             c == [task[t] EXCEPT !.pc = "redraw", !.s = ctl.session, !.view = v]
  <2>1. c.pc = "redraw"
    BY <1>1 DEF CallType
  <2>2. task' = [task EXCEPT ![t] = c] \/ Return(t)
    BY <1>9 DEF RecordChoice, MemoryInv, CallsInv
  <2> HIDE DEF c
  <2> QED
    BY <1>3, <1>5, <2>1, <2>2
<1>10. CASE ReviewStep(t) /\ ~RecordChoice(t)
  BY <1>2, <1>3, <1>10 DEF ReviewStep, PublishMismatch, EnterManualMode, EmptyCart,
     PublishChoice, PublishLines
<1>11. CASE AbandonForAdmin(t) \/ AbandonClosed(t)
  BY <1>3, <1>4, <1>11 DEF AbandonForAdmin, AbandonClosed
<1> QED
  BY <1>6, <1>7, <1>8, <1>9, <1>10, <1>11 DEF Step

\* No session in use was closed before.
LEMMA NotReopened ==
  ASSUME StoreTypeOK, MemoryInv, [Next]_vars, NEW s \in Sessions,
         sessionState'[s] = "active"
  PROVE  sessionState[s] \in {"none", "active"}
<1>1. KeepsTerminal
  BY StoreStep, KeepsTerminalStep
<1> QED
  BY <1>1 DEF KeepsTerminal, StoreTypeOK, TerminalStates

\* Nothing is joined at first, nor when a process starts again.
LEMMA JoinInit == CheckoutInit => JoinInv
  BY DEF CheckoutInit, JoinInv, At

\* The session of a call that joins a commit is the one in use, and so is that of
\* the commit unless it is closed; every later step leaves it that way.
LEMMA JoinStep ==
  StoreTypeOK /\ MemoryInv /\ OpenInv /\ JoinInv /\ [Next]_vars => JoinInv'
<1> SUFFICES ASSUME StoreTypeOK, MemoryInv, OpenInv, JoinInv, [Next]_vars
             PROVE  JoinInv'
  OBVIOUS
<1>1. ASSUME NEW t \in Slots, At(t, "commit"), sessionState'[task[t].s] = "active"
      PROVE  sessionState[task[t].s] = "active"
  <2>1. task[t].s \in Sessions /\ Held(task[t].s)
    BY <1>1 DEF At, MemoryInv, CallsInv, CallsSound, CallSound, Paying, Held
  <2> QED
    BY <1>1, <2>1, NotReopened DEF OpenInv, Known
<1>2. CASE SettlersKept
  BY <1>1, <1>2 DEF JoinInv, SettlersKept, Settling, CommitInFlight
<1>3. CASE Restart
  BY <1>3 DEF Restart, JoinInv, At
<1>4. CASE UNCHANGED vars \/ LoseDevice
  BY <1>2, <1>4 DEF vars, checkoutVars, LoseDevice, SettlersKept, At
<1>5. ASSUME NEW t \in Slots, CommitPayment(t) PROVE JoinInv'
  <2>1. \A u \in Slots : ~At(u, "join")'
    BY <1>5 DEF CommitPayment, Settled, Joined, At
  <2> QED
    BY <2>1 DEF JoinInv
<1>6. ASSUME NEW t \in Slots, PreparePayment(t) PROVE JoinInv'
  <2>1. task[t] # Nothing /\ task[t].pc = "prepare"
    BY <1>6 DEF PreparePayment, At
  <2>2. CASE Accepts(t)
    <3>1. /\ \A u \in Slots : u # t => task'[u] = task[u]
          /\ task'[t] # Nothing /\ task'[t].pc = "prepare"
      BY <2>1, <2>2, AcceptsNext
    <3> QED
      BY <1>2, <2>1, <3>1 DEF SettlersKept, Settling, At
  <2>3. CASE Return(t)
    BY <1>2, <2>1, <2>3, SettlersReturn DEF Settling
  <2>4. CASE /\ ReplaceDraftOrder(task[t].s, task[t].view.lines)
             /\ Goto(t, IF CommitInFlight THEN "join" ELSE "commit")
    <3>1. /\ \A u \in Slots : u # t => task'[u] = task[u]
          /\ task'[t] # Nothing /\ task'[t].s = task[t].s
          /\ task'[t].pc = IF CommitInFlight THEN "join" ELSE "commit"
      BY <2>1, <2>4, GoesOn DEF Awaits
    <3>2. CASE CommitInFlight
      <4>1. ASSUME NEW v \in Slots, At(v, "commit"), sessionState[task[v].s] = "active"
            PROVE  task[v].s = task[t].s
        <5>1. task[v].s \in Sessions /\ Held(task[v].s)
          BY <4>1 DEF At, MemoryInv, CallsInv, CallsSound, CallSound, Paying, Held
        <5>2. /\ task[t].s \in Sessions /\ Held(task[t].s)
              /\ sessionState[task[t].s] = "active"
          BY <2>1, <2>4 DEF ReplaceDraftOrder, CanReplaceDraft, IsActive, Held
        <5> QED
          BY <4>1, <5>1, <5>2 DEF OpenInv, Known
      <4>2. \A u \in Slots : At(u, "commit")' <=> At(u, "commit")
        BY <2>1, <3>1, <3>2 DEF At
      <4>3. \A u \in Slots : At(u, "commit") => task'[u] = task[u]
        BY <2>1, <3>1 DEF At
      <4>4. CommitInFlight'
        BY <3>2, <4>2 DEF CommitInFlight
      <4>5. ASSUME NEW v \in Slots, NEW u \in Slots, At(v, "commit")', At(u, "join")'
            PROVE  task'[u].s = task'[v].s \/ sessionState'[task'[v].s] # "active"
        <5>1. At(v, "commit") /\ task'[v] = task[v]
          BY <4>2, <4>3, <4>5
        <5>2. u = t \/ (At(u, "join") /\ task'[u] = task[u])
          BY <3>1, <4>5 DEF At
        <5> QED
          BY <1>1, <3>1, <4>1, <5>1, <5>2 DEF JoinInv
      <4> QED
        BY <4>4, <4>5 DEF JoinInv
    <3>3. CASE ~CommitInFlight
      <4>1. \A u \in Slots : ~At(u, "join")'
        BY <3>1, <3>3 DEF JoinInv, At
      <4> QED
        BY <4>1 DEF JoinInv
    <3> QED
      BY <3>2, <3>3
  <2> QED
    BY <1>6, <2>2, <2>3, <2>4, UpcomingTyped DEF PreparePayment, Accepts
<1> QED
  BY <1>2, <1>3, <1>4, <1>5, <1>6, CommandSettles, StepSettles DEF Next, Step, PaymentStep

\* what a step does that does not complete a payment: the screen stays as it is or
\* shows something else
Incomplete == view' = view \/ view'.phase # "paymentComplete"

\* Showing another phase completes nothing,
LEMMA ShowsOther ==
  ASSUME NEW v, v.phase # "paymentComplete", Show(v)
  PROVE  Incomplete
  BY DEF Show, Incomplete

\* nor does showing a screen again in another phase.
LEMMA RephrasesOther ==
  ASSUME NEW v \in ViewType, NEW phase, phase # "paymentComplete", NEW code, NEW lines,
         \/ Show([v EXCEPT !.phase = phase])
         \/ Show([v EXCEPT !.phase = phase, !.code = code])
         \/ Show([v EXCEPT !.code = code, !.phase = phase])
         \/ Show([v EXCEPT !.phase = phase, !.code = code, !.lines = lines])
  PROVE  Incomplete
  BY DEF Show, Incomplete, ViewType

\* Only a commit shows the completion screen: no button,
LEMMA CommandIncomplete ==
  ASSUME MemoryInv, NEW t \in Slots, Command(t)
  PROVE  Incomplete
<1>1. ctl \in ControllerType /\ view \in ViewType
  BY DEF MemoryInv, ControllerInv, RestType
<1>2. ASSUME NEW phase, NEW code, phase # "paymentComplete", Show(Blank(phase, code))
      PROVE  Incomplete
  BY <1>2, BlankShows, ShowsOther
<1>3. UNCHANGED view => Incomplete
  BY DEF Incomplete
<1>4. CASE Pay(t)
  BY <1>1, <1>4, RephrasesOther DEF Pay
<1>5. CASE RetryPayment(t)
  <2>1. ctl.frozen.review \in ViewType
    BY <1>1, <1>5 DEF RetryPayment, ControllerType
  <2> QED
    BY <1>5, <2>1, RephrasesOther DEF RetryPayment
<1>6. CASE Scan(t) \/ RetryScan(t) \/ CancelScan(t) \/ EnterManualCart(t)
  BY <1>2, <1>3, <1>6 DEF Scan, RetryScan, CancelScan, EnterManualCart, ManualCartFailure
<1>7. CASE ~(Pay(t) \/ RetryPayment(t) \/ Scan(t) \/ RetryScan(t) \/ CancelScan(t)
             \/ EnterManualCart(t))
  BY <1>3, <1>7 DEF Command, Initialize, StartNextCustomer, StartFreshCustomerSession,
     StartSession, Retake, ReportCountMismatch, RetryManualCart, Choose,
     OverrideResolvedProduct, EditQuantity, EnterAdmin, Close
<1> QED
  BY <1>4, <1>5, <1>6, <1>7

\* and no other step of a call.
LEMMA StepIncomplete ==
  ASSUME MemoryInv, AptInv, NEW t \in Slots, Step(t), ~CommitPayment(t)
  PROVE  Incomplete
<1>1. /\ view \in ViewType
      /\ task[t] # Nothing => task[t] \in CallType /\ task[t].view \in ViewType
      /\ task[t] # Nothing => CallApt(task[t], ctl.closed, faults, attempt)
  BY DEF MemoryInv, CallsInv, RestType, CallType, AptInv, CallsApt
<1>2. ASSUME NEW phase, NEW code, phase # "paymentComplete", Show(Blank(phase, code))
      PROVE  Incomplete
  BY <1>2, BlankShows, ShowsOther
<1>3. UNCHANGED view => Incomplete
  BY DEF Incomplete
<1>4. CASE SessionStartStep(t)
  BY <1>2, <1>3, <1>4 DEF SessionStartStep, RecoverAtStartup, AbandonOld, ResetCapture,
     ReadCatalog, BeginCheckout, ReadSettings, StartScanner, AbandonStartup,
     TerminalizeStart, Opened
<1>5. CASE PresentResult(t)
  <2>1. task[t] # Nothing /\ task[t].view.phase \in Reviewing
    BY <1>1, <1>5 DEF PresentResult, At, CallApt
  <2> QED
    BY <1>3, <1>5, <2>1, ShowsOther DEF PresentResult, Reviewing
<1>6. CASE ScanStep(t) /\ ~PresentResult(t)
  BY <1>2, <1>3, <1>6 DEF ScanStep, Capture, RetainCapture, Stage, Infer, Analyzed,
     RetainReceipt, Complete, PresentDraft, CatchScan, AbandonTerminal, DropCancelled,
     AbandonCancelled
<1>7. CASE PublishChoice(t)
  BY <1>1, <1>3, <1>7, RephrasesOther DEF PublishChoice, At
<1>8. CASE PublishLines(t)
  BY <1>1, <1>3, <1>8, RephrasesOther DEF PublishLines
<1>9. CASE ReviewStep(t) /\ ~PublishChoice(t) /\ ~PublishLines(t)
  BY <1>2, <1>3, <1>9 DEF ReviewStep, PublishMismatch, EnterManualMode, EmptyCart,
     RecordChoice, ManualCartFailure
<1>10. CASE PreparePayment(t)
  BY <1>1, <1>3, <1>10, RephrasesOther DEF PreparePayment, PaymentFails, At
<1>11. CASE AbandonForAdmin(t) \/ AbandonClosed(t)
  BY <1>3, <1>11 DEF AbandonForAdmin, AbandonClosed
<1> QED
  BY <1>4, <1>5, <1>6, <1>7, <1>8, <1>9, <1>10, <1>11 DEF Step, PaymentStep

\* the session and the payment the completion screen speaks of stay, unless the next
\* session is being started, another screen is shown or the controller is closed
Undisturbed ==
  \/ ctl'.closed \/ ctl'.starting \/ view'.phase # "paymentComplete"
  \/ ctl'.session = ctl.session /\ ctl'.starting = ctl.starting /\ UNCHANGED payment

\* A step that ends or begins the start of a session shows its own screen.
LEMMA StartUndisturbed ==
  ASSUME MemoryInv, OpenInv, NEW t \in Slots, SessionStartStep(t)
  PROVE  Undisturbed
<1>1. ctl \in ControllerType
  BY DEF MemoryInv, ControllerInv
<1>2. ASSUME NEW phase, NEW code, phase # "paymentComplete", Show(Blank(phase, code)),
             ctl'.closed = ctl.closed
      PROVE  Undisturbed
  BY <1>2, BlankShows DEF Show, Undisturbed
<1> USE DEF Set, ControllerType
<1>3. UNCHANGED storeVars \/ RecoverInterruptedCheckout \/ AbandonSession(ctl.session)
        => UNCHANGED payment
  BY DEF storeVars, RecoverInterruptedCheckout, AbandonSession
<1>4. CASE RecoverAtStartup(t) \/ AbandonOld(t) \/ ResetCapture(t) \/ ReadCatalog(t)
  BY <1>1, <1>3, <1>4 DEF RecoverAtStartup, AbandonOld, ResetCapture, ReadCatalog,
     Undisturbed, Works, Breaks, Throws
<1>5. CASE BeginCheckout(t)
  <2>1. ctl.starting
    BY <1>5, StarterAt DEF BeginCheckout, Starting, OpenInv, Reserved
  <2> QED
    BY <1>1, <1>5, <2>1 DEF BeginCheckout, Undisturbed
<1>6. CASE ReadSettings(t)
  <2>1. CASE ctl' = ForNewSession(t) /\ task[t].op = "initialize"
    BY <2>1 DEF ForNewSession, FreshController, Undisturbed
  <2>2. CASE ctl' = ForNewSession(t) /\ Opened(t)
    BY <1>2, <2>2 DEF ForNewSession, FreshController, Opened
  <2> QED
    BY <1>3, <1>6, <2>1, <2>2 DEF ReadSettings, Breaks, Undisturbed
<1>7. CASE StartScanner(t)
  BY <1>1, <1>2, <1>3, <1>7 DEF StartScanner, Opened, Breaks, Undisturbed
<1>8. CASE AbandonStartup(t)
  BY <1>1, <1>2, <1>3, <1>8 DEF AbandonStartup, Throws, Undisturbed
<1>9. CASE TerminalizeStart(t)
  BY <1>1, <1>2, <1>9 DEF TerminalizeStart
<1> QED
  BY <1>4, <1>5, <1>6, <1>7, <1>8, <1>9 DEF SessionStartStep

\* So does every other step but the commit.
LEMMA OtherUndisturbed ==
  ASSUME MemoryInv, OpenInv, NEW t \in Slots, Command(t) \/ Step(t), ~CommitPayment(t)
  PROVE  Undisturbed
<1>1. ctl \in ControllerType
  BY DEF MemoryInv, ControllerInv
<1>2. Calm => Undisturbed
  BY DEF Calm, FlagsKept, LedgerKept, Undisturbed
<1> USE DEF Set, ControllerType
<1>3. CASE Initialize(t) \/ StartNextCustomer(t) \/ StartFreshCustomerSession(t) \/ Close(t)
  BY <1>1, <1>3 DEF Initialize, StartNextCustomer, StartFreshCustomerSession,
     StartSession, Close, Undisturbed
<1>4. CASE QuietCommand(t)
  BY <1>2, <1>4, CommandCalm
<1>5. CASE AbandonTerminal(t) \/ AbandonCancelled(t) \/ AbandonForAdmin(t) \/ AbandonClosed(t)
  <2>1. UNCHANGED payment
    BY <1>5 DEF AbandonTerminal, AbandonCancelled, AbandonForAdmin, AbandonClosed,
       AbandonSession, Works, Throws, storeVars
  <2>2. ctl'.session = ctl.session /\ ctl'.starting = ctl.starting
    BY <1>1, <1>5 DEF AbandonTerminal, AbandonCancelled, AbandonForAdmin, AbandonClosed
  <2> QED
    BY <2>1, <2>2 DEF Undisturbed
<1>6. CASE ScanStep(t) /\ ~AbandonTerminal(t) /\ ~AbandonCancelled(t)
  BY <1>2, <1>6, ScanCalm
<1>7. CASE ReviewStep(t)
  BY <1>2, <1>7, ReviewCalm
<1>8. CASE PreparePayment(t)
  <2>1. LedgerKept
    BY <1>8, LedgerKeepers DEF PreparePayment, Throws
  <2> QED
    BY <1>1, <1>8, <2>1 DEF PreparePayment, Undisturbed, LedgerKept
<1> QED
  BY <1>3, <1>4, <1>5, <1>6, <1>7, <1>8, StartUndisturbed
     DEF Command, QuietCommand, Step, PaymentStep

\* The last caller of a commit that succeeded shows an order confirmed in the session
\* that was in use, which is now paid; without overlapping calls it is the one paid.
LEMMA CommitTells ==
  ASSUME StoreTypeOK, MemoryInv, OpenInv, JoinInv, NEW t \in Slots, CommitPayment(t)
  PROVE  CompletionIsTrue'
<1>1. /\ ctl \in ControllerType
      /\ At(t, "commit") /\ task[t] # Nothing /\ task[t] \in CallType
      /\ task[t].s \in Sessions /\ task[t].view.lines \in confirmed[task[t].s]
  BY DEF MemoryInv, ControllerInv, CommitPayment, At, CallsInv, CallsSound, CallSound, Paying
<1>2. PICK last \in LastCallers(t) :
        \/ /\ CommitSimulatedPayment(task[t].s, task[t].view.lines)
           /\ PaymentSucceeds(last)
        \/ PaymentFails(last) /\ UNCHANGED ctl
  BY DEF CommitPayment
<1>3. /\ last \in Slots /\ task[last] # Nothing /\ task[last].view \in ViewType
      /\ last = t \/ At(last, "join")
  BY <1>1, <1>2 DEF LastCallers, Joined, At, MemoryInv, CallsInv, CallType
<1>4. CASE PaymentFails(last) /\ UNCHANGED ctl
  BY <1>3, <1>4 DEF PaymentFails, Show, CompletionIsTrue, ViewType
<1>5. CASE /\ CommitSimulatedPayment(task[t].s, task[t].view.lines)
           /\ PaymentSucceeds(last)
  <2>1. /\ ctl'.session = ctl.session /\ ctl'.closed = ctl.closed
        /\ ctl.closed \/ view' = [task[last].view EXCEPT !.phase = "paymentComplete"]
    BY <1>1, <1>5 DEF PaymentSucceeds, Show, ControllerType
  <2>2. ~AlreadyPaid(task[t].s) /\ Held(task[t].s)
    BY <1>1 DEF At, Role, Starting, OpenInv, Committing, Held
  <2>3. /\ sessionState[task[t].s] = "active"
        /\ payment' = [payment EXCEPT ![task[t].s] = task[t].view.lines]
    BY <1>5, <2>2 DEF CommitSimulatedPayment, CanCommitPayment, IsActive
  <2>4. task[t].s = ctl.session
    BY <1>1, <2>2, <2>3 DEF OpenInv, Known
  <2>5. payment'[ctl.session] = task[t].view.lines
    BY <1>1, <2>3, <2>4 DEF StoreTypeOK
  <2>6. AlreadyPaid(ctl.session)'
    <3>1. task[t].view.lines \in Lines
      BY <1>1 DEF CallType, ViewType
    <3> QED
      BY <1>1, <2>1, <2>4, <2>5, <3>1, StoreBounds DEF AlreadyPaid
  <2>7. task[last].view.lines \in confirmed[ctl.session]
    <3>1. CASE last = t
      BY <1>1, <2>4, <3>1
    <3>2. CASE At(last, "join")
      <4>1. task[last].s = task[t].s
        BY <1>1, <1>3, <2>3, <3>2 DEF JoinInv
      <4>2. task[last].view.lines \in confirmed[task[last].s]
        BY <1>3, <3>2 DEF At, MemoryInv, CallsInv, CallsSound, CallSound, Paying
      <4> QED
        BY <2>4, <4>1, <4>2
    <3> QED
      BY <1>3, <3>1, <3>2
  <2>8. CASE ctl.closed
    BY <2>1, <2>8 DEF CompletionIsTrue
  <2>9. CASE ~ctl.closed
    <3>1. view'.lines = task[last].view.lines
      BY <1>3, <2>1, <2>9 DEF ViewType
    <3>2. view'.lines \in confirmed'[ctl'.session]
      BY <2>1, <2>7, <3>1 DEF CommitPayment
    <3>3. (\A v, u \in Slots : v = u) => payment'[ctl'.session] = view'.lines
      BY <1>3, <2>1, <2>5, <3>1
    <3> QED
      BY <2>1, <2>6, <3>2, <3>3 DEF CompletionIsTrue, AlreadyPaid
  <2> QED
    BY <2>8, <2>9
<1> QED
  BY <1>2, <1>4, <1>5

\* Every step keeps the completion screen true.
LEMMA CompletionStep ==
  StoreTypeOK /\ MemoryInv /\ OpenInv /\ AptInv /\ JoinInv /\ CompletionIsTrue
  /\ [Next]_vars => CompletionIsTrue'
<1> SUFFICES ASSUME StoreTypeOK, MemoryInv, OpenInv, AptInv, JoinInv, CompletionIsTrue,
                    [Next]_vars
             PROVE  CompletionIsTrue'
  OBVIOUS
<1>1. CASE Restart
  BY <1>1, BlankShows DEF Restart, CompletionIsTrue
<1>2. CASE UNCHANGED vars \/ LoseDevice
  BY <1>2 DEF vars, checkoutVars, storeVars, LoseDevice, Breaks, CompletionIsTrue, AlreadyPaid
<1>3. ASSUME NEW t \in Slots, Command(t) \/ Step(t), ~CommitPayment(t), ~Restart
      PROVE  CompletionIsTrue'
  <2>1. Incomplete /\ Undisturbed
    BY <1>3, CommandIncomplete, StepIncomplete, OtherUndisturbed
  <2>2. SUFFICES ASSUME view'.phase = "paymentComplete", ~ctl'.starting, ~ctl'.closed
                 PROVE  CompletionIsTrue'
    BY DEF CompletionIsTrue
  <2>3. /\ view' = view /\ ctl'.session = ctl.session /\ ~ctl.starting
        /\ payment' = payment
    BY <2>1, <2>2 DEF Incomplete, Undisturbed
  <2>4. ~ctl.closed
    BY <1>3, <2>2, FlagsAge
  <2>5. AlreadyPaid(ctl.session) /\ view.lines \in confirmed[ctl.session]
    BY <2>2, <2>3, <2>4 DEF CompletionIsTrue
  <2>6. view.lines \in confirmed'[ctl.session]
    BY <2>5, ConfirmedGrows DEF AlreadyPaid
  <2> QED
    BY <2>2, <2>3, <2>4, <2>5, <2>6 DEF CompletionIsTrue, AlreadyPaid
<1> QED
  BY <1>1, <1>2, <1>3, CommitTells DEF Next

\* The completion screen shows an order the customer pressed pay on, in a session
\* that is durably paid, however payments, retries and starts overlap; and the very
\* order that was charged, if calls do not overlap.
THEOREM CheckoutCompletionIsTrue == Spec => []CompletionIsTrue
<1>1. CheckoutInit => CompletionIsTrue
  BY BlankShows DEF CheckoutInit, CompletionIsTrue
<1> QED
  BY <1>1, JoinInit, JoinStep, CompletionStep, StoreTypeCorrect, CheckoutRefinesStore,
     MemoryInvariant, OpenInvariant, AnswerInvariant, PTL DEF Spec


-----------------------------------------------------------------------------
(* While calls do not overlap.  The controller does not keep calls apart, so *)
(* what screen, memory and database say of each other is promised from a     *)
(* session start that nothing overtakes to the first call that meets         *)
(* another; whatever fails in between, it then holds at every await.         *)

\* at most one call is in flight
Alone == \A t, u \in Slots : task[t] # Nothing /\ task[u] # Nothing => t = u

\* the call that moves is in flight alone, before the step and after it
Lone(t) == \A u \in Slots : u # t => task[u] = Nothing /\ task'[u] = Nothing

\* The history only watches.
LEMMA HistoryRefines == HistorySpec => Spec
<1>1. HistoryInit => CheckoutInit
  BY DEF HistoryInit
<1>2. [HistoryNext]_historyVars => [Next]_vars
  BY DEF HistoryNext, historyVars, Next
<1> QED
  BY <1>1, <1>2, PTL DEF HistorySpec, Spec

\* The calls beside the one that moves stay where they are, cancelled at most.
LEMMA OthersStay ==
  ASSUME MemoryInv, NEW t \in Slots, Command(t) \/ (Step(t) /\ ~CommitPayment(t)),
         NEW u \in Slots, u # t
  PROVE  task'[u] = task[u] \/ task'[u] = Cancelled(task)[u]
<1>1. task \in [Slots -> CallType \cup {Nothing}] /\ Cancelled(task) \in [Slots -> CallType \cup {Nothing}]
  BY CancelledSound DEF MemoryInv, CallsInv
<1> SUFFICES \/ UNCHANGED task \/ \E c : task' = [task EXCEPT ![t] = c]
             \/ task' = Cancelled(task) \/ \E c : task' = [Cancelled(task) EXCEPT ![t] = c]
  BY <1>1
<1>2. ASSUME NEW c, Spawn(t, c) PROVE \E d : task' = [task EXCEPT ![t] = d]
  BY <1>2 DEF Spawn
<1>3. ASSUME NEW pc, Goto(t, pc) PROVE \E d : task' = [task EXCEPT ![t] = d]
  BY <1>1, <1>3 DEF Goto
<1>4. ASSUME Return(t) PROVE \E d : task' = [task EXCEPT ![t] = d]
  BY <1>4 DEF Return
<1>5. CASE Command(t)
  <2>1. CASE Scan(t)
    BY <2>1 DEF Scan
  <2>2. CASE CancelScan(t)
    BY <1>2, <2>2 DEF CancelScan
  <2>3. CASE RetryScan(t)
    BY <1>2, <2>3 DEF RetryScan
  <2>4. CASE EnterManualCart(t) \/ RetryManualCart(t)
    BY <1>2, <2>4 DEF EnterManualCart, RetryManualCart, StartManualCart
  <2>5. ASSUME NEW o \in Objects, NEW p \in Products,
               Choose(t, o, p) \/ OverrideResolvedProduct(t, o, p)
        PROVE  \E c : task' = [task EXCEPT ![t] = c]
    BY <1>2, <2>5 DEF Choose, OverrideResolvedProduct
  <2>6. CASE Pay(t) \/ RetryPayment(t)
    BY <1>2, <2>6 DEF Pay, RetryPayment, Prepares
  <2>7. CASE Initialize(t) \/ StartNextCustomer(t) \/ StartFreshCustomerSession(t)
             \/ Retake(t) \/ EnterAdmin(t) \/ Close(t)
    BY <1>2, <2>7 DEF Initialize, StartNextCustomer, StartFreshCustomerSession,
       StartSession, Retake, EnterAdmin, Close
  <2>8. ASSUME NEW op \in {"mismatch", "restart"}, ReportCountMismatch(t, op)
        PROVE  UNCHANGED task \/ \E c : task' = [task EXCEPT ![t] = c]
    BY <1>2, <2>8 DEF ReportCountMismatch
  <2>9. ASSUME NEW p \in Products, NEW units \in 0..MaxManual, EditQuantity(t, p, units)
        PROVE  UNCHANGED task \/ \E c : task' = [task EXCEPT ![t] = c]
    BY <1>2, <2>9 DEF EditQuantity
  <2> QED
    BY <1>5, <2>1, <2>2, <2>3, <2>4, <2>5, <2>6, <2>7, <2>8, <2>9 DEF Command
<1>6. CASE SessionStartStep(t)
  BY <1>3, <1>4, <1>6 DEF SessionStartStep, RecoverAtStartup, AbandonOld, ResetCapture,
     ReadCatalog, BeginCheckout, ReadSettings, StartScanner, AbandonStartup,
     TerminalizeStart, Opened
<1>7. CASE Complete(t)
  <2> DEFINE v == Mapped(<<task[t].s, task[t].n>>, recs[task[t].s][task[t].n].result)
             c == [task[t] EXCEPT !.pc = "present", !.view = v]
  <2>1. task' = [task EXCEPT ![t] = c] \/ Goto(t, "catch")
    BY <1>1, <1>7 DEF Complete
  <2> HIDE DEF c
  <2> QED
    BY <1>3, <2>1
<1>8. CASE ScanStep(t) /\ ~Complete(t)
  BY <1>3, <1>4, <1>8 DEF ScanStep, Capture, RetainCapture, Stage, Infer, Analyzed,
     RetainReceipt, PresentDraft, PresentResult, CatchScan, AbandonTerminal, DropCancelled,
     AbandonCancelled, ScannerFails
<1>9. CASE RecordChoice(t)
  <2> DEFINE o == task[t].o
             p == task[t].p
             drafts == [view.drafts EXCEPT ![o] = IF @ = Absent THEN @ ELSE p]
             v == [view EXCEPT !.drafts = drafts, !.lines = LinesFor(drafts, ctl.added)]
             c == [task[t] EXCEPT !.pc = "redraw", !.s = ctl.session, !.view = v]
  <2>1. task' = [task EXCEPT ![t] = c] \/ Return(t)
    BY <1>1, <1>9 DEF RecordChoice
  <2> HIDE DEF c
  <2> QED
    BY <1>4, <2>1
<1>10. CASE ReviewStep(t) /\ ~RecordChoice(t)
  BY <1>3, <1>4, <1>10 DEF ReviewStep, PublishMismatch, EnterManualMode, EmptyCart,
     PublishChoice, PublishLines
<1>11. CASE PreparePayment(t)
  BY <1>3, <1>4, <1>11 DEF PreparePayment
<1>12. CASE AbandonForAdmin(t) \/ AbandonClosed(t)
  BY <1>4, <1>12 DEF AbandonForAdmin, AbandonClosed
<1> QED
  BY <1>5, <1>6, <1>7, <1>8, <1>9, <1>10, <1>11, <1>12 DEF Step, PaymentStep

\* A call that moves brings no other into flight.
LEMMA StaysAlone ==
  ASSUME MemoryInv, NEW t \in Slots, Command(t) \/ Step(t),
         \A u \in Slots : u # t => task[u] = Nothing
  PROVE  Lone(t)
<1> SUFFICES ASSUME NEW u \in Slots, u # t PROVE task'[u] = Nothing
  BY DEF Lone
<1>1. CASE CommitPayment(t)
  BY <1>1 DEF CommitPayment, Settled
<1>2. CASE ~CommitPayment(t)
  BY <1>2, OthersStay, CancelledSound
<1> QED
  BY <1>1, <1>2

\* A step is that of a call in flight.
LEMMA StepsAlone ==
  ASSUME MemoryInv, Alone, NEW t \in Slots, Step(t)
  PROVE  Lone(t)
<1>1. task[t] # Nothing
  BY DEF Step, SessionStartStep, RecoverAtStartup, AbandonOld, ResetCapture, ReadCatalog,
     BeginCheckout, ReadSettings, StartScanner, AbandonStartup, TerminalizeStart, ScanStep,
     Capture, RetainCapture, Stage, Infer, Analyzed, RetainReceipt, Complete, PresentDraft,
     PresentResult, CatchScan, AbandonTerminal, DropCancelled, AbandonCancelled, ReviewStep,
     PublishMismatch, EnterManualMode, EmptyCart, RecordChoice, PublishChoice, PublishLines,
     PaymentStep, PreparePayment, CommitPayment, AbandonForAdmin, AbandonClosed, At
<1> QED
  BY <1>1, StaysAlone DEF Alone

\* Only a session start is reserved by a button.
LEMMA StartBegins ==
  ASSUME MemoryInv, NEW t \in Slots, Command(t), Begins
  PROVE  Initialize(t) \/ \E op \in {"next", "fresh"} : StartSession(t, op)
<1>1. ctl \in ControllerType
  BY DEF MemoryInv, ControllerInv
<1>2. ~Close(t)
  BY <1>1 DEF Close, Set, Begins, ControllerType
<1>3. ~QuietCommand(t)
  BY CommandCalm DEF Calm, FlagsKept, Begins
<1> QED
  BY <1>2, <1>3 DEF Command, QuietCommand, StartNextCustomer, StartFreshCustomerSession

LoneInv == ~overlapped => Alone

\* What holds of a call that no other meets holds until calls overlap: buttons answered
\* while another call is in flight are forgotten with the session start that meets none.
LEMMA UntilOverlap ==
  ASSUME MemoryInv, LoneInv, [HistoryNext]_historyVars, ~overlapped'
  PROVE  /\ Alone'
         /\ \/ ~overlapped /\ (UNCHANGED vars \/ LoseDevice)
            \/ Restart
            \/ \E t \in Slots :
                 /\ Lone(t)
                 /\ \/ ~overlapped /\ (Command(t) \/ Step(t))
                    \/ Command(t) /\ Begins
<1>1. CASE UNCHANGED historyVars \/ (LoseDevice /\ UNCHANGED <<overlapped, unwritten>>)
  <2>1. ~overlapped /\ UNCHANGED task /\ (UNCHANGED vars \/ LoseDevice)
    BY <1>1 DEF historyVars, vars, checkoutVars, LoseDevice
  <2>2. Alone
    BY <2>1 DEF LoneInv
  <2> QED
    BY <2>1, <2>2 DEF Alone
<1>2. CASE Restart
  BY <1>2 DEF Restart, Alone
<1>3. ASSUME NEW t \in Slots, Command(t), overlapped' = (~Idle \/ (overlapped /\ ~Begins))
      PROVE  Lone(t) /\ (~overlapped \/ Begins)
  BY <1>3, StaysAlone DEF Idle
<1>4. ASSUME NEW t \in Slots, Step(t), UNCHANGED overlapped
      PROVE  Lone(t) /\ ~overlapped
  BY <1>4, StepsAlone DEF LoneInv
<1>5. ASSUME NEW t \in Slots, Lone(t) PROVE Alone'
  BY <1>5 DEF Lone, Alone
<1> QED
  BY <1>1, <1>2, <1>3, <1>4, <1>5 DEF HistoryNext

\* Until calls overlap there is one at a time.
LEMMA LoneInvariant == HistorySpec => []LoneInv
<1>1. HistoryInit => LoneInv
  BY DEF HistoryInit, CheckoutInit, LoneInv, Alone
<1>2. MemoryInv /\ LoneInv /\ [HistoryNext]_historyVars => LoneInv'
  BY UntilOverlap DEF LoneInv
<1> QED
  BY <1>1, <1>2, HistoryRefines, MemoryInvariant, PTL DEF HistorySpec

\* What is on screen while call c is in flight, and what it has already written:
\* a scan shows the analysing screen, a payment the paying one, and a scan about to
\* be displayed has written its draft for the session in use.
CallSees(c) ==
  /\ c.op \in {"scan", "retry"} => view.phase = "analyzing"
  /\ c.pc \in Paying => view.phase = "paying"
  /\ c.pc = "display" => c.s = ctl.session /\ draft[ctl.session] = c.view.lines

SlotSees(t) == task[t] # Nothing => CallSees(task[t])

\* the screen under review holds the persisted draft, at every await
Reviewed ==
  Open /\ ctl.active /\ ~ctl.starting /\ view.phase \in Reviewing =>
    draft[ctl.session] = view.lines

ReviewInv ==
  /\ Reviewed
  /\ \A t \in Slots : SlotSees(t)

\* what the review depends on stays as it is
StillReviewed ==
  /\ view' = view /\ UNCHANGED draft
  /\ ctl'.session = ctl.session /\ ctl'.active = ctl.active
  /\ ctl'.starting = ctl.starting /\ ctl'.closed = ctl.closed
  /\ ctl'.initialized = ctl.initialized

\* a step that shows no review, or leaves it alone
ReviewKept ==
  \/ ctl'.starting \/ ctl'.closed \/ ~ctl'.active \/ view'.phase \notin Reviewing
  \/ StillReviewed

\* Such a step keeps the review.
LEMMA KeptReviewed ==
  ASSUME Reviewed, ReviewKept
  PROVE  Reviewed'
  BY DEF Reviewed, ReviewKept, StillReviewed, Open

\* A call that moves alone is the only one to see the screen.
LEMMA OnlyCall ==
  ASSUME NEW t \in Slots, Lone(t), Reviewed', SlotSees(t)'
  PROVE  ReviewInv'
  BY DEF Lone, ReviewInv, SlotSees

\* A cleared screen in another phase shows no review.
LEMMA ShowsNoReview ==
  ASSUME NEW phase, phase \notin Reviewing, NEW code, Show(Blank(phase, code)),
         ctl'.closed = ctl.closed
  PROVE  ReviewKept
  BY BlankShows DEF Show, ReviewKept

\* Starting a session ends the review; a retake abandons it.
LEMMA StartReviews ==
  ASSUME MemoryInv, OpenInv, AptInv, ReviewInv, NEW t \in Slots, Lone(t),
         SessionStartStep(t)
  PROVE  ReviewInv'
<1>1. ctl \in ControllerType /\ task[t] # Nothing /\ task[t].pc \in Starting
  BY DEF MemoryInv, ControllerInv, SessionStartStep, RecoverAtStartup, AbandonOld,
     ResetCapture, ReadCatalog, BeginCheckout, ReadSettings, StartScanner,
     AbandonStartup, TerminalizeStart, At, Starting
<1>2. task[t].op \notin {"scan", "retry"}
  BY <1>1, OtherCall DEF Starting, ScanAwaits
<1>3. ASSUME NEW pc \in Starting, Goto(t, pc)
      PROVE  SlotSees(t)'
  <2>1. task'[t].pc = pc /\ task'[t].op = task[t].op
    BY <1>1, <1>3, GoesOn DEF Starting, Awaits
  <2> QED
    BY <1>2, <2>1 DEF SlotSees, CallSees, Starting, Paying
<1>4. Return(t) => task'[t] = Nothing
  BY ComesBack
<1>5. ASSUME NEW phase \in {"ready", "terminalFailure"}, NEW code, Show(Blank(phase, code)),
             ctl'.closed = ctl.closed
      PROVE  ReviewKept
  BY <1>5, ShowsNoReview DEF Reviewing
<1> USE <1>1 DEF Set, ControllerType
<1>6. ReviewKept
  <2>1. CASE task[t].op \in {"retake", "restart"}
    <3>1. task[t].pc = "reset"
      BY <1>1, <2>1 DEF Role, OpenInv, Reserved
    <3>2. ResetCapture(t)
      BY <3>1 DEF SessionStartStep, RecoverAtStartup, AbandonOld, ReadCatalog,
         BeginCheckout, ReadSettings, StartScanner, AbandonStartup, TerminalizeStart, At
    <3>3. CASE UNCHANGED view
      BY <2>1, <3>2, <3>3 DEF ResetCapture, Works, Breaks, storeVars, ReviewKept,
         StillReviewed
    <3> QED
      BY <1>5, <2>1, <3>2, <3>3 DEF ResetCapture
  <2>2. CASE task[t].op \notin {"retake", "restart"}
    <3>1. ctl.starting
      BY <1>1, <2>2 DEF Role, OpenInv, Reserved
    <3>2. CASE ReadSettings(t) \/ StartScanner(t) \/ AbandonStartup(t) \/ TerminalizeStart(t)
      BY <1>5, <3>1, <3>2 DEF ReadSettings, StartScanner, AbandonStartup, TerminalizeStart,
         Opened, ForNewSession, FreshController, ReviewKept
    <3>3. CASE RecoverAtStartup(t) \/ AbandonOld(t) \/ ResetCapture(t) \/ ReadCatalog(t)
               \/ BeginCheckout(t)
      BY <3>1, <3>3 DEF RecoverAtStartup, AbandonOld, ResetCapture, ReadCatalog,
         BeginCheckout, ReviewKept
    <3> QED
      BY <3>2, <3>3 DEF SessionStartStep
  <2> QED
    BY <2>1, <2>2
<1>7. \/ Return(t) \/ \E pc \in Starting : Goto(t, pc)
  BY DEF SessionStartStep, RecoverAtStartup, AbandonOld, ResetCapture, ReadCatalog,
     BeginCheckout, ReadSettings, StartScanner, AbandonStartup, TerminalizeStart, Opened,
     Starting
<1> QED
  BY <1>3, <1>4, <1>6, <1>7, KeptReviewed, OnlyCall DEF ReviewInv, SlotSees

\* A scan draws its review from the draft it has written.
LEMMA ScanReviews ==
  ASSUME StoreTypeOK, MemoryInv, OpenInv, AptInv, ReviewInv, NEW t \in Slots, Lone(t),
         ScanStep(t)
  PROVE  ReviewInv'
<1>1. /\ ctl \in ControllerType /\ view \in ViewType
      /\ task[t] # Nothing /\ task[t] \in CallType
      /\ CallApt(task[t], ctl.closed, faults, attempt) /\ CallSees(task[t])
  BY DEF MemoryInv, ControllerInv, RestType, CallsInv, AptInv, CallsApt, ReviewInv, SlotSees, ScanStep,
     Capture, RetainCapture, Stage, Infer, Analyzed, RetainReceipt, Complete, PresentDraft,
     PresentResult, CatchScan, AbandonTerminal, DropCancelled, AbandonCancelled, At
<1>2. ctl'.closed = ctl.closed
  BY <1>1 DEF ScanStep, Capture, RetainCapture, Stage, Infer, Analyzed, RetainReceipt,
     Complete, PresentDraft, PresentResult, CatchScan, AbandonTerminal, DropCancelled,
     AbandonCancelled, Set, ControllerType
<1>3. ASSUME NEW phase, phase \notin Reviewing, NEW code, Show(Blank(phase, code))
      PROVE  ReviewKept
  BY <1>2, <1>3, ShowsNoReview
<1>4. Return(t) => task'[t] = Nothing
  BY ComesBack
<1>5. CASE AbandonCancelled(t)
  <2>1. task'[t] = Nothing
    BY <1>4, <1>5, CancelledSound DEF AbandonCancelled
  <2>2. ReviewKept
    BY <1>3, <1>5 DEF AbandonCancelled, Reviewing
  <2> QED
    BY <2>1, <2>2, KeptReviewed, OnlyCall DEF ReviewInv, SlotSees
<1> SUFFICES ASSUME ~AbandonCancelled(t) PROVE ReviewInv'
  BY <1>5
<1>6. task[t].op \in {"scan", "retry"} /\ view.phase = "analyzing"
  <2>1. task[t].pc \in ScanAwaits \cup {"abandonTerminal"}
    BY DEF ScanStep, Capture, RetainCapture, Stage, Infer, Analyzed, RetainReceipt, Complete,
       PresentDraft, PresentResult, CatchScan, AbandonTerminal, DropCancelled, At, ScanAwaits
  <2>2. task[t].op \in {"scan", "retry"}
    BY <1>1, <2>1 DEF CallApt, MemoryInv, CallsInv, CallsSound, CallSound
  <2> QED
    BY <1>1, <2>2 DEF CallSees
<1>7. UNCHANGED view => ReviewKept
  BY <1>6 DEF ReviewKept, Reviewing
<1>8. ASSUME UNCHANGED view, NEW pc \in ScanAwaits \cup {"abandonTerminal"}, pc # "display",
             Goto(t, pc)
      PROVE  ReviewInv'
  <2>1. task'[t].pc = pc /\ task'[t].op = task[t].op
    BY <1>1, <1>8, GoesOn DEF Awaits
  <2>2. SlotSees(t)'
    BY <1>6, <1>8, <2>1 DEF SlotSees, CallSees, ScanAwaits, Paying
  <2> QED
    BY <1>7, <1>8, <2>2, KeptReviewed, OnlyCall DEF ReviewInv
<1>9. ASSUME Return(t), ReviewKept PROVE ReviewInv'
  BY <1>4, <1>9, KeptReviewed, OnlyCall DEF ReviewInv, SlotSees
<1>10. CASE Complete(t)
  <2> DEFINE v == Mapped(<<task[t].s, task[t].n>>, recs[task[t].s][task[t].n].result)
             c == [task[t] EXCEPT !.pc = "present", !.view = v]
  <2>1. c.pc = "present" /\ c.op = task[t].op
    BY <1>1 DEF CallType
  <2>2. task' = [task EXCEPT ![t] = c] \/ Goto(t, "catch")
    BY <1>10 DEF Complete, MemoryInv, CallsInv
  <2> HIDE DEF c
  <2>3. UNCHANGED view
    BY <1>10 DEF Complete
  <2>4. CASE task' = [task EXCEPT ![t] = c]
    <3>1. task'[t] = c
      BY <2>4 DEF MemoryInv, CallsInv
    <3>2. SlotSees(t)'
      BY <1>6, <2>1, <2>3, <3>1 DEF SlotSees, CallSees, Paying
    <3> QED
      BY <1>7, <2>3, <3>2, KeptReviewed, OnlyCall DEF ReviewInv
  <2> QED
    BY <1>8, <2>2, <2>3, <2>4 DEF ScanAwaits
<1>11. CASE PresentDraft(t)
  <2>1. CASE ReplaceDraftOrder(task[t].s, task[t].view.lines) /\ Goto(t, "display")
    <3>1. task[t].s \in Sessions /\ Held(task[t].s) /\ sessionState[task[t].s] = "active"
      BY <1>1, <2>1 DEF ReplaceDraftOrder, CanReplaceDraft, IsActive, Held
    <3>2. task[t].s = ctl.session
      BY <3>1 DEF OpenInv, Known
    <3>3. draft'[ctl.session] = task[t].view.lines
      BY <2>1, <3>1, <3>2 DEF ReplaceDraftOrder, StoreTypeOK
    <3>4. /\ task'[t].pc = "display" /\ task'[t].op = task[t].op
          /\ task'[t].s = task[t].s /\ task'[t].view = task[t].view
      BY <1>1, <2>1, GoesOn DEF Awaits, ScanAwaits
    <3>5. SlotSees(t)'
      BY <1>6, <1>11, <3>2, <3>3, <3>4 DEF SlotSees, CallSees, PresentDraft, Paying
    <3> QED
      BY <1>7, <1>11, <3>5, KeptReviewed, OnlyCall DEF ReviewInv, PresentDraft
  <2> QED
    BY <1>8, <1>11, <2>1 DEF PresentDraft, ScanAwaits
<1>12. CASE PresentResult(t)
  <2>1. CASE Goto(t, "catch") /\ UNCHANGED view
    BY <1>8, <2>1 DEF ScanAwaits
  <2>2. CASE /\ Works /\ Show(task[t].view) /\ Return(t)
             /\ ctl'.session = ctl.session
    <3>1. draft'[ctl.session] = task[t].view.lines
      BY <1>1, <1>12, <2>2 DEF PresentResult, At, CallSees, Works, storeVars
    <3>2. Reviewed'
      BY <1>2, <1>6, <2>2, <3>1 DEF Show, Reviewed, Reviewing
    <3> QED
      BY <1>4, <2>2, <3>2, OnlyCall DEF SlotSees
  <2> QED
    BY <1>1, <1>12, <2>1, <2>2 DEF PresentResult, ControllerType
<1>13. CASE CatchScan(t)
  <2>1. CASE Abandons(t) /\ UNCHANGED view
    <3>1. SlotSees(t)'
      BY <1>1, <1>6, <2>1, AbandonsNext DEF SlotSees, CallSees, Paying
    <3> QED
      BY <1>7, <2>1, <3>1, KeptReviewed, OnlyCall DEF ReviewInv
  <2> QED
    BY <1>3, <1>8, <1>9, <1>13, <2>1 DEF CatchScan, Abandons, ScanAwaits, Reviewing
<1>14. CASE AbandonTerminal(t)
  BY <1>3, <1>7, <1>9, <1>14 DEF AbandonTerminal, Reviewing
<1>15. CASE DropCancelled(t)
  BY <1>7, <1>9, <1>15 DEF DropCancelled
<1>16. CASE Capture(t) \/ RetainCapture(t) \/ Stage(t) \/ Infer(t) \/ Analyzed(t)
            \/ RetainReceipt(t)
  <2>1. \E pc \in ScanAwaits : pc # "display" /\ Goto(t, pc)
    BY <1>16 DEF Capture, RetainCapture, Stage, Infer, Analyzed, RetainReceipt,
       ScannerFails, ScanAwaits
  <2> QED
    BY <1>8, <1>16, <2>1 DEF Capture, RetainCapture, Stage, Infer, Analyzed, RetainReceipt
<1> QED
  BY <1>10, <1>11, <1>12, <1>13, <1>14, <1>15, <1>16 DEF ScanStep


\* A draft that is persisted and shown in one step is the one on screen.
LEMMA DraftShown ==
  ASSUME StoreTypeOK, OpenInv, NEW t \in Slots, task[t] # Nothing, NEW lines,
         ReplaceDraftOrder(task[t].s, lines), NEW v, v.lines = lines, Show(v),
         ctl'.session = ctl.session, ctl'.closed = ctl.closed
  PROVE  Reviewed'
<1>1. task[t].s \in Sessions /\ Held(task[t].s) /\ sessionState[task[t].s] = "active"
  BY DEF ReplaceDraftOrder, CanReplaceDraft, IsActive, Held
<1>2. task[t].s = ctl.session
  BY <1>1 DEF OpenInv, Known
<1>3. draft'[ctl.session] = lines
  BY <1>1, <1>2 DEF ReplaceDraftOrder, StoreTypeOK
<1> QED
  BY <1>3 DEF Show, Reviewed, Open

\* A call that neither scans nor pays expects nothing of the screen.
LEMMA SeesNothing ==
  ASSUME NEW t \in Slots,
         task'[t] # Nothing => /\ task'[t].op \notin {"scan", "retry"}
                               /\ task'[t].pc \notin Paying \cup {"display"}
  PROVE  SlotSees(t)'
  BY DEF SlotSees, CallSees

\* The customer reviews, corrects and empties the order as it is persisted.
LEMMA ReviewReviews ==
  ASSUME StoreTypeOK, MemoryInv, OpenInv, AptInv, ReviewInv, NEW t \in Slots, Lone(t),
         ReviewStep(t)
  PROVE  ReviewInv'
<1>1. /\ ctl \in ControllerType /\ view \in ViewType
      /\ task[t] # Nothing /\ task[t] \in CallType /\ task[t].view \in ViewType
      /\ task[t].pc \in {"mismatch", "enterManual", "emptyCart", "record", "redraw",
                         "persist"}
  BY DEF ReviewStep, PublishMismatch, EnterManualMode, EmptyCart, RecordChoice,
     PublishChoice, PublishLines, At, MemoryInv, ControllerInv, RestType, CallsInv, CallType
<1>2. task[t].op \notin {"scan", "retry"}
  BY <1>1, OtherCall DEF ScanAwaits
<1>3. ASSUME Return(t) PROVE SlotSees(t)'
  BY <1>3, ComesBack DEF SlotSees
<1>4. ASSUME NEW pc \in {"reset", "emptyCart"}, Goto(t, pc) PROVE SlotSees(t)'
  <2>1. task'[t].op = task[t].op /\ task'[t].pc = pc
    BY <1>1, <1>4, GoesOn DEF Awaits
  <2> QED
    BY <1>2, <2>1, SeesNothing DEF Paying
<1>5. SlotSees(t)'
  <2>1. CASE RecordChoice(t)
    <3> DEFINE o == task[t].o
               p == task[t].p
               drafts == [view.drafts EXCEPT ![o] = IF @ = Absent THEN @ ELSE p]
               v == [view EXCEPT !.drafts = drafts, !.lines = LinesFor(drafts, ctl.added)]
               c == [task[t] EXCEPT !.pc = "redraw", !.s = ctl.session, !.view = v]
    <3>1. c.pc = "redraw" /\ c.op = task[t].op
      BY <1>1 DEF CallType
    <3>2. task' = [task EXCEPT ![t] = c] \/ Return(t)
      BY <2>1 DEF RecordChoice, MemoryInv, CallsInv
    <3> HIDE DEF c
    <3>3. CASE task' = [task EXCEPT ![t] = c]
      <4>1. task'[t] = c
        BY <3>3 DEF MemoryInv, CallsInv
      <4> QED
        BY <1>2, <3>1, <4>1, SeesNothing DEF Paying
    <3> QED
      BY <1>3, <3>2, <3>3
  <2> QED
    BY <1>3, <1>4, <2>1 DEF ReviewStep, PublishMismatch, EnterManualMode, EmptyCart,
       PublishChoice, PublishLines
<1>6. Reviewed' => ReviewInv'
  BY <1>5, OnlyCall
<1>7. Reviewed'
  <2>1. UNCHANGED <<view, draft>> /\ ctl' \in {ctl, Emptied,
              [ctl EXCEPT !.explicit = ctl.explicit \cup {task[t].o}]} => Reviewed'
    <3> SUFFICES ASSUME UNCHANGED <<view, draft>>, ctl' \in {ctl, Emptied,
                          [ctl EXCEPT !.explicit = ctl.explicit \cup {task[t].o}]}
                 PROVE  StillReviewed
      BY KeptReviewed DEF ReviewInv, ReviewKept
    <3> QED
      BY <1>1 DEF StillReviewed, Emptied, ControllerType
  <2>2. ASSUME NEW phase, phase \notin Reviewing, NEW code, Show(Blank(phase, code)),
               UNCHANGED ctl
        PROVE  Reviewed'
    BY <2>2, ShowsNoReview, KeptReviewed DEF ReviewInv
  <2>3. CASE PublishMismatch(t)
    <3>1. Blank("retakeRequired", "count_mismatch").lines = NoLines
      BY DEF Blank
    <3> QED
      BY <1>1, <2>1, <2>3, <3>1, DraftShown DEF PublishMismatch, Throws, storeVars
  <2>4. CASE EnterManualMode(t)
    BY <2>1, <2>2, <2>4 DEF EnterManualMode, EnterManualCartMode, ManualCartFailure,
       Reviewing
  <2>5. CASE EmptyCart(t)
    <3>1. Blank("orderReview", "none").lines = NoLines
      BY DEF Blank
    <3> QED
      BY <1>1, <2>2, <2>5, <3>1, DraftShown DEF EmptyCart, ManualCartFailure, Reviewing
  <2>6. CASE RecordChoice(t)
    BY <2>1, <2>6 DEF RecordChoice, RecordResolution, Throws, storeVars, Set
  <2>7. CASE PublishChoice(t)
    <3> DEFINE chosen == task[t].view
    <3>1. ASSUME NEW phase PROVE [chosen EXCEPT !.code = "none", !.phase = phase].lines
                                   = chosen.lines
      BY <1>1 DEF ViewType
    <3>2. UNCHANGED ctl
      BY <2>7 DEF PublishChoice
    <3>3. CASE UNCHANGED view /\ Throws(CanReplaceDraft(task[t].s))
      BY <2>1, <3>2, <3>3 DEF Throws, storeVars
    <3>4. ASSUME ReplaceDraftOrder(task[t].s, chosen.lines), NEW phase,
                 Show([chosen EXCEPT !.code = "none", !.phase = phase])
          PROVE  Reviewed'
      BY <1>1, <3>1, <3>2, <3>4, DraftShown
    <3> QED
      BY <2>7, <3>3, <3>4 DEF PublishChoice
  <2>8. CASE PublishLines(t)
    <3> DEFINE lines == task[t].view.lines
               v == [view EXCEPT !.phase = "orderReview", !.code = "none", !.lines = lines]
    <3>1. v.lines = lines
      BY <1>1 DEF ViewType
    <3>2. CASE UNCHANGED view /\ Throws(CanReplaceDraft(task[t].s))
      BY <2>1, <2>8, <3>2 DEF PublishLines, Throws, storeVars
    <3>3. CASE ReplaceDraftOrder(task[t].s, lines) /\ Show(v)
      <4>1. UNCHANGED ctl
        BY <2>8 DEF PublishLines
      <4> HIDE DEF v
      <4> QED
        BY <1>1, <3>1, <3>3, <4>1, DraftShown
    <3> QED
      BY <2>8, <3>2, <3>3 DEF PublishLines
  <2> QED
    BY <2>3, <2>4, <2>5, <2>6, <2>7, <2>8 DEF ReviewStep
<1> QED
  BY <1>6, <1>7


\* A screen in a phase that is not reviewed shows no review, whatever else it says.
LEMMA ShowsElse ==
  ASSUME NEW v, v.phase \notin Reviewing, Show(v), ctl'.closed = ctl.closed
  PROVE  ReviewKept
  BY DEF Show, ReviewKept

\* While a payment is in flight no review is on screen.
LEMMA PaymentReviews ==
  ASSUME MemoryInv, AptInv, ReviewInv, NEW t \in Slots, Lone(t), PaymentStep(t)
  PROVE  ReviewInv'
<1>1. /\ ctl \in ControllerType /\ view \in ViewType
      /\ task[t] # Nothing /\ task[t].pc \in {"prepare", "commit"}
      /\ view.phase = "paying"
  BY DEF PaymentStep, PreparePayment, CommitPayment, At, MemoryInv, ControllerInv, RestType,
     ReviewInv, SlotSees, CallSees, Paying
<1>2. task[t].op \notin {"scan", "retry"}
  BY <1>1, OtherCall DEF ScanAwaits
<1>3. UNCHANGED view => ReviewKept
  BY <1>1 DEF ReviewKept, Reviewing
<1>4. ASSUME NEW u \in Slots, task[u] # Nothing, PaymentFails(u), UNCHANGED ctl
      PROVE  ReviewKept
  <2>1. task[u].view \in ViewType
    BY <1>4 DEF MemoryInv, CallsInv, CallType
  <2>2. [task[u].view EXCEPT !.phase = "recoverableFailure",
                             !.code = "payment_commit"].phase = "recoverableFailure"
    BY <2>1 DEF ViewType
  <2> QED
    BY <1>4, <2>2, ShowsElse DEF PaymentFails, Reviewing
<1>5. CASE PreparePayment(t)
  <2>1. CASE Accepts(t) /\ UNCHANGED view
    <3>1. SlotSees(t)'
      BY <1>1, <1>2, <1>5, <2>1, AcceptsNext DEF SlotSees, CallSees, PreparePayment, At
    <3> QED
      BY <1>3, <2>1, <3>1, KeptReviewed, OnlyCall DEF ReviewInv
  <2>2. ASSUME NEW pc \in {"join", "commit"}, Goto(t, pc), UNCHANGED view
        PROVE  ReviewInv'
    <3>1. task'[t].pc = pc /\ task'[t].op = task[t].op
      BY <1>1, <2>2, GoesOn DEF Awaits
    <3>2. SlotSees(t)'
      BY <1>1, <1>2, <2>2, <3>1 DEF SlotSees, CallSees
    <3> QED
      BY <1>3, <2>2, <3>2, KeptReviewed, OnlyCall DEF ReviewInv
  <2>3. CASE PaymentFails(t) /\ Return(t) /\ UNCHANGED ctl
    <3>1. SlotSees(t)'
      BY <2>3, ComesBack DEF SlotSees
    <3> QED
      BY <1>1, <1>4, <2>3, <3>1, KeptReviewed, OnlyCall DEF ReviewInv
  <2> QED
    BY <1>5, <2>1, <2>2, <2>3, UpcomingTyped DEF PreparePayment, Accepts
<1>6. CASE CommitPayment(t)
  <2>1. SlotSees(t)'
    BY <1>6 DEF CommitPayment, Settled, SlotSees
  <2>2. PICK last \in LastCallers(t) : PaymentSucceeds(last) \/ (PaymentFails(last) /\ UNCHANGED ctl)
    BY <1>6 DEF CommitPayment
  <2>3. last \in Slots /\ task[last] # Nothing
    BY <1>1, <2>2 DEF LastCallers, Joined, At
  <2>4. PaymentSucceeds(last) => ReviewKept
    BY <1>1 DEF PaymentSucceeds, ReviewKept, ControllerType
  <2>5. ReviewKept
    BY <1>4, <2>2, <2>3, <2>4
  <2> QED
    BY <2>1, <2>5, KeptReviewed, OnlyCall DEF ReviewInv
<1> QED
  BY <1>5, <1>6 DEF PaymentStep

\* Leaving for the administrator ends the session, and a closed controller's screen
\* is no review.
LEMMA LeavingReviews ==
  ASSUME MemoryInv, AptInv, ReviewInv, NEW t \in Slots, Lone(t),
         AbandonForAdmin(t) \/ AbandonClosed(t)
  PROVE  ReviewInv'
<1>1. ctl \in ControllerType /\ task \in [Slots -> CallType \cup {Nothing}]
  BY DEF MemoryInv, ControllerInv, CallsInv
<1>2. task'[t] = Nothing
  BY <1>1, CancelledSound, ComesBack DEF AbandonForAdmin, AbandonClosed
<1>3. SlotSees(t)'
  BY <1>2 DEF SlotSees
<1>4. CASE AbandonForAdmin(t)
  <2>1. ReviewKept
    BY <1>1, <1>4 DEF AbandonForAdmin, Set, Throws, storeVars, ReviewKept, StillReviewed,
       ControllerType
  <2> QED
    BY <1>3, <2>1, KeptReviewed, OnlyCall DEF ReviewInv
<1>5. CASE AbandonClosed(t)
  <2>1. ctl.closed
    BY <1>5 DEF AbandonClosed, At, AptInv, CallsApt, CallApt
  <2>2. ReviewKept
    BY <1>1, <1>5, <2>1 DEF AbandonClosed, Set, ReviewKept, ControllerType
  <2> QED
    BY <1>3, <2>2, KeptReviewed, OnlyCall DEF ReviewInv
<1> QED
  BY <1>4, <1>5

\* A button that starts no call leaves the call in flight what it sees.
LEMMA StillSees ==
  ASSUME MemoryInv, ReviewInv, NEW t \in Slots, UNCHANGED task,
         \/ UNCHANGED <<view, draft>> /\ ctl'.session = ctl.session
         \/ view.phase \notin {"analyzing", "paying"}
  PROVE  SlotSees(t)'
<1>1. task[t] # Nothing => CallSees(task[t]) /\ CallSound(task[t], recs, confirmed)
  BY DEF ReviewInv, SlotSees, MemoryInv, CallsInv, CallsSound
<1>2. CASE view.phase \notin {"analyzing", "paying"}
  BY <1>1, <1>2, SeesNothing DEF CallSees, CallSound, ScanAwaits
<1>3. CASE UNCHANGED <<view, draft>> /\ ctl'.session = ctl.session
  BY <1>1, <1>3 DEF SlotSees, CallSees
<1> QED
  BY <1>2, <1>3

\* Before the first screen of a new session nothing is reviewed.
LEMMA BeginReviews ==
  ASSUME MemoryInv, NEW t \in Slots, Lone(t),
         Initialize(t) \/ \E op \in {"next", "fresh"} : StartSession(t, op)
  PROVE  ReviewInv'
<1>1. ctl \in ControllerType /\ task \in [Slots -> CallType \cup {Nothing}]
  BY DEF MemoryInv, ControllerInv, CallsInv
<1>2. Reviewed'
  BY <1>1 DEF Initialize, StartSession, Set, ControllerType, Reviewed
<1>3. ASSUME NEW op \in Calls \ {"scan", "retry"}, NEW pc \in Awaits \ (Paying \cup {"display"}),
             Spawn(t, Call(op, pc))
      PROVE  SlotSees(t)'
  BY <1>1, <1>3, CallTyped, SeesNothing DEF Spawn
<1>4. CASE Initialize(t)
  BY <1>2, <1>3, <1>4, OnlyCall DEF Initialize, Calls, Awaits, Paying
<1>5. ASSUME NEW op \in {"next", "fresh"}, StartSession(t, op) PROVE ReviewInv'
  <2>1. SlotSees(t)'
    BY <1>3, <1>5 DEF StartSession, Calls, Awaits, Paying
  <2> QED
    BY <1>2, <2>1, OnlyCall
<1> QED
  BY <1>4, <1>5

\* What a button starts sees the screen the button shows.
LEMMA CommandReviews ==
  ASSUME MemoryInv, AptInv, ReviewInv, NEW t \in Slots, Lone(t), Command(t)
  PROVE  ReviewInv'
<1>1. /\ ctl \in ControllerType /\ view \in ViewType
      /\ task \in [Slots -> CallType \cup {Nothing}]
  BY DEF MemoryInv, ControllerInv, RestType, CallsInv
<1>2. ASSUME ReviewKept, SlotSees(t)' PROVE ReviewInv'
  BY <1>2, KeptReviewed, OnlyCall DEF ReviewInv
<1>3. ASSUME NEW op \in Calls \ {"scan", "retry"}, NEW pc \in Awaits \ (Paying \cup {"display"}),
             Spawn(t, Call(op, pc))
      PROVE  SlotSees(t)'
  BY <1>1, <1>3, CallTyped, SeesNothing DEF Spawn
<1>4. ASSUME UNCHANGED view, UNCHANGED storeVars, ctl' \in ControllerType,
             ctl'.session = ctl.session, ctl'.active = ctl.active,
             ctl'.starting = ctl.starting, ctl'.closed = ctl.closed,
             ctl'.initialized = ctl.initialized
      PROVE  ReviewKept
  BY <1>4 DEF ReviewKept, StillReviewed, storeVars
<1>5. ASSUME NEW phase, phase \notin Reviewing, NEW code, Show(Blank(phase, code)),
             ctl'.closed = ctl.closed
      PROVE  ReviewKept
  BY <1>5, ShowsNoReview
<1>6. ASSUME NEW phase, NEW code, Show(Blank(phase, code)), Open
      PROVE  view'.phase = phase
  BY <1>6, BlankShows DEF Show, Open
<1> USE DEF Set, Customer
<1>7. CASE Initialize(t) \/ \E op \in {"next", "fresh"} : StartSession(t, op)
  BY <1>7, BeginReviews
<1>9. CASE Scan(t)
  <2> DEFINE n == ctl.attempt + 1
             pc == IF CanAnalyze THEN "capture" ELSE "catch"
             c == [Call("scan", pc) EXCEPT !.n = n]
  <2>1. pc \in {"capture", "catch"} /\ pc \in Awaits /\ "scan" \in Calls
    BY DEF Awaits, ScanAwaits, Calls
  <2>2. Call("scan", pc) \in CallType /\ Call("scan", pc).pc = pc
    BY <1>1, <2>1, CallTyped
  <2>3. c.pc = pc
    BY <2>2 DEF CallType
  <2>4. task' = [Cancelled(task) EXCEPT ![t] = c]
    BY <1>9 DEF Scan
  <2> HIDE DEF c, pc
  <2>5. task'[t] = c
    BY <2>4, CancelledSound
  <2>6. view'.phase = "analyzing"
    BY <1>6, <1>9 DEF Scan
  <2>7. SlotSees(t)'
    BY <2>1, <2>3, <2>5, <2>6 DEF SlotSees, CallSees, Paying
  <2>8. ReviewKept
    BY <2>6 DEF ReviewKept, Reviewing
  <2> QED
    BY <1>2, <2>7, <2>8
<1>10. CASE RetryScan(t)
  <2> DEFINE call(pc) == [Call("retry", pc) EXCEPT !.s = ctl.rec[1], !.n = ctl.rec[2]]
  <2>1. ctl.rec[1] \in Sessions /\ ctl.rec[2] \in Attempts
    BY <1>1, <1>10 DEF RetryScan, ControllerType, Scans
  <2>2. ASSUME NEW pc \in {"analyzed", "catch", "infer", "retain"}
        PROVE  call(pc).pc = pc
    <3>1. pc \in Awaits /\ "retry" \in Calls
      BY DEF Calls, Awaits, ScanAwaits
    <3>2. Call("retry", pc) \in CallType /\ Call("retry", pc).pc = pc
      BY <1>1, <3>1, CallTyped
    <3> QED
      BY <3>2 DEF CallType
  <2>3. \/ UNCHANGED task /\ Show(Blank("ready", "none"))
        \/ /\ Show(Blank("analyzing", "none"))
           /\ \E pc \in {"analyzed", "catch", "infer", "retain"} : Spawn(t, call(pc))
    BY <1>10 DEF RetryScan
  <2> HIDE DEF call
  <2>4. view'.phase \in {"ready", "analyzing"}
    BY <1>6, <1>10, <2>3 DEF RetryScan
  <2>5. ReviewKept
    BY <2>4 DEF ReviewKept, Reviewing
  <2>6. CASE UNCHANGED task
    BY <1>2, <1>10, <2>5, <2>6, StillSees DEF RetryScan
  <2>7. ASSUME NEW pc \in {"analyzed", "catch", "infer", "retain"}, Spawn(t, call(pc)),
               Show(Blank("analyzing", "none"))
        PROVE  ReviewInv'
    <3>1. task'[t] = call(pc)
      BY <1>1, <2>7 DEF Spawn
    <3>2. view'.phase = "analyzing"
      BY <1>6, <1>10, <2>7 DEF RetryScan
    <3>3. SlotSees(t)'
      BY <2>2, <3>1, <3>2 DEF SlotSees, CallSees, Paying
    <3> QED
      BY <1>2, <2>5, <3>3
  <2> QED
    BY <2>3, <2>6, <2>7
<1>11. CASE CancelScan(t)
  <2>1. ReviewKept
    BY <1>5, <1>11 DEF CancelScan, ReviewKept, Reviewing
  <2>2. CASE task' = Cancelled(task) /\ task[t] = Nothing
    <3>1. task'[t] = Nothing
      BY <2>2, CancelledSound
    <3> QED
      BY <1>2, <2>1, <3>1 DEF SlotSees
  <2> QED
    BY <1>2, <1>3, <1>11, <2>1, <2>2 DEF CancelScan, Calls, Awaits, Paying
<1>12. CASE Retake(t)
  <2>1. ReviewKept
    BY <1>1, <1>4, <1>12 DEF Retake
  <2> QED
    BY <1>2, <1>3, <1>12, <2>1 DEF Retake, Calls, Awaits, Paying
<1>13. ASSUME NEW op \in {"mismatch", "restart"}, ReportCountMismatch(t, op) PROVE ReviewInv'
  <2>1. ReviewKept /\ ctl'.session = ctl.session
    BY <1>1, <1>13 DEF ReportCountMismatch, ReviewKept, StillReviewed, storeVars,
       ControllerType
  <2>2. SlotSees(t)'
    BY <1>3, <1>13, StillSees DEF ReportCountMismatch, Calls, Awaits, ScanAwaits, Paying
  <2> QED
    BY <1>2, <2>1, <2>2
<1>14. CASE EnterManualCart(t) \/ RetryManualCart(t)
  <2>1. ReviewKept
    BY <1>1, <1>5, <1>14 DEF EnterManualCart, RetryManualCart, StartManualCart, Emptied,
       ManualCartFailure, ReviewKept, Reviewing, ControllerType
  <2>2. SlotSees(t)'
    BY <1>3, <1>14, StillSees DEF EnterManualCart, RetryManualCart, StartManualCart, Calls,
       Awaits, Paying, ScanAwaits
  <2> QED
    BY <1>2, <2>1, <2>2
<1>15. ASSUME NEW o \in Objects, NEW p \in Products,
              Choose(t, o, p) \/ OverrideResolvedProduct(t, o, p)
       PROVE  ReviewInv'
  <2> DEFINE c == [Call("resolve", "record") EXCEPT !.o = o, !.p = p,
                                                    !.view.scan = view.scan]
  <2>1. c.op = "resolve" /\ c.pc = "record"
    BY <1>1, BuiltCalls
  <2>2. Spawn(t, c) /\ UNCHANGED <<view, ctl, storeVars>>
    BY <1>15 DEF Choose, OverrideResolvedProduct
  <2> HIDE DEF c
  <2>3. SlotSees(t)'
    BY <1>1, <2>1, <2>2, SeesNothing DEF Spawn, Paying
  <2> QED
    BY <1>1, <1>2, <1>4, <2>2, <2>3
<1>16. ASSUME NEW p \in Products, NEW units \in 0..MaxManual, EditQuantity(t, p, units)
       PROVE  ReviewInv'
  <2> DEFINE c == [Call("edit", "persist") EXCEPT
                     !.view.lines = LinesFor(view.drafts, ctl'.added)]
  <2>1. c.op = "edit" /\ c.pc = "persist"
    BY <1>1, BuiltCalls
  <2>2. /\ Spawn(t, c) \/ UNCHANGED task
        /\ UNCHANGED <<view, storeVars>>
    BY <1>16 DEF EditQuantity
  <2>3. ReviewKept
    BY <1>1, <1>16 DEF EditQuantity, ReviewKept, StillReviewed, storeVars, ControllerType
  <2> HIDE DEF c
  <2>4. Spawn(t, c) => SlotSees(t)'
    BY <1>1, <2>1, SeesNothing DEF Spawn, Paying
  <2> QED
    BY <1>2, <1>16, <2>2, <2>3, <2>4, StillSees DEF EditQuantity
<1>17. CASE Pay(t)
  <2>1. ctl.session \in Sessions
    BY <1>17 DEF Pay, MemoryInv, ControllerInv
  <2>2. PICK c \in CallType : Spawn(t, c) /\ c.op = "pay" /\ c.pc = "prepare"
    BY <1>1, <1>17, <2>1, PayStarts DEF Pay
  <2>3. task'[t] = c
    BY <1>1, <2>2 DEF Spawn
  <2>4. view'.phase = "paying"
    BY <1>1, <1>17 DEF Pay, Open, Show, ViewType
  <2>5. SlotSees(t)'
    BY <2>2, <2>3, <2>4 DEF SlotSees, CallSees
  <2>6. ReviewKept
    BY <2>4 DEF ReviewKept, Reviewing
  <2> QED
    BY <1>2, <2>5, <2>6
<1>18. CASE RetryPayment(t)
  <2>1. ctl.frozen.s \in Sessions /\ ctl.frozen.review \in ViewType
    BY <1>1, <1>18 DEF RetryPayment, ControllerType
  <2>2. PICK c \in CallType : Spawn(t, c) /\ c.op = "pay" /\ c.pc = "prepare"
    BY <1>1, <1>18, <2>1, PayStarts DEF RetryPayment
  <2>3. task'[t] = c
    BY <1>1, <2>2 DEF Spawn
  <2>4. view'.phase = "paying"
    BY <1>18, <2>1 DEF RetryPayment, Open, Show, ViewType
  <2>5. SlotSees(t)'
    BY <2>2, <2>3, <2>4 DEF SlotSees, CallSees
  <2>6. ReviewKept
    BY <2>4 DEF ReviewKept, Reviewing
  <2> QED
    BY <1>2, <2>5, <2>6
<1>19. CASE EnterAdmin(t)
  <2>1. ReviewKept
    BY <1>1, <1>4, <1>19 DEF EnterAdmin
  <2>2. SlotSees(t)'
    BY <1>3, <1>19, StillSees DEF EnterAdmin, Calls, Awaits, Paying, ScanAwaits, storeVars
  <2> QED
    BY <1>2, <2>1, <2>2
<1>20. CASE Close(t)
  <2>1. ReviewKept
    BY <1>1, <1>20 DEF Close, ReviewKept, ControllerType
  <2> QED
    BY <1>2, <1>3, <1>20, <2>1 DEF Close, Calls, Awaits, Paying
<1> QED
  BY <1>7, <1>9, <1>10, <1>11, <1>12, <1>13, <1>14, <1>15, <1>16, <1>17, <1>18,
     <1>19, <1>20 DEF Command, StartNextCustomer, StartFreshCustomerSession

\* The review agrees with the draft until calls overlap.
ReviewHolds == ~overlapped => ReviewInv

\* Nothing is reviewed when a process starts.
LEMMA ReviewInit == CheckoutInit => ReviewInv
  BY BlankShows DEF CheckoutInit, ReviewInv, Reviewed, SlotSees, Reviewing, FreshController,
     Open

\* While calls do not overlap, every step keeps the review and the draft together.
LEMMA ReviewAgreesStep ==
  StoreTypeOK /\ MemoryInv /\ OpenInv /\ AptInv /\ LoneInv /\ ReviewHolds
  /\ [HistoryNext]_historyVars => ReviewHolds'
<1> SUFFICES ASSUME StoreTypeOK, MemoryInv, OpenInv, AptInv, LoneInv, ReviewHolds,
                    [HistoryNext]_historyVars, ~overlapped'
             PROVE  ReviewInv'
  BY DEF ReviewHolds
<1>1. CASE Restart
  BY <1>1, BlankShows DEF Restart, ReviewInv, Reviewed, SlotSees, Reviewing
<1>2. CASE ~overlapped /\ (UNCHANGED vars \/ LoseDevice)
  <2>1. UNCHANGED <<view, draft, ctl, task>>
    BY <1>2 DEF vars, checkoutVars, storeVars, LoseDevice, Breaks
  <2> QED
    BY <1>2, <2>1, StillSees DEF ReviewHolds, ReviewInv, Reviewed, Open
<1>3. ASSUME ~overlapped, NEW t \in Slots, Lone(t), Command(t) \/ Step(t) PROVE ReviewInv'
  BY <1>3, CommandReviews, StartReviews, ScanReviews, ReviewReviews, PaymentReviews,
     LeavingReviews DEF Step, ReviewHolds
<1>4. ASSUME NEW t \in Slots, Lone(t), Command(t), Begins PROVE ReviewInv'
  BY <1>4, StartBegins, BeginReviews
<1> QED
  BY <1>1, <1>2, <1>3, <1>4, UntilOverlap

\* checkout_controller.dart, replaceDraftOrder: whatever fails, once a call has ended the
\* lines the customer reviews are the persisted draft of the open session, until calls have
\* overlapped and again from the next session start that meets no other call.
THEOREM CheckoutReviewIsPersisted == HistorySpec => []ReviewIsPersisted
<1>1. OpenInv /\ ReviewHolds => ReviewIsPersisted
  <2> SUFFICES ASSUME OpenInv, ReviewInv, Idle PROVE ReviewIsPersisted
    BY DEF ReviewIsPersisted, ReviewHolds
  <2>1. ~ctl.starting
    BY DEF OpenInv, Reserved, Idle, Role, Starting
  <2> QED
    BY <2>1 DEF ReviewInv, Reviewed, Reviewing, ReviewIsPersisted
<1>2. HistoryInit => ReviewHolds
  BY ReviewInit DEF HistoryInit, ReviewHolds
<1> QED
  BY <1>1, <1>2, ReviewAgreesStep, HistoryRefines, LoneInvariant, StoreTypeCorrect,
     CheckoutRefinesStore, MemoryInvariant, OpenInvariant, AnswerInvariant, PTL DEF HistorySpec


-----------------------------------------------------------------------------
(* The manual cart, while calls do not overlap.                             *)

CartsAgree ==
  ctl.active /\ ~ctl.starting /\ view.phase # "terminalFailure"
    => (ctl.manual <=> manualCart[ctl.session])

\* A session that is being begun is in nobody's manual cart, and the controller is
\* not in that mode when the scanner is started for it.
NewCart ==
  \A t \in Slots :
    /\ Role(task[t]) \in {"settings", "scanner"} => ~manualCart[ctl.session]
    /\ Role(task[t]) = "scanner" => ~ctl.manual

\* Where a start failed and could not be undone, only leaving is under way.
Stranded ==
  ctl.active /\ ~ctl.starting /\ view.phase = "terminalFailure" =>
    \A t \in Slots : task[t] # Nothing => task[t].pc \in {"admin", "close"}

ManualInv ==
  /\ CartsAgree
  /\ NewCart
  /\ ctl.closed => ~ctl.starting
  /\ Stranded

\* A step after which no start is at those awaits begins no cart.
LEMMA NoNewCart ==
  ASSUME NEW t \in Slots, Lone(t), Role(task'[t]) \notin {"settings", "scanner"}
  PROVE  NewCart'
<1>1. \A u \in Slots : u # t => Role(task'[u]) \notin {"settings", "scanner"}
  BY DEF Lone, Role
<1> QED
  BY <1>1 DEF NewCart

\* A step that opens and closes nothing keeps the modes together.
LEMMA ManualStays ==
  ASSUME ManualInv, Calm, ctl'.manual = ctl.manual, UNCHANGED manualCart,
         ctl.active /\ ~ctl.starting =>
           view.phase # "terminalFailure" /\ view'.phase # "terminalFailure"
  PROVE  ManualInv'
<1>1. CartsAgree'
  BY DEF ManualInv, CartsAgree, Calm, FlagsKept
<1>2. NewCart'
  BY DEF ManualInv, NewCart, Calm, FlagsKept, RolesKept
<1>3. Stranded' /\ (ctl'.closed => ~ctl'.starting)
  BY DEF ManualInv, Stranded, Calm, FlagsKept
<1> QED
  BY <1>1, <1>2, <1>3 DEF ManualInv

\* So does the end of a call that ends the session, or changes the screen only.
LEMMA ManualOver ==
  ASSUME ManualInv, NEW t \in Slots, Lone(t), task[t] # Nothing, task'[t] = Nothing,
         UNCHANGED manualCart,
         \/ /\ ~ctl'.active /\ ctl'.closed = ctl.closed /\ ctl'.starting = ctl.starting
         \/ UNCHANGED ctl /\ (UNCHANGED view \/ task[t].pc \notin {"admin", "close"})
  PROVE  ManualInv'
<1>1. NewCart' /\ Stranded'
  BY DEF Lone, NewCart, Stranded, Role
<1>2. CartsAgree' /\ (ctl'.closed => ~ctl'.starting)
  <2>1. CASE ~ctl'.active /\ ctl'.closed = ctl.closed /\ ctl'.starting = ctl.starting
    BY <2>1 DEF ManualInv, CartsAgree
  <2>2. CASE UNCHANGED ctl /\ UNCHANGED view
    BY <2>2 DEF ManualInv, CartsAgree
  <2>3. CASE UNCHANGED ctl /\ task[t].pc \notin {"admin", "close"}
    BY <2>3 DEF ManualInv, CartsAgree, Stranded
  <2> QED
    BY <2>1, <2>2, <2>3
<1> QED
  BY <1>1, <1>2 DEF ManualInv

\* While a session is being started the modes may differ; it only matters which
\* session is begun.
LEMMA ManualStarting ==
  ASSUME ctl'.starting, ~ctl'.closed, NewCart' PROVE ManualInv'
  BY DEF ManualInv, CartsAgree, Stranded

\* A new session starts outside the manual cart, in both records.
LEMMA StartManual ==
  ASSUME StoreTypeOK, Untouched, MemoryInv, OpenInv, AptInv, ManualInv,
         NEW t \in Slots, Lone(t), SessionStartStep(t)
  PROVE  ManualInv'
<1>1. /\ ctl \in ControllerType /\ task[t] # Nothing /\ task[t].pc \in Starting
      /\ ctl.active => ctl.session \in Sessions
  BY DEF MemoryInv, ControllerInv, SessionStartStep, RecoverAtStartup, AbandonOld,
     ResetCapture, ReadCatalog, BeginCheckout, ReadSettings, StartScanner,
     AbandonStartup, TerminalizeStart, At, Starting
<1>2. ASSUME NEW pc \in Starting, Goto(t, pc)
      PROVE  task'[t].pc = pc /\ task'[t].op = task[t].op /\ task'[t] # Nothing
  BY <1>1, <1>2, GoesOn DEF Starting, Awaits
<1>3. Return(t) => task'[t] = Nothing
  BY ComesBack
<1> USE DEF Set, ControllerType
<1>4. CASE task[t].op \in {"retake", "restart"}
  <2>1. task[t].pc = "reset"
    BY <1>1, <1>4 DEF Role, OpenInv, Reserved
  <2>2. ResetCapture(t)
    BY <2>1 DEF SessionStartStep, RecoverAtStartup, AbandonOld, ReadCatalog,
       BeginCheckout, ReadSettings, StartScanner, AbandonStartup, TerminalizeStart, At
  <2>3. Return(t) /\ UNCHANGED ctl /\ UNCHANGED manualCart
    BY <1>4, <2>2 DEF ResetCapture, Works, Breaks, storeVars
  <2> QED
    BY <1>1, <1>3, <2>1, <2>3, ManualOver
<1>5. CASE task[t].op \notin {"retake", "restart"}
  <2>1. ctl.starting /\ ~ctl.closed
    BY <1>1, <1>5 DEF Role, OpenInv, Reserved, ManualInv
  <2>2. ASSUME NEW pc \in Starting \ {"settings", "scanner"}, Goto(t, pc),
               ctl'.starting = ctl.starting, ctl'.closed = ctl.closed
        PROVE  ManualInv'
    <3>1. NewCart'
      BY <1>2, <2>2 DEF Lone, NewCart, Role, Starting
    <3> QED
      BY <2>1, <2>2, <3>1, ManualStarting
  <2>3. CASE RecoverAtStartup(t) \/ AbandonOld(t) \/ ResetCapture(t) \/ ReadCatalog(t)
    BY <1>1, <1>5, <2>2, <2>3 DEF RecoverAtStartup, AbandonOld, ResetCapture, ReadCatalog,
       Starting
  <2>4. CASE BeginCheckout(t)
    <3>1. CASE UNCHANGED ctl /\ Goto(t, "terminalize")
      BY <2>2, <3>1 DEF Starting
    <3>2. ASSUME NEW s \in Sessions, BeginSession(s), Goto(t, "settings"),
                 ctl' = [ctl EXCEPT !.session = s, !.active = TRUE]
          PROVE  ManualInv'
      <4>1. ~manualCart[s] /\ manualCart' = manualCart
        BY <3>2 DEF BeginSession, CanBeginSession, Untouched
      <4>2. /\ ctl'.session = s /\ ctl'.starting = ctl.starting
            /\ ctl'.closed = ctl.closed
        BY <1>1, <3>2
      <4>3. NewCart'
        BY <1>2, <3>2, <4>1, <4>2 DEF Lone, NewCart, Role, Starting
      <4> QED
        BY <2>1, <4>2, <4>3, ManualStarting
    <3> QED
      BY <2>4, <3>1, <3>2 DEF BeginCheckout
  <2>5. ASSUME Return(t), ~ctl'.closed, ~ctl'.starting,
               ctl'.active /\ view'.phase # "terminalFailure" =>
                 (ctl'.manual <=> manualCart'[ctl'.session])
        PROVE  ManualInv'
    BY <1>3, <2>5 DEF Lone, ManualInv, CartsAgree, NewCart, Stranded, Role
  <2>6. ASSUME NEW phase, NEW code, Show(Blank(phase, code)) PROVE view'.phase = phase
    BY <2>1, <2>6, BlankShows DEF Show
  <2>7. CASE ReadSettings(t)
    <3>1. task[t].pc = "settings" /\ ~manualCart[ctl.session]
      BY <1>1, <1>5, <2>7 DEF ReadSettings, At, Role, Starting, ManualInv, NewCart
    <3>2. CASE UNCHANGED ctl /\ Goto(t, "terminalize")
      BY <2>2, <3>2 DEF Starting
    <3>3. CASE ctl' = ForNewSession(t) /\ UNCHANGED storeVars
      <4>1. /\ ctl'.session = ctl.session /\ ctl'.closed = ctl.closed /\ ~ctl'.manual
            /\ ctl'.starting = (task[t].op = "initialize") /\ manualCart' = manualCart
        BY <3>3 DEF ForNewSession, FreshController, storeVars
      <4>2. CASE task[t].op = "initialize" /\ Goto(t, "scanner")
        <5>1. NewCart'
          BY <1>2, <3>1, <4>1, <4>2 DEF Lone, NewCart, Role, Starting
        <5> QED
          BY <2>1, <4>1, <4>2, <5>1, ManualStarting
      <4>3. CASE task[t].op # "initialize" /\ Opened(t)
        BY <2>1, <2>5, <3>1, <4>1, <4>3 DEF Opened
      <4> QED
        BY <2>7, <3>1, <4>2, <4>3, <3>2 DEF ReadSettings
    <3> QED
      BY <2>7, <3>2, <3>3 DEF ReadSettings, Works
  <2>8. CASE StartScanner(t)
    <3>1. ~manualCart[ctl.session] /\ ~ctl.manual
      BY <1>1, <1>5, <2>8 DEF StartScanner, At, Role, Starting, ManualInv, NewCart
    <3>2. CASE UNCHANGED ctl /\ Goto(t, "abandonStartup")
      BY <2>2, <3>2 DEF Starting
    <3>3. CASE Works /\ Opened(t) /\ Set("starting", FALSE)
      <4>1. /\ ctl'.session = ctl.session /\ ctl'.closed = ctl.closed
            /\ ctl'.manual = ctl.manual /\ ~ctl'.starting /\ manualCart' = manualCart
        BY <1>1, <3>3 DEF Works, storeVars
      <4> QED
        BY <2>1, <2>5, <3>1, <3>3, <4>1 DEF Opened
    <3> QED
      BY <2>8, <3>2, <3>3 DEF StartScanner
  <2>9. CASE AbandonStartup(t)
    <3>1. CASE UNCHANGED ctl /\ Goto(t, "terminalize")
      BY <2>2, <3>1 DEF Starting
    <3>2. CASE Return(t) /\ ctl' = [ctl EXCEPT !.active = FALSE, !.starting = FALSE]
      BY <1>1, <2>1, <2>5, <3>2
    <3> QED
      BY <2>9, <3>1, <3>2 DEF AbandonStartup
  <2>10. CASE TerminalizeStart(t)
    <3>1. view'.phase = "terminalFailure" /\ ~ctl'.starting /\ ctl'.closed = ctl.closed
      BY <1>1, <2>6, <2>10 DEF TerminalizeStart
    <3> QED
      BY <2>1, <2>5, <2>10, <3>1 DEF TerminalizeStart
  <2> QED
    BY <2>3, <2>4, <2>7, <2>8, <2>9, <2>10 DEF SessionStartStep
<1> QED
  BY <1>4, <1>5


\* A scan leaves the manual cart alone, and ends the session it fails for good.
LEMMA ScanManual ==
  ASSUME MemoryInv, AptInv, ManualInv, NEW t \in Slots, Lone(t), ScanStep(t)
  PROVE  ManualInv'
<1>1. /\ ctl \in ControllerType
      /\ task[t] # Nothing /\ task[t].pc \notin {"admin", "close"}
      /\ CallApt(task[t], ctl.closed, faults, attempt)
  BY DEF MemoryInv, ControllerInv, AptInv, CallsApt, ScanStep, Capture, RetainCapture, Stage,
     Infer, Analyzed, RetainReceipt, Complete, PresentDraft, PresentResult, CatchScan,
     AbandonTerminal, DropCancelled, AbandonCancelled, At
<1>2. UNCHANGED manualCart
  BY DEF ScanStep, Capture, RetainCapture, Stage, Infer, Analyzed, RetainReceipt, Complete,
     PresentDraft, PresentResult, CatchScan, AbandonTerminal, DropCancelled,
     AbandonCancelled, Works, Breaks, Throws, storeVars, StageAttempt, CompleteAttempt,
     ReplaceDraftOrder, AbandonSession
<1> USE DEF Set, ControllerType
<1>3. CASE AbandonTerminal(t) \/ AbandonCancelled(t)
  <2>1. task'[t] = Nothing
    BY <1>3, CancelledSound, ComesBack DEF AbandonTerminal, AbandonCancelled
  <2> QED
    BY <1>1, <1>2, <1>3, <2>1, ManualOver DEF AbandonTerminal, AbandonCancelled
<1>4. CASE ~AbandonTerminal(t) /\ ~AbandonCancelled(t)
  <2>1. Calm
    BY <1>4, ScanCalm
  <2>2. ctl'.manual = ctl.manual
    BY <1>1, <1>4 DEF ScanStep, Capture, RetainCapture, Stage, Infer, Analyzed,
       RetainReceipt, Complete, PresentDraft, PresentResult, CatchScan, DropCancelled
  <2>3. ASSUME ctl.active, ~ctl.starting
        PROVE  view.phase # "terminalFailure" /\ view'.phase # "terminalFailure"
    <3>1. view.phase # "terminalFailure"
      BY <1>1, <2>3 DEF ManualInv, Stranded
    <3>2. CASE PresentResult(t)
      <4>1. task[t].view.phase \in Reviewing
        BY <1>1, <3>2 DEF PresentResult, At, CallApt
      <4> QED
        BY <3>1, <3>2, <4>1 DEF PresentResult, Show, Reviewing
    <3>3. CASE CatchScan(t)
      BY <2>3, <3>1, <3>3, BlankShows DEF CatchScan, Show
    <3>4. CASE UNCHANGED view
      BY <3>1, <3>4
    <3> QED
      BY <1>4, <3>2, <3>3, <3>4 DEF ScanStep, Capture, RetainCapture, Stage, Infer, Analyzed,
         RetainReceipt, Complete, PresentDraft, DropCancelled
  <2> QED
    BY <1>2, <2>1, <2>2, <2>3, ManualStays
<1> QED
  BY <1>3, <1>4

\* The manual cart is entered in both records at once.
LEMMA ReviewManual ==
  ASSUME StoreTypeOK, MemoryInv, OpenInv, ManualInv, NEW t \in Slots, Lone(t), ReviewStep(t)
  PROVE  ManualInv'
<1>1. /\ ctl \in ControllerType /\ view \in ViewType
      /\ task[t] # Nothing /\ task[t].view \in ViewType
      /\ task[t].pc \notin {"admin", "close"}
  BY DEF ReviewStep, PublishMismatch, EnterManualMode, EmptyCart, RecordChoice,
     PublishChoice, PublishLines, At, MemoryInv, ControllerInv, RestType, CallsInv, CallType
<1>2. Calm
  BY ReviewCalm
<1>3. ctl.active /\ ~ctl.starting => view.phase # "terminalFailure"
  BY <1>1 DEF ManualInv, Stranded
<1> USE DEF Set, ControllerType
<1>4. ASSUME NEW v, v.phase # "terminalFailure", Show(v), ctl'.manual = ctl.manual,
             UNCHANGED manualCart
      PROVE  ManualInv'
  BY <1>2, <1>3, <1>4, ManualStays DEF Show
<1>5. ASSUME UNCHANGED view, ctl'.manual = ctl.manual, UNCHANGED manualCart
      PROVE  ManualInv'
  BY <1>2, <1>3, <1>5, ManualStays
<1>6. CASE EnterManualMode(t)
  <2>1. CASE EnterManualCartMode(task[t].s) /\ UNCHANGED view /\ ctl' = Emptied
    <3>1. task[t].s \in Sessions /\ Held(task[t].s) /\ sessionState[task[t].s] = "active"
      BY <1>1, <2>1 DEF EnterManualCartMode, CanEnterManualCart, IsActive, Held
    <3>2. task[t].s = ctl.session
      BY <3>1 DEF OpenInv, Known
    <3>3. manualCart'[ctl.session]
      BY <2>1, <3>1, <3>2 DEF EnterManualCartMode, StoreTypeOK
    <3>4. ctl'.manual /\ ctl'.session = ctl.session
      BY <1>1, <2>1 DEF Emptied
    <3>5. CartsAgree'
      BY <3>3, <3>4 DEF CartsAgree
    <3>6. NewCart'
      <4>1. Role(task[t]) = "other" /\ Role(task'[t]) = Role(task[t])
        BY <1>2, <1>6 DEF EnterManualMode, At, Role, Starting, Calm, RolesKept
      <4> QED
        BY <4>1, NoNewCart
    <3>7. Stranded' /\ (ctl'.closed => ~ctl'.starting)
      BY <1>2, <1>3, <2>1 DEF ManualInv, Stranded, Calm, FlagsKept
    <3> QED
      BY <3>5, <3>6, <3>7 DEF ManualInv
  <2>2. CASE Show(ManualCartFailure) /\ UNCHANGED ctl /\ UNCHANGED manualCart
    BY <1>4, <2>2, BlankShows DEF ManualCartFailure
  <2> QED
    BY <1>6, <2>1, <2>2 DEF EnterManualMode, Throws, storeVars
<1>7. CASE PublishMismatch(t) \/ EmptyCart(t) \/ RecordChoice(t)
  <2>1. UNCHANGED manualCart /\ ctl'.manual = ctl.manual
    BY <1>1, <1>7 DEF PublishMismatch, EmptyCart, RecordChoice, ReplaceDraftOrder,
       RecordResolution, Throws, storeVars
  <2>2. \/ UNCHANGED view
        \/ Show(Blank("retakeRequired", "count_mismatch"))
        \/ Show(Blank("orderReview", "none")) \/ Show(ManualCartFailure)
    BY <1>7 DEF PublishMismatch, EmptyCart, RecordChoice
  <2> QED
    BY <1>4, <1>5, <2>1, <2>2, BlankShows DEF ManualCartFailure
<1>8. CASE PublishChoice(t)
  <2>1. UNCHANGED <<ctl, manualCart>>
    BY <1>8 DEF PublishChoice, ReplaceDraftOrder, Throws, storeVars
  <2>2. ASSUME NEW phase \in {"orderReview", "customerReview"},
               Show([task[t].view EXCEPT !.code = "none", !.phase = phase])
        PROVE  ManualInv'
    <3>1. [task[t].view EXCEPT !.code = "none", !.phase = phase].phase = phase
      BY <1>1 DEF ViewType
    <3> QED
      BY <1>4, <2>1, <2>2, <3>1
  <2> QED
    BY <1>5, <1>8, <2>1, <2>2 DEF PublishChoice
<1>9. CASE PublishLines(t)
  <2> DEFINE v == [view EXCEPT !.phase = "orderReview", !.code = "none",
                               !.lines = task[t].view.lines]
  <2>1. UNCHANGED <<ctl, manualCart>>
    BY <1>9 DEF PublishLines, ReplaceDraftOrder, Throws, storeVars
  <2>2. v.phase = "orderReview"
    BY <1>1 DEF ViewType
  <2>3. Show(v) \/ UNCHANGED view
    BY <1>9 DEF PublishLines
  <2> HIDE DEF v
  <2> QED
    BY <1>4, <1>5, <2>1, <2>2, <2>3
<1> QED
  BY <1>6, <1>7, <1>8, <1>9 DEF ReviewStep

\* A payment leaves it alone, and ends the session it settles.
LEMMA PaymentManual ==
  ASSUME MemoryInv, ManualInv, NEW t \in Slots, Lone(t), PaymentStep(t)
  PROVE  ManualInv'
<1>1. /\ ctl \in ControllerType
      /\ task[t] # Nothing /\ task[t].pc \in {"prepare", "commit"}
  BY DEF PaymentStep, PreparePayment, CommitPayment, At, MemoryInv, ControllerInv
<1>2. UNCHANGED manualCart
  BY DEF PaymentStep, PreparePayment, CommitPayment, ReplaceDraftOrder, RecordResolution,
     CommitSimulatedPayment, Throws, storeVars
<1> USE DEF Set, ControllerType
<1>3. CASE PreparePayment(t)
  <2>1. CASE UNCHANGED view /\ (Accepts(t) \/ \E pc \in {"join", "commit"} : Goto(t, pc))
    <3>1. /\ ctl'.session = ctl.session /\ ctl'.manual = ctl.manual
          /\ ctl'.active = ctl.active /\ ctl'.starting = ctl.starting
          /\ ctl'.closed = ctl.closed
      BY <1>1, <1>3 DEF PreparePayment
    <3>2. /\ task'[t] # Nothing => task'[t].pc \in {"prepare", "join", "commit"}
          /\ Role(task'[t]) \notin {"settings", "scanner"}
      BY <1>1, <2>1, GoesOn, AcceptsNext DEF Awaits, Role, Starting
    <3>3. NewCart'
      BY <3>2, NoNewCart
    <3>4. CartsAgree' /\ (ctl'.closed => ~ctl'.starting)
      BY <1>2, <2>1, <3>1 DEF ManualInv, CartsAgree
    <3>5. Stranded'
      BY <1>1, <2>1, <3>1 DEF ManualInv, Stranded
    <3> QED
      BY <3>3, <3>4, <3>5 DEF ManualInv
  <2>2. CASE Return(t) /\ UNCHANGED ctl
    BY <1>1, <1>2, <2>2, ComesBack, ManualOver
  <2> QED
    BY <1>3, <2>1, <2>2, UpcomingTyped DEF PreparePayment, Accepts
<1>4. CASE CommitPayment(t)
  <2>1. task'[t] = Nothing
    BY <1>4 DEF CommitPayment, Settled
  <2>2. \/ UNCHANGED ctl
        \/ ~ctl'.active /\ ctl'.closed = ctl.closed /\ ctl'.starting = ctl.starting
    BY <1>1, <1>4 DEF CommitPayment, PaymentSucceeds
  <2> QED
    BY <1>1, <1>2, <2>1, <2>2, ManualOver
<1> QED
  BY <1>3, <1>4 DEF PaymentStep

\* Leaving ends the session or changes nothing.
LEMMA LeavingManual ==
  ASSUME MemoryInv, ManualInv, NEW t \in Slots, Lone(t),
         AbandonForAdmin(t) \/ AbandonClosed(t)
  PROVE  ManualInv'
<1>1. ctl \in ControllerType /\ task[t] # Nothing /\ task'[t] = Nothing
  BY CancelledSound, ComesBack DEF AbandonForAdmin, AbandonClosed, At, MemoryInv,
     ControllerInv, CallsInv
<1>2. UNCHANGED <<manualCart, view>>
  BY DEF AbandonForAdmin, AbandonClosed, AbandonSession, Works, Throws, storeVars
<1>3. \/ UNCHANGED ctl
      \/ ~ctl'.active /\ ctl'.closed = ctl.closed /\ ctl'.starting = ctl.starting
  BY <1>1 DEF AbandonForAdmin, AbandonClosed, Set, ControllerType
<1> QED
  BY <1>1, <1>2, <1>3, ManualOver

\* A session start leaves the manual cart alone until it begins its session.
LEMMA BeginManual ==
  ASSUME MemoryInv, NEW t \in Slots, Lone(t),
         Initialize(t) \/ \E op \in {"next", "fresh"} : StartSession(t, op)
  PROVE  ManualInv'
<1>1. ctl \in ControllerType /\ task \in [Slots -> CallType \cup {Nothing}]
  BY DEF MemoryInv, ControllerInv, CallsInv
<1>2. ctl'.starting /\ ~ctl'.closed
  BY <1>1 DEF Initialize, StartSession, Set, Open, ControllerType
<1>3. ASSUME NEW op \in Calls, NEW pc \in {"recover", "abandonOld", "reset"},
             Spawn(t, Call(op, pc))
      PROVE  Role(task'[t]) \notin {"settings", "scanner"}
  <2>1. pc \in Awaits
    BY DEF Awaits
  <2>2. Call(op, pc).pc = pc /\ task'[t] = Call(op, pc)
    BY <1>1, <1>3, <2>1, CallTyped DEF Spawn
  <2> QED
    BY <2>2 DEF Role
<1>4. Role(task'[t]) \notin {"settings", "scanner"}
  BY <1>3 DEF Initialize, StartSession, Calls
<1>5. NewCart'
  BY <1>4, NoNewCart
<1> QED
  BY <1>2, <1>5, ManualStarting

\* No button enters or forgets the manual cart, and none goes on where a failed start
\* could not be undone.
LEMMA CommandManual ==
  ASSUME MemoryInv, OpenInv, ManualInv, NEW t \in Slots, Lone(t), Command(t)
  PROVE  ManualInv'
<1>1. ctl \in ControllerType /\ view \in ViewType
  BY DEF MemoryInv, ControllerInv, RestType
<1>2. UNCHANGED manualCart
  BY DEF Command, Initialize, StartNextCustomer, StartFreshCustomerSession, StartSession,
     Scan, RetryScan, CancelScan, Retake, ReportCountMismatch, EnterManualCart,
     RetryManualCart, Choose, OverrideResolvedProduct, EditQuantity, Pay, RetryPayment,
     EnterAdmin, Close, storeVars
<1>3. ASSUME NEW op \in Calls, NEW pc \in Awaits, Spawn(t, Call(op, pc))
      PROVE  task[t] = Nothing /\ task'[t] # Nothing /\ task'[t].pc = pc
  <2>1. Call(op, pc) \in CallType /\ Call(op, pc).pc = pc
    BY <1>1, CallTyped
  <2>2. Spawn(t, Call(op, pc)) /\ Call(op, pc) # Nothing
    BY <1>3, <2>1, NothingIsNoCall
  <2>3. task[t] = Nothing /\ task'[t] = Call(op, pc)
    BY <2>2 DEF Spawn, MemoryInv, CallsInv
  <2> QED
    BY <2>1, <2>2, <2>3
<1> USE DEF Set, ControllerType
<1>5. CASE Initialize(t) \/ \E op \in {"next", "fresh"} : StartSession(t, op)
  BY <1>5, BeginManual
<1>7. CASE Close(t)
  <2>1. task[t] = Nothing /\ task'[t] # Nothing /\ task'[t].pc = "close"
    BY <1>3, <1>7 DEF Close, Calls, Awaits
  <2>2. ~ctl.starting
    BY <2>1 DEF Lone, OpenInv, Reserved, Role, Starting
  <2>3. /\ ctl'.starting = ctl.starting /\ ctl'.active = ctl.active
        /\ ctl'.manual = ctl.manual /\ ctl'.session = ctl.session /\ view' = view
    BY <1>1, <1>7 DEF Close
  <2>4. NewCart' /\ Stranded'
    BY <2>1 DEF Lone, NewCart, Stranded, Role
  <2>5. CartsAgree' /\ ~ctl'.starting
    BY <1>2, <2>2, <2>3 DEF ManualInv, CartsAgree
  <2> QED
    BY <2>4, <2>5 DEF ManualInv
<1>8. CASE EnterAdmin(t)
  <2>1. UNCHANGED <<view, ctl>>
    BY <1>8 DEF EnterAdmin
  <2>2. CASE UNCHANGED task
    BY <1>2, <2>1, <2>2 DEF ManualInv, CartsAgree, NewCart, Stranded
  <2>3. CASE Spawn(t, Call("admin", "admin"))
    <3>1. task'[t] # Nothing /\ task'[t].pc = "admin"
      BY <1>3, <2>3 DEF Calls, Awaits
    <3>2. NewCart' /\ Stranded'
      BY <3>1 DEF Lone, NewCart, Stranded, Role, Starting
    <3> QED
      BY <1>2, <2>1, <3>2 DEF ManualInv, CartsAgree
  <2> QED
    BY <1>8, <2>2, <2>3 DEF EnterAdmin
<1>9. CASE QuietCommand(t) /\ ~EnterAdmin(t)
  <2>1. Calm
    BY <1>9, CommandCalm
  <2>2. ctl'.manual = ctl.manual
    BY <1>1, <1>9 DEF QuietCommand, Scan, RetryScan, CancelScan, Retake,
       ReportCountMismatch, EnterManualCart, RetryManualCart, StartManualCart, Emptied,
       Choose, OverrideResolvedProduct, EditQuantity, Pay, RetryPayment
  <2>3. view.phase # "terminalFailure" /\ Open
    BY <1>9 DEF QuietCommand, Scan, RetryScan, CancelScan, Retake, ReportCountMismatch,
       EnterManualCart, RetryManualCart, Choose, OverrideResolvedProduct, EditQuantity, Pay,
       RetryPayment, Customer
  <2>4. ctl.active => view'.phase # "terminalFailure"
    <3>1. CASE Pay(t)
      <4>1. [view EXCEPT !.phase = "paying", !.code = "none"].phase = "paying"
        BY <1>1 DEF ViewType
      <4> QED
        BY <2>3, <3>1, <4>1 DEF Pay, Show
    <3>2. CASE RetryPayment(t)
      <4>1. ctl.frozen.review \in ViewType
        BY <1>1, <3>2 DEF RetryPayment
      <4> QED
        BY <2>3, <3>2, <4>1 DEF RetryPayment, Show, Open, ViewType
    <3>3. CASE Scan(t) \/ RetryScan(t) \/ CancelScan(t) \/ EnterManualCart(t)
      BY <2>3, <3>3, BlankShows DEF Scan, RetryScan, CancelScan, EnterManualCart,
         ManualCartFailure, Show
    <3>4. CASE UNCHANGED view
      BY <2>3, <3>4
    <3> QED
      BY <1>9, <3>1, <3>2, <3>3, <3>4 DEF QuietCommand, Retake, ReportCountMismatch,
         RetryManualCart, Choose, OverrideResolvedProduct, EditQuantity
  <2> QED
    BY <1>2, <2>1, <2>2, <2>3, <2>4, ManualStays
<1> QED
  BY <1>5, <1>7, <1>8, <1>9
     DEF Command, QuietCommand, StartNextCustomer, StartFreshCustomerSession

\* Both records agree on the mode until calls overlap.
ManualHolds == ~overlapped => ManualInv

\* A process starts with no session in use.
LEMMA ManualInit == CheckoutInit => ManualInv
  BY DEF CheckoutInit, ManualInv, CartsAgree, NewCart, Stranded, FreshController, Role

\* While calls do not overlap, every step keeps the two records of the mode together.
LEMMA ManualStep ==
  StoreTypeOK /\ Untouched /\ MemoryInv /\ OpenInv /\ AptInv /\ LoneInv /\ ManualHolds
  /\ [HistoryNext]_historyVars => ManualHolds'
<1> SUFFICES ASSUME StoreTypeOK, Untouched, MemoryInv, OpenInv, AptInv, LoneInv, ManualHolds,
                    [HistoryNext]_historyVars, ~overlapped'
             PROVE  ManualInv'
  BY DEF ManualHolds
<1>1. CASE Restart
  BY <1>1 DEF Restart, ManualInv, CartsAgree, NewCart, Stranded, FreshController, Role
<1>2. CASE ~overlapped /\ (UNCHANGED vars \/ LoseDevice)
  <2>1. UNCHANGED <<view, manualCart, ctl, task>>
    BY <1>2 DEF vars, checkoutVars, storeVars, LoseDevice, Breaks
  <2> QED
    BY <1>2, <2>1 DEF ManualHolds, ManualInv, CartsAgree, NewCart, Stranded
<1>3. ASSUME ~overlapped, NEW t \in Slots, Lone(t), Command(t) \/ Step(t) PROVE ManualInv'
  BY <1>3, CommandManual, StartManual, ScanManual, ReviewManual, PaymentManual,
     LeavingManual DEF Step, ManualHolds
<1>4. ASSUME NEW t \in Slots, Lone(t), Command(t), Begins PROVE ManualInv'
  BY <1>4, StartBegins, BeginManual
<1> QED
  BY <1>1, <1>2, <1>3, <1>4, UntilOverlap

\* checkout_controller.dart, enterManualCartMode: whatever fails, on every screen of a
\* running session the controller is in manual-cart mode exactly when the audit log says
\* so, until calls have overlapped and again from the next session start that meets none.
THEOREM CheckoutManualCartAgrees == HistorySpec => []ManualCartAgrees
<1>1. ManualHolds => ManualCartAgrees
  BY DEF ManualHolds, ManualInv, CartsAgree, ManualCartAgrees
<1>2. HistoryInit => ManualHolds
  BY ManualInit DEF HistoryInit, ManualHolds
<1> QED
  BY <1>1, <1>2, ManualStep, HistoryRefines, LoneInvariant, StoreTypeCorrect, StoreUntouched,
     CheckoutRefinesStore, MemoryInvariant, OpenInvariant, AnswerInvariant, PTL DEF HistorySpec


-----------------------------------------------------------------------------
(* Nobody waits for nothing: the part of StartAndCloseEnd and PaymentEnds     *)
(* that is an invariant.  A screen that is to be replaced has a call that     *)
(* will replace it, and that call waits for no other.                         *)

\* A session start, or a shutdown, that has not ended has a call that can go on:
\* one that starts the session, or a shutdown no start keeps waiting.
BusyIsServed ==
  Busy => \E t \in Slots :
            Role(task[t]) \in Starting \/ (At(t, "close") /\ ~ctl.starting)

\* The paying screen has a call that pays and has not joined another's commit.
PayingIsServed ==
  view.phase = "paying" /\ ~ctl.closed =>
    \E t \in Slots : At(t, "prepare") \/ At(t, "commit")

\* a payment, joined to another's commit or not, is behind the paying screen
PayingIsAwaited ==
  view.phase = "paying" /\ ~ctl.closed =>
    \E t \in Slots : task[t] # Nothing /\ task[t].pc \in Paying

\* what a step does that shows no payment: the screen stays or shows something else
Unpaying == view' = view \/ view'.phase # "paying"

\* Showing another phase shows no payment, a screen shown before included.
LEMMA ShowsUnpaying ==
  /\ \A v : v.phase # "paying" /\ Show(v) => Unpaying
  /\ \A v \in ViewType : \A phase, code, lines :
       /\ phase # "paying"
       /\ \/ Show([v EXCEPT !.phase = phase])
          \/ Show([v EXCEPT !.phase = phase, !.code = code])
          \/ Show([v EXCEPT !.code = code, !.phase = phase])
          \/ Show([v EXCEPT !.phase = phase, !.code = code, !.lines = lines])
       => Unpaying
<1>1. \A v : v.phase # "paying" /\ Show(v) => Unpaying
  BY DEF Show, Unpaying
<1>2. ASSUME NEW v \in ViewType, NEW phase, NEW code, NEW lines, phase # "paying",
             \/ Show([v EXCEPT !.phase = phase])
             \/ Show([v EXCEPT !.phase = phase, !.code = code])
             \/ Show([v EXCEPT !.code = code, !.phase = phase])
             \/ Show([v EXCEPT !.phase = phase, !.code = code, !.lines = lines])
      PROVE  Unpaying
  BY <1>2 DEF Show, Unpaying, ViewType
<1> QED
  BY <1>1, <1>2

\* Only pressing pay, or pay again, shows the paying screen.
LEMMA OnlyPayPays ==
  ASSUME MemoryInv, AptInv, NEW t \in Slots, Command(t) \/ Step(t),
         ~Pay(t), ~RetryPayment(t)
  PROVE  Unpaying
<1>1. /\ ctl \in ControllerType /\ view \in ViewType
      /\ \A u \in Slots : task[u] # Nothing =>
           task[u].view \in ViewType /\ CallApt(task[u], ctl.closed, faults, attempt)
  BY DEF MemoryInv, ControllerInv, RestType, CallsInv, CallType, AptInv, CallsApt
<1>2. ASSUME NEW phase, NEW code, phase # "paying", Show(Blank(phase, code)) PROVE Unpaying
  BY <1>2, BlankShows, ShowsUnpaying
<1>3. UNCHANGED view => Unpaying
  BY DEF Unpaying
<1>4. CASE Command(t)
  BY <1>2, <1>3, <1>4 DEF Command, Initialize, StartNextCustomer,
     StartFreshCustomerSession, StartSession, Scan, RetryScan, CancelScan, Retake,
     ReportCountMismatch, EnterManualCart, ManualCartFailure, RetryManualCart, Choose,
     OverrideResolvedProduct, EditQuantity, EnterAdmin, Close
<1>5. CASE SessionStartStep(t)
  BY <1>2, <1>3, <1>5 DEF SessionStartStep, RecoverAtStartup, AbandonOld, ResetCapture,
     ReadCatalog, BeginCheckout, ReadSettings, StartScanner, AbandonStartup,
     TerminalizeStart, Opened
<1>6. CASE PresentResult(t)
  <2>1. task[t] # Nothing /\ task[t].view.phase \in Reviewing
    BY <1>1, <1>6 DEF PresentResult, At, CallApt
  <2> QED
    BY <1>3, <1>6, <2>1, ShowsUnpaying DEF PresentResult, Reviewing
<1>7. CASE ScanStep(t) /\ ~PresentResult(t)
  BY <1>2, <1>3, <1>7 DEF ScanStep, Capture, RetainCapture, Stage, Infer, Analyzed,
     RetainReceipt, Complete, PresentDraft, CatchScan, AbandonTerminal, DropCancelled,
     AbandonCancelled
<1>8. CASE PublishChoice(t)
  BY <1>1, <1>3, <1>8, ShowsUnpaying DEF PublishChoice, At
<1>9. CASE PublishLines(t)
  BY <1>1, <1>3, <1>9, ShowsUnpaying DEF PublishLines
<1>10. CASE ReviewStep(t) /\ ~PublishChoice(t) /\ ~PublishLines(t)
  BY <1>2, <1>3, <1>10 DEF ReviewStep, PublishMismatch, EnterManualMode, EmptyCart,
     RecordChoice, ManualCartFailure
<1>11. CASE PreparePayment(t)
  BY <1>1, <1>3, <1>11, ShowsUnpaying DEF PreparePayment, PaymentFails, At
<1>12. CASE CommitPayment(t)
  <2>1. PICK last \in LastCallers(t) : PaymentSucceeds(last) \/ PaymentFails(last)
    BY <1>12 DEF CommitPayment
  <2>2. task[last].view \in ViewType
    BY <1>1, <1>12, <2>1 DEF LastCallers, Joined, At, CommitPayment
  <2> QED
    BY <2>1, <2>2, ShowsUnpaying DEF PaymentSucceeds, PaymentFails
<1>13. CASE AbandonForAdmin(t) \/ AbandonClosed(t)
  BY <1>3, <1>13 DEF AbandonForAdmin, AbandonClosed
<1> QED
  BY <1>4, <1>5, <1>6, <1>7, <1>8, <1>9, <1>10, <1>11, <1>12, <1>13 DEF Step, PaymentStep

\* Every step leaves the paying screen its payment, or replaces the screen.
LEMMA AwaitedStep ==
  MemoryInv /\ AptInv /\ PayingIsAwaited /\ [Next]_vars => PayingIsAwaited'
<1> SUFFICES ASSUME MemoryInv, AptInv, PayingIsAwaited, [Next]_vars,
                    view'.phase = "paying", ~ctl'.closed
             PROVE  \E t \in Slots : task'[t] # Nothing /\ task'[t].pc \in Paying
  BY DEF PayingIsAwaited
<1>1. ctl \in ControllerType /\ view \in ViewType
  BY DEF MemoryInv, ControllerInv, RestType
<1>2. ~Restart
  BY BlankShows DEF Restart
<1>3. ~ctl.closed
  BY <1>2, FlagsAge
<1>4. CASE UNCHANGED vars \/ LoseDevice
  BY <1>4 DEF vars, checkoutVars, LoseDevice, PayingIsAwaited
<1>5. ASSUME NEW t \in Slots, NEW s \in Sessions, NEW v \in ViewType, Prepares(t, s, v)
      PROVE  task'[t] # Nothing /\ task'[t].pc \in Paying
  <2>1. PICK c \in CallType : Spawn(t, c) /\ c.pc = "prepare"
    BY <1>1, <1>5, PayStarts
  <2> QED
    BY <2>1, SetsOut DEF Paying
<1>6. ASSUME NEW t \in Slots, Pay(t) \/ RetryPayment(t)
      PROVE  task'[t] # Nothing /\ task'[t].pc \in Paying
  <2>1. CASE Pay(t)
    <3>1. ctl.session \in Sessions
      BY <2>1 DEF Pay, MemoryInv, ControllerInv
    <3> QED
      BY <1>1, <1>5, <2>1, <3>1 DEF Pay
  <2>2. CASE RetryPayment(t)
    <3>1. ctl.frozen.review \in ViewType /\ ctl.frozen.s \in Sessions
      BY <1>1, <2>2 DEF RetryPayment, ControllerType
    <3> QED
      BY <1>5, <2>2, <3>1 DEF RetryPayment
  <2> QED
    BY <1>6, <2>1, <2>2
<1>7. ASSUME NEW t \in Slots, Command(t) \/ Step(t), ~Pay(t), ~RetryPayment(t)
      PROVE  \E u \in Slots : task'[u] # Nothing /\ task'[u].pc \in Paying
  <2>1. view' = view
    BY <1>7, OnlyPayPays DEF Unpaying
  <2>2. PICK u \in Slots : task[u] # Nothing /\ task[u].pc \in Paying
    BY <1>3, <2>1 DEF PayingIsAwaited
  <2>3. CASE u # t /\ ~CommitPayment(t)
    <3>1. task'[u] = task[u] \/ task'[u] = Cancelled(task)[u]
      BY <1>7, <2>3, OthersStay
    <3> QED
      BY <2>2, <3>1, CancelledStays
  <2>4. CASE CommitPayment(t)
    <3>1. PICK last \in LastCallers(t) : PaymentSucceeds(last) \/ PaymentFails(last)
      BY <2>4 DEF CommitPayment
    <3>2. task[last].view \in ViewType
      BY <2>4, <3>1 DEF LastCallers, Joined, At, CommitPayment, MemoryInv, CallsInv, CallType
    <3>3. view'.phase # "paying"
      BY <1>3, <3>1, <3>2 DEF PaymentSucceeds, PaymentFails, Show, ViewType
    <3> QED
      BY <3>3
  <2>5. CASE u = t /\ ~CommitPayment(t)
    <3>1. CASE UNCHANGED task
      BY <2>2, <3>1
    <3>2. CASE PreparePayment(t)
      <4>0. CASE Accepts(t)
        BY <2>2, <2>5, <4>0, AcceptsNext
      <4>1. CASE PaymentFails(t)
        <5>1. task[t].view \in ViewType
          BY <2>2, <2>5 DEF MemoryInv, CallsInv, CallType
        <5>2. view'.phase # "paying"
          BY <1>3, <4>1, <5>1 DEF PaymentFails, Show, ViewType
        <5> QED
          BY <5>2
      <4>2. ASSUME NEW pc \in {"join", "commit"}, Goto(t, pc)
            PROVE  task'[t] # Nothing /\ task'[t].pc \in Paying
        BY <2>2, <2>5, <4>2, GoesOn DEF Awaits, Paying
      <4> QED
        BY <3>2, <4>0, <4>1, <4>2, UpcomingTyped DEF PreparePayment, Accepts
    <3>3. CASE ~PreparePayment(t) /\ ~UNCHANGED task
      <4>1. task[t] # Nothing /\ task[t].pc \in Paying
        BY <2>2, <2>5
      <4>2. ~Step(t)
        BY <2>5, <3>3, <4>1 DEF Step, PaymentStep, SessionStartStep, RecoverAtStartup,
           AbandonOld, ResetCapture, ReadCatalog, BeginCheckout, ReadSettings, StartScanner,
           AbandonStartup, TerminalizeStart, ScanStep, Capture, RetainCapture, Stage, Infer,
           Analyzed, RetainReceipt, Complete, PresentDraft, PresentResult, CatchScan,
           AbandonTerminal, DropCancelled, AbandonCancelled, ReviewStep, PublishMismatch,
           EnterManualMode, EmptyCart, RecordChoice, PublishChoice, PublishLines,
           AbandonForAdmin, AbandonClosed, At, Paying
      <4>3. ~Command(t)
        BY <1>7, <3>3, <4>1 DEF Command, Initialize, StartNextCustomer,
           StartFreshCustomerSession, StartSession, Scan, RetryScan, CancelScan, Retake,
           ReportCountMismatch, EnterManualCart, RetryManualCart, StartManualCart, Choose,
           OverrideResolvedProduct, EditQuantity, EnterAdmin, Close, Spawn
      <4> QED
        BY <1>7, <4>2, <4>3
    <3> QED
      BY <3>1, <3>2, <3>3
  <2> QED
    BY <2>3, <2>4, <2>5
<1> QED
  BY <1>2, <1>4, <1>6, <1>7 DEF Next

\* Behind the paying screen, however payments, retries and edits overlap, there is
\* always a payment that waits for no other: one not committed yet, or the one whose
\* commit the others have joined.
THEOREM PayingServed == Spec => []PayingIsServed
<1>1. CheckoutInit => PayingIsAwaited
  BY BlankShows DEF CheckoutInit, PayingIsAwaited
<1>2. PayingIsAwaited /\ JoinInv => PayingIsServed
  BY DEF PayingIsAwaited, JoinInv, PayingIsServed, CommitInFlight, Paying, At
<1> QED
  BY <1>1, <1>2, AwaitedStep, JoinInit, JoinStep, StoreTypeCorrect, CheckoutRefinesStore,
     MemoryInvariant, OpenInvariant, AnswerInvariant, PTL DEF Spec

\* A session start or a shutdown under way always has a call that can go on; so a
\* shutdown waits for a start that ends, and never the other way round.
THEOREM BusyServed == Spec => []BusyIsServed
<1>1. OpenInv => BusyIsServed
  BY DEF OpenInv, Reserved, BusyIsServed, Busy
<1> QED
  BY <1>1, OpenInvariant, PTL

=============================================================================
