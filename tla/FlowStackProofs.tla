--------------------------- MODULE FlowStackProofs ---------------------------
(***************************************************************************)
(* Proofs about FlowStack, for every topology, data and bound that the     *)
(* assumptions of that module admit, and for every set of faults.          *)
(***************************************************************************)
EXTENDS FlowStack, SequenceTheorems, TLAPS

(***************************************************************************)
(* What every store value satisfies: it passes validate_frames, its stack  *)
(* is no deeper than the rank of its heads, and its queues are within what *)
(* the sources offered.                                                    *)
(***************************************************************************)
Counted(s) ==
  \A src \in Source : s.consumed[src] <= s.captured[src]
                      /\ s.captured[src] <= Len(Script[src])

Good(s) ==
  /\ StoreOK(s) /\ ValidFrames(s) /\ Counted(s)
  /\ \A d \in DOMAIN s.controls : Rank[s.controls[d].head] > d

\* Frame f may stand at depth d of s, above the frames that s has below d.
CalledAt(s, d, f) ==
  IF d = 0
  THEN f.port = NoPort /\ f.head \in Source /\ Published(s, f.head)
  ELSE LET p == s.controls[d - 1] IN
       /\ f.head \notin Source
       /\ f.port \in 1..Ports[f.head]
       /\ p.phase = "send"
       /\ p.next \in DOMAIN Consumers[p.head]
       /\ Consumers[p.head][p.next] = [operation |-> f.head, port |-> f.port]

Base(s, d, f) ==
  /\ StoreOK(s) /\ Counted(s)
  /\ d \in Nat /\ f \in Frame /\ Rank[f.head] > d
  /\ DOMAIN s.controls \cup {d} = 0..d
  /\ DOMAIN s.outputs \subseteq 0..d
  /\ \A e \in 0..(d - 1) :
       /\ Rank[s.controls[e].head] > e
       /\ ValidInput(s, e) /\ ValidPhase(s, e)
  /\ CalledAt(s, d, f)

Later(s, t) ==
  /\ \A src \in Source : s.captured[src] <= t.captured[src]
  /\ \A k \in Sink : /\ Prefix(s.log[k], t.log[k])
                     /\ s.control[k] # "fresh" => t.control[k] # "fresh"

-----------------------------------------------------------------------------
(* Facts about a frame that may run.                                       *)

LEMMA RankType == \A h \in Heads : Rank[h] \in 1..MaxDepth /\ MaxDepth \in Nat
  BY TopologyAssumption

LEMMA SourceType == Source \subseteq Heads
  BY TopologyAssumption DEF Source

\* The input of a frame that may run is a Change, at one of its ports.
LEMMA InputOK ==
  ASSUME NEW s, NEW d, NEW f, Base(s, d, f)
  PROVE  /\ Input(s, d, f) \in Change
         /\ f.port \in InputPorts(f.head)
         /\ f.head \in Heads
         /\ Items(f.head, f.port, Input(s, d, f)) \in Nat \ {0}
<1>1. f.head \in Heads /\ d \in Nat
  BY DEF Base, Frame
<1>2. CASE d = 0
  <2>1. f.head \in Source /\ f.port = NoPort /\ Published(s, f.head)
    BY <1>2 DEF Base, CalledAt
  <2>2. s.consumed[f.head] \in Nat /\ s.captured[f.head] \in Nat
    BY <2>1 DEF Base, StoreOK
  <2>3. s.consumed[f.head] + 1 \in 1..Len(Script[f.head])
    BY <2>1, <2>2, DataAssumption DEF Base, Counted, Published
  <2>4. Script[f.head] \in Seq(Change)
    BY <2>1, DataAssumption
  <2>5. Input(s, d, f) \in Change
    BY <1>2, <2>3, <2>4 DEF Input, FirstPublished
  <2> QED
    BY <1>1, <2>1, <2>5, DataAssumption DEF InputPorts
<1>3. CASE d # 0
  <2>1. d - 1 \in 0..(d - 1)
    BY <1>1, <1>3
  <2>2. f.head \notin Source /\ f.port \in 1..Ports[f.head]
        /\ s.controls[d - 1].phase = "send"
    BY <1>3 DEF Base, CalledAt
  <2>3. d - 1 \in DOMAIN s.outputs
    BY <2>1, <2>2 DEF Base, ValidPhase
  <2>4. Input(s, d, f) \in Change
    BY <1>3, <2>3 DEF Base, StoreOK, Input
  <2> QED
    BY <1>1, <2>2, <2>4, DataAssumption DEF InputPorts
<1> QED
  BY <1>2, <1>3

-----------------------------------------------------------------------------
(* The transactions of the stack preserve Good.                            *)

\* Every frame below a running one is sending, and retains its page.
LEMMA SendingBelow ==
  ASSUME NEW s, NEW d, NEW f, Base(s, d, f), NEW e \in 0..(d - 1)
  PROVE  /\ e \in DOMAIN s.controls /\ s.controls[e] \in Frame
         /\ s.controls[e].phase = "send"
         /\ e \in DOMAIN s.outputs
<1>1. d \in Nat /\ e \in DOMAIN s.controls /\ s.controls[e] \in Frame
  BY DEF Base, StoreOK
<1>2. ValidPhase(s, e)
  BY DEF Base
<1>3. s.controls[e].phase = "send"
  <2>1. CASE e = d - 1
    BY <1>1, <2>1 DEF Base, CalledAt
  <2>2. CASE e # d - 1
    <3>1. e + 1 \in DOMAIN s.controls
      BY <1>1, <2>2 DEF Base
    <3> QED
      BY <1>2, <3>1 DEF ValidPhase
  <2> QED
    BY <2>1, <2>2
<1> QED
  BY <1>1, <1>2, <1>3 DEF ValidPhase

\* A store that agrees with s below depth d has valid frames below d.
LEMMA SameBelow ==
  ASSUME NEW s, NEW d, NEW f, Base(s, d, f), NEW t,
         d = 0 \/ (t.consumed = s.consumed /\ t.captured = s.captured),
         \A e \in 0..(d - 1) : /\ e \in DOMAIN t.controls
                               /\ t.controls[e] = s.controls[e]
                               /\ e \in DOMAIN t.outputs
                               /\ t.outputs[e] = s.outputs[e],
         NEW e \in 0..(d - 1)
  PROVE  /\ t.controls[e].head \in Heads /\ Rank[t.controls[e].head] > e
         /\ ValidInput(t, e) /\ ValidPhase(t, e)
<1>1. d \in Nat /\ d # 0 /\ t.consumed = s.consumed /\ t.captured = s.captured
  BY DEF Base
<1>2. s.controls[e] \in Frame /\ s.controls[e].phase = "send"
  BY SendingBelow
<1>3. ValidInput(s, e) /\ ValidPhase(s, e) /\ Rank[s.controls[e].head] > e
  BY DEF Base
<1>4. e # 0 => e - 1 \in 0..(d - 1)
  BY <1>1
<1>5. ValidInput(t, e)
  BY <1>1, <1>3, <1>4 DEF ValidInput, Published
<1>6. Input(t, e, t.controls[e]) = Input(s, e, s.controls[e])
  BY <1>1, <1>4 DEF Input, FirstPublished
<1>7. ValidPhase(t, e)
  BY <1>2, <1>3, <1>6 DEF ValidPhase, ValidResume
<1> QED
  BY <1>2, <1>3, <1>5, <1>7 DEF Frame

\* The parts of a store value put together.
LEMMA StoreParts ==
  ASSUME NEW t,
         t = [controls |-> t.controls, outputs |-> t.outputs,
              captured |-> t.captured, consumed |-> t.consumed, log |-> t.log,
              control |-> t.control, settled |-> t.settled],
         DOMAIN t.controls \subseteq 0..(MaxDepth - 1),
         t.controls \in [DOMAIN t.controls -> Frame],
         t.outputs \in [DOMAIN t.outputs -> Change],
         t.captured \in [Source -> Nat], t.consumed \in [Source -> Nat],
         t.log \in [Sink -> Seq(Row)],
         t.control \in [Sink -> {"fresh", "initialize", "ready"}],
         t.settled \in [Sink -> Nat]
  PROVE  StoreOK(t)
<1>1. t \in [controls : {t.controls}, outputs : {t.outputs},
             captured : [Source -> Nat], consumed : [Source -> Nat],
             log      : [Sink -> Seq(Row)],
             control  : [Sink -> {"fresh", "initialize", "ready"}],
             settled  : [Sink -> Nat]]
  OBVIOUS
<1> QED
  BY <1>1 DEF StoreOK

\* Removing the frame at d, and consuming the root's input when d is 0.
LEMMA PopGood ==
  ASSUME NEW s, NEW d, NEW f, Base(s, d, f),
         NEW t, t = Pop(s, d, f)
  PROVE  Good(t)
<1>1. StoreOK(s) /\ Counted(s) /\ d \in Nat /\ f.head \in Heads
      /\ d < MaxDepth /\ MaxDepth \in Nat
  BY RankType DEF Base, Frame
<1>2. /\ t.controls = Delete(s.controls, d) /\ t.outputs = Delete(s.outputs, d)
      /\ t.consumed = (IF d = 0 THEN Consume(s, f.head) ELSE s.consumed)
      /\ t.captured = s.captured /\ t.log = s.log
      /\ t.control = s.control /\ t.settled = s.settled
      /\ t = [controls |-> t.controls, outputs |-> t.outputs,
              captured |-> t.captured, consumed |-> t.consumed, log |-> t.log,
              control |-> t.control, settled |-> t.settled]
  <2> DEFINE c == IF d = 0 THEN Consume(s, f.head) ELSE s.consumed
             a == Delete(s.controls, d)
             b == Delete(s.outputs, d)
  <2>1. t = [s EXCEPT !.controls = a, !.outputs = b, !.consumed = c]
    BY DEF Pop
  <2> HIDE DEF a, b, c
  <2>2. /\ t.controls = a /\ t.outputs = b /\ t.consumed = c
        /\ t.captured = s.captured /\ t.log = s.log
        /\ t.control = s.control /\ t.settled = s.settled
        /\ t = [controls |-> t.controls, outputs |-> t.outputs,
                captured |-> t.captured, consumed |-> t.consumed,
                log |-> t.log, control |-> t.control, settled |-> t.settled]
    BY <1>1, <2>1 DEF StoreOK
  <2> QED
    BY <2>2 DEF a, b, c
<1>3. DOMAIN t.controls = 0..(d - 1) /\ DOMAIN t.outputs \subseteq 0..(d - 1)
  BY <1>1, <1>2 DEF Base, Delete
<1>4. \A e \in 0..(d - 1) : /\ e \in DOMAIN t.controls
                            /\ t.controls[e] = s.controls[e]
                            /\ e \in DOMAIN t.outputs
                            /\ t.outputs[e] = s.outputs[e]
  BY <1>1, <1>2, SendingBelow DEF Delete
<1>5. StoreOK(t)
  <2>1. t.consumed \in [Source -> Nat]
    <3>1. s.consumed \in [Source -> Nat]
      BY <1>1 DEF StoreOK
    <3>2. d = 0 => f.head \in Source
      BY DEF Base, CalledAt
    <3> QED
      BY <1>2, <3>1, <3>2 DEF Consume
  <2>2. DOMAIN t.controls \subseteq 0..(MaxDepth - 1)
    BY <1>1, <1>3
  <2>3. t.controls \in [DOMAIN t.controls -> Frame]
    BY <1>1, <1>2 DEF StoreOK, Delete
  <2>4. t.outputs \in [DOMAIN t.outputs -> Change]
    BY <1>1, <1>2 DEF StoreOK, Delete
  <2>5. /\ t.captured \in [Source -> Nat] /\ t.log \in [Sink -> Seq(Row)]
        /\ t.control \in [Sink -> {"fresh", "initialize", "ready"}]
        /\ t.settled \in [Sink -> Nat]
    BY <1>1, <1>2 DEF StoreOK
  <2> QED
    BY <1>2, <2>1, <2>2, <2>3, <2>4, <2>5, StoreParts
<1>6. Counted(t)
  <2>1. CASE d = 0
    <3>1. f.head \in Source /\ s.consumed[f.head] < s.captured[f.head]
      BY <2>1 DEF Base, CalledAt, Published
    <3> QED
      BY <1>1, <1>2, <2>1, <3>1 DEF Counted, StoreOK, Consume
  <2>2. CASE d # 0
    BY <1>1, <1>2, <2>2 DEF Counted
  <2> QED
    BY <2>1, <2>2
<1>7. \A e \in 0..(d - 1) :
        /\ t.controls[e].head \in Heads /\ Rank[t.controls[e].head] > e
        /\ ValidInput(t, e) /\ ValidPhase(t, e)
  BY <1>2, <1>4, SameBelow
<1>8. ValidFrames(t)
  <2>1. d \in 0..MaxDepth
    BY <1>1
  <2>2. DOMAIN t.outputs \subseteq DOMAIN t.controls
    BY <1>3
  <2> QED
    BY <1>3, <1>7, <2>1, <2>2 DEF ValidFrames
<1> QED
  BY <1>3, <1>5, <1>6, <1>7, <1>8 DEF Good

\* A store that agrees with s below depth d and has a valid frame at d.
LEMMA TopGood ==
  ASSUME NEW s, NEW d, NEW f, Base(s, d, f), NEW t,
         StoreOK(t), t.consumed = s.consumed, t.captured = s.captured,
         \A e \in 0..(d - 1) : /\ t.controls[e] = s.controls[e]
                               /\ e \in DOMAIN t.outputs
                               /\ t.outputs[e] = s.outputs[e],
         DOMAIN t.controls = 0..d, DOMAIN t.outputs \subseteq 0..d,
         t.controls[d].head = f.head, t.controls[d].port = f.port,
         ValidPhase(t, d)
  PROVE  Good(t)
<1>1. d \in Nat /\ f.head \in Heads /\ d < MaxDepth /\ MaxDepth \in Nat
  BY RankType DEF Base, Frame
<1>2. Counted(t)
  BY DEF Base, Counted
<1>3. \A e \in 0..(d - 1) :
        /\ t.controls[e].head \in Heads /\ Rank[t.controls[e].head] > e
        /\ ValidInput(t, e) /\ ValidPhase(t, e)
  BY <1>1, SameBelow
<1>4. ValidInput(t, d)
  <2>1. CalledAt(s, d, f)
    BY DEF Base
  <2>2. d # 0 => d - 1 \in 0..(d - 1)
    BY <1>1
  <2> QED
    BY <2>1, <2>2 DEF ValidInput, CalledAt, Published
<1>5. \A e \in 0..d :
        /\ t.controls[e].head \in Heads /\ Rank[t.controls[e].head] > e
        /\ ValidInput(t, e) /\ ValidPhase(t, e)
  <2>1. Rank[f.head] > d
    BY DEF Base
  <2> QED
    BY <1>1, <1>3, <1>4, <2>1
<1>6. ValidFrames(t)
  <2>1. d + 1 \in 0..MaxDepth /\ DOMAIN t.controls = 0..((d + 1) - 1)
    BY <1>1
  <2> QED
    BY <1>5, <2>1 DEF ValidFrames
<1> QED
  BY <1>2, <1>5, <1>6 DEF Good

\* A page is done and its head goes on: finish_frame with Progress::More.
LEMMA AgainGood ==
  ASSUME NEW s, NEW d, NEW f, Base(s, d, f), ValidResume(s, d, f),
         NEW t, t = Again(s, d, f)
  PROVE  Good(t)
<1> DEFINE g == Run(f.head, f.port, f.resume)
           a == Put(s.controls, d, g)
           b == Delete(s.outputs, d)
<1>1. StoreOK(s) /\ d \in Nat /\ f \in Frame /\ d < MaxDepth /\ MaxDepth \in Nat
  BY RankType DEF Base, Frame
<1>2. t = [s EXCEPT !.outputs = b, !.controls = a]
  BY DEF Again
<1> HIDE DEF a, b, g
<1>3. /\ t.controls = a /\ t.outputs = b /\ t.consumed = s.consumed
      /\ t.captured = s.captured /\ t.log = s.log
      /\ t.control = s.control /\ t.settled = s.settled
      /\ t = [controls |-> t.controls, outputs |-> t.outputs,
              captured |-> t.captured, consumed |-> t.consumed,
              log |-> t.log, control |-> t.control, settled |-> t.settled]
  BY <1>1, <1>2 DEF StoreOK
<1>4. g \in Frame /\ g.head = f.head /\ g.port = f.port
      /\ g.phase = "run" /\ g.resume = f.resume
  BY <1>1 DEF g, Run, Frame
<1>5. /\ DOMAIN t.controls = 0..d /\ t.controls[d] = g
      /\ DOMAIN t.outputs \subseteq 0..(d - 1)
  BY <1>1, <1>3 DEF a, b, Put, Delete, Base
<1>6. \A e \in 0..(d - 1) : /\ t.controls[e] = s.controls[e]
                            /\ e \in DOMAIN t.outputs
                            /\ t.outputs[e] = s.outputs[e]
  BY <1>1, <1>3, SendingBelow DEF a, b, Put, Delete
<1>7. StoreOK(t)
  <2>1. DOMAIN t.controls \subseteq 0..(MaxDepth - 1)
    BY <1>1, <1>5
  <2>2. t.controls \in [DOMAIN t.controls -> Frame]
    BY <1>1, <1>3, <1>4 DEF StoreOK, Put, a
  <2>3. t.outputs \in [DOMAIN t.outputs -> Change]
    BY <1>1, <1>3 DEF StoreOK, Delete, b
  <2>4. /\ t.captured \in [Source -> Nat] /\ t.log \in [Sink -> Seq(Row)]
        /\ t.control \in [Sink -> {"fresh", "initialize", "ready"}]
        /\ t.settled \in [Sink -> Nat] /\ t.consumed \in [Source -> Nat]
    BY <1>1, <1>3 DEF StoreOK
  <2> QED
    BY <1>3, <2>1, <2>2, <2>3, <2>4, StoreParts
<1>8. Input(t, d, t.controls[d]) = Input(s, d, f)
  <2>1. d # 0 => d - 1 \in 0..(d - 1)
    BY <1>1
  <2> QED
    BY <1>3, <1>4, <1>5, <1>6, <2>1 DEF Input, FirstPublished
<1>9. ValidPhase(t, d)
  <2>1. d \notin DOMAIN t.outputs /\ d + 1 \notin DOMAIN t.controls
    BY <1>1, <1>5
  <2>2. ValidResume(t, d, t.controls[d])
    BY <1>4, <1>5, <1>8 DEF ValidResume
  <2> QED
    BY <1>4, <1>5, <2>1, <2>2 DEF ValidPhase
<1>10. DOMAIN t.controls = 0..d /\ DOMAIN t.outputs \subseteq 0..d
  BY <1>1, <1>5
<1>11. t.controls[d].head = f.head /\ t.controls[d].port = f.port
  BY <1>4, <1>5
<1>12. t.consumed = s.consumed /\ t.captured = s.captured
  BY <1>3
<1> QED
  BY <1>6, <1>7, <1>9, <1>10, <1>11, <1>12, TopGood

\* finish_frame.
LEMMA FinishGood ==
  ASSUME NEW s, NEW d, NEW f, Base(s, d, f),
         f.done \/ ValidResume(s, d, f)
  PROVE  Good(FinishFrame(s, d, f))
<1>1. CASE f.done
  BY <1>1, PopGood DEF FinishFrame
<1>2. CASE ~f.done
  BY <1>2, AgainGood DEF FinishFrame
<1> QED
  BY <1>1, <1>2

\* A page waits at depth d for the consumer after the first `next' ones.
LEMMA WaitGood ==
  ASSUME NEW s, NEW d, NEW f, Base(s, d, f), f.done \/ ValidResume(s, d, f),
         NEW page \in Change, NEW next \in 0..Len(Consumers[f.head]),
         NEW t, t = Wait(s, d, f, page, next)
  PROVE  /\ Good(t)
         /\ DOMAIN t.controls = 0..d /\ d \in DOMAIN t.outputs
         /\ t.controls[d] = Send(f, next, f.resume, f.done)
         /\ t.captured = s.captured /\ t.control = s.control
         /\ t.settled = s.settled /\ t.log = s.log
<1> DEFINE g == Send(f, next, f.resume, f.done)
           a == Put(s.controls, d, g)
           b == Put(s.outputs, d, page)
<1>1. StoreOK(s) /\ d \in Nat /\ f \in Frame /\ d < MaxDepth /\ MaxDepth \in Nat
  BY RankType DEF Base, Frame
<1>2. t = [s EXCEPT !.outputs = b, !.controls = a]
  BY DEF Wait
<1> HIDE DEF a, b, g
<1>3. /\ t.controls = a /\ t.outputs = b /\ t.consumed = s.consumed
      /\ t.captured = s.captured /\ t.log = s.log
      /\ t.control = s.control /\ t.settled = s.settled
      /\ t = [controls |-> t.controls, outputs |-> t.outputs,
              captured |-> t.captured, consumed |-> t.consumed,
              log |-> t.log, control |-> t.control, settled |-> t.settled]
  BY <1>1, <1>2 DEF StoreOK
<1>4. /\ g \in Frame /\ g.head = f.head /\ g.port = f.port
      /\ g.phase = "send" /\ g.resume = f.resume /\ g.next = next
      /\ g.done = f.done
  <2>1. next \in Nat
    OBVIOUS
  <2> QED
    BY <1>1, <2>1 DEF g, Send, Frame
<1>5. /\ DOMAIN t.controls = 0..d /\ t.controls[d] = g
      /\ DOMAIN t.outputs \subseteq 0..d /\ d \in DOMAIN t.outputs
  BY <1>1, <1>3 DEF a, b, Put, Base
<1>6. \A e \in 0..(d - 1) : /\ t.controls[e] = s.controls[e]
                            /\ e \in DOMAIN t.outputs
                            /\ t.outputs[e] = s.outputs[e]
  BY <1>1, <1>3, SendingBelow DEF a, b, Put
<1>7. StoreOK(t)
  <2>1. DOMAIN t.controls \subseteq 0..(MaxDepth - 1)
    BY <1>1, <1>5
  <2>2. t.controls \in [DOMAIN t.controls -> Frame]
    BY <1>1, <1>3, <1>4 DEF StoreOK, Put, a
  <2>3. t.outputs \in [DOMAIN t.outputs -> Change]
    BY <1>1, <1>3 DEF StoreOK, Put, b
  <2>4. /\ t.captured \in [Source -> Nat] /\ t.log \in [Sink -> Seq(Row)]
        /\ t.control \in [Sink -> {"fresh", "initialize", "ready"}]
        /\ t.settled \in [Sink -> Nat] /\ t.consumed \in [Source -> Nat]
    BY <1>1, <1>3 DEF StoreOK
  <2> QED
    BY <1>3, <2>1, <2>2, <2>3, <2>4, StoreParts
<1>8. Input(t, d, t.controls[d]) = Input(s, d, f)
  <2>1. d # 0 => d - 1 \in 0..(d - 1)
    BY <1>1
  <2> QED
    BY <1>3, <1>4, <1>5, <1>6, <2>1 DEF Input, FirstPublished
<1>9. ValidPhase(t, d)
  <2>1. f.done \/ ValidResume(t, d, t.controls[d])
    BY <1>4, <1>5, <1>8 DEF ValidResume
  <2>2. next <= Len(Consumers[f.head])
    BY <1>1, TopologyAssumption DEF Frame
  <2> QED
    BY <1>4, <1>5, <2>1, <2>2 DEF ValidPhase
<1>10. Good(t)
  BY <1>3, <1>4, <1>5, <1>6, <1>7, <1>9, TopGood
<1> QED
  BY <1>3, <1>5, <1>10 DEF g

\* A new frame on top, at its initial position: a call, or a pinned root.
LEMMA StartGood ==
  ASSUME NEW s, NEW d, NEW f, Base(s, d, f), f.resume = 0,
         d \notin DOMAIN s.outputs,
         NEW t, t = Start(s, d, f.head, f.port)
  PROVE  /\ Good(t)
         /\ DOMAIN t.controls = 0..d
         /\ t.captured = s.captured /\ t.control = s.control
         /\ t.settled = s.settled /\ t.log = s.log
<1> DEFINE g == Run(f.head, f.port, 0)
           a == Put(s.controls, d, g)
<1>1. StoreOK(s) /\ d \in Nat /\ f \in Frame /\ d < MaxDepth /\ MaxDepth \in Nat
  BY RankType DEF Base, Frame
<1>2. t = [s EXCEPT !.controls = a]
  BY DEF Start
<1> HIDE DEF a, g
<1>3. /\ t.controls = a /\ t.outputs = s.outputs /\ t.consumed = s.consumed
      /\ t.captured = s.captured /\ t.log = s.log
      /\ t.control = s.control /\ t.settled = s.settled
      /\ t = [controls |-> t.controls, outputs |-> t.outputs,
              captured |-> t.captured, consumed |-> t.consumed,
              log |-> t.log, control |-> t.control, settled |-> t.settled]
  BY <1>1, <1>2 DEF StoreOK
<1>4. g \in Frame /\ g.head = f.head /\ g.port = f.port
      /\ g.phase = "run" /\ g.resume = 0
  BY <1>1 DEF g, Run, Frame
<1>5. /\ DOMAIN t.controls = 0..d /\ t.controls[d] = g
      /\ DOMAIN t.outputs \subseteq 0..d /\ d \notin DOMAIN t.outputs
  BY <1>1, <1>3 DEF a, Put, Base
<1>6. \A e \in 0..(d - 1) : /\ t.controls[e] = s.controls[e]
                            /\ e \in DOMAIN t.outputs
                            /\ t.outputs[e] = s.outputs[e]
  <2> SUFFICES ASSUME NEW e \in 0..(d - 1)
               PROVE  t.controls[e] = s.controls[e] /\ e \in DOMAIN s.outputs
    BY <1>3
  <2>1. e \in DOMAIN s.controls /\ e \in DOMAIN s.outputs /\ e # d
    BY <1>1, SendingBelow
  <2> QED
    BY <1>3, <2>1 DEF a, Put
<1>7. StoreOK(t)
  <2>1. DOMAIN t.controls \subseteq 0..(MaxDepth - 1)
    BY <1>1, <1>5
  <2>2. t.controls \in [DOMAIN t.controls -> Frame]
    BY <1>1, <1>3, <1>4 DEF StoreOK, Put, a
  <2>3. t.outputs \in [DOMAIN t.outputs -> Change]
    BY <1>1, <1>3 DEF StoreOK
  <2>4. /\ t.captured \in [Source -> Nat] /\ t.log \in [Sink -> Seq(Row)]
        /\ t.control \in [Sink -> {"fresh", "initialize", "ready"}]
        /\ t.settled \in [Sink -> Nat] /\ t.consumed \in [Source -> Nat]
    BY <1>1, <1>3 DEF StoreOK
  <2> QED
    BY <1>3, <2>1, <2>2, <2>3, <2>4, StoreParts
<1>8. Input(t, d, t.controls[d]) = Input(s, d, f)
  BY <1>3, <1>4, <1>5 DEF Input, FirstPublished
<1>9. ValidPhase(t, d)
  <2>1. 0 < Items(f.head, f.port, Input(s, d, f))
    BY InputOK
  <2>2. ValidResume(t, d, t.controls[d])
    BY <1>4, <1>5, <1>8, <2>1 DEF ValidResume
  <2>3. d + 1 \notin DOMAIN t.controls
    BY <1>1, <1>5
  <2> QED
    BY <1>4, <1>5, <2>2, <2>3 DEF ValidPhase
<1>10. Good(t)
  <2>1. t.controls[d].head = f.head /\ t.controls[d].port = f.port
    BY <1>4, <1>5
  <2>2. DOMAIN t.controls = 0..d /\ DOMAIN t.outputs \subseteq 0..d
    BY <1>5
  <2>3. t.consumed = s.consumed /\ t.captured = s.captured
    BY <1>3
  <2> QED
    BY <1>6, <1>7, <1>9, <2>1, <2>2, <2>3, TopGood
<1> QED
  BY <1>3, <1>5, <1>10

\* Enqueueing at sinks leaves the stack alone and extends the outboxes.
LEMMA EnqueueBase ==
  ASSUME NEW s, NEW d, NEW f, Base(s, d, f), f.done \/ ValidResume(s, d, f),
         NEW page \in Change, NEW sinks, NEW t, t = Enqueue(s, sinks, page)
  PROVE  /\ Base(t, d, f) /\ (f.done \/ ValidResume(t, d, f))
         /\ t.captured = s.captured /\ t.control = s.control
         /\ t.settled = s.settled
         /\ \A k \in Sink : Prefix(s.log[k], t.log[k])
<1> DEFINE l == [k \in Sink |-> IF k \in sinks THEN s.log[k] \o page ELSE s.log[k]]
<1>1. StoreOK(s) /\ page \in Seq(Row)
  BY DataAssumption DEF Base
<1>2. t = [s EXCEPT !.log = l]
  BY DEF Enqueue
<1> HIDE DEF l
<1>3. /\ t.controls = s.controls /\ t.outputs = s.outputs
      /\ t.consumed = s.consumed /\ t.captured = s.captured /\ t.log = l
      /\ t.control = s.control /\ t.settled = s.settled
      /\ t = [controls |-> t.controls, outputs |-> t.outputs,
              captured |-> t.captured, consumed |-> t.consumed,
              log |-> t.log, control |-> t.control, settled |-> t.settled]
  BY <1>1, <1>2 DEF StoreOK
<1>4. \A k \in Sink : s.log[k] \in Seq(Row)
  BY <1>1 DEF StoreOK
<1>5. l \in [Sink -> Seq(Row)] /\ \A k \in Sink : Prefix(s.log[k], l[k])
  BY <1>1, <1>4 DEF l, Prefix
<1>6. StoreOK(t)
  BY <1>1, <1>3, <1>5, StoreParts DEF StoreOK
<1>7. Base(t, d, f)
  <2>1. \A e \in 0..(d - 1) : ValidInput(s, e) <=> ValidInput(t, e)
    BY <1>3 DEF ValidInput, Published
  <2>2. \A e \in 0..(d - 1) : ValidPhase(s, e) <=> ValidPhase(t, e)
    BY <1>3 DEF ValidPhase, ValidResume, Input, FirstPublished
  <2>3. CalledAt(t, d, f)
    BY <1>3 DEF Base, CalledAt, Published
  <2>4. Counted(t)
    BY <1>3 DEF Base, Counted
  <2> QED
    BY <1>3, <1>6, <2>1, <2>2, <2>3, <2>4 DEF Base
<1>8. f.done \/ ValidResume(t, d, f)
  BY <1>3 DEF ValidResume, Input, FirstPublished
<1> QED
  BY <1>3, <1>5, <1>7, <1>8

\* A call of a computation is one its topology allows, one rank further down.
LEMMA CallBase ==
  ASSUME NEW s, NEW d, NEW f, Good(s), DOMAIN s.controls = 0..d, d \in Nat,
         s.controls[d] = f, f.phase = "send",
         f.next \in DOMAIN Consumers[f.head],
         NEW c, c = Consumers[f.head][f.next], c.operation \in Heads,
         NEW g, g = Run(c.operation, c.port, 0)
  PROVE  Base(s, d + 1, g) /\ g.resume = 0 /\ d + 1 \notin DOMAIN s.outputs
<1>1. /\ StoreOK(s) /\ Counted(s) /\ f \in Frame /\ f.head \in Heads
      /\ Rank[f.head] > d
  BY DEF Good, StoreOK, Frame
<1>2. /\ c \in Call /\ c.operation \notin Source
      /\ c.port \in 1..Ports[c.operation]
      /\ Rank[c.operation] > Rank[f.head]
  <2>1. Consumers[f.head] \in Seq(Call)
    BY <1>1, TopologyAssumption
  <2>2. c \in Call
    BY <2>1
  <2> QED
    BY <1>1, <2>2, TopologyAssumption
<1>3. Rank[c.operation] > d + 1
  BY <1>1, <1>2, RankType
<1>4. g \in Frame /\ g.head = c.operation /\ g.port = c.port /\ g.resume = 0
  BY <1>2 DEF Run, Frame, Call
<1>5. CalledAt(s, d + 1, g)
  <2>1. c = [operation |-> g.head, port |-> g.port]
    BY <1>2, <1>4 DEF Call
  <2>2. d + 1 # 0 /\ (d + 1) - 1 = d
    OBVIOUS
  <2> QED
    BY <1>2, <1>4, <2>1, <2>2 DEF CalledAt
<1>6. DOMAIN s.outputs \subseteq 0..d
  BY DEF Good, ValidFrames
<1>7. \A e \in 0..((d + 1) - 1) : /\ Rank[s.controls[e].head] > e
                                  /\ ValidInput(s, e) /\ ValidPhase(s, e)
  BY DEF Good, ValidFrames
<1>8. DOMAIN s.controls \cup {d + 1} = 0..(d + 1)
      /\ DOMAIN s.outputs \subseteq 0..(d + 1) /\ d + 1 \notin DOMAIN s.outputs
  BY <1>6
<1>9. d + 1 \in Nat
  OBVIOUS
<1> QED
  BY <1>1, <1>3, <1>4, <1>5, <1>7, <1>8, <1>9 DEF Base

\* What a stack transaction may change.
Advances(s, t) ==
  /\ t.captured = s.captured /\ t.control = s.control /\ t.settled = s.settled
  /\ \A k \in Sink : Prefix(s.log[k], t.log[k])

LEMMA FinishAdvances ==
  ASSUME NEW s, NEW d, NEW f, StoreOK(s)
  PROVE  LET t == FinishFrame(s, d, f) IN
         /\ t.captured = s.captured /\ t.control = s.control
         /\ t.settled = s.settled /\ t.log = s.log
  BY DEF FinishFrame, Pop, Again, StoreOK

\* route_page, whichever consumer it leaves off at.
LEMMA RouteGood ==
  ASSUME NEW s, NEW d, NEW f, Base(s, d, f), f.done \/ ValidResume(s, d, f),
         NEW page \in Change, NEW n \in f.next..Len(Consumers[f.head])
  PROVE  Good(RouteTo(s, d, f, page, n)) /\ Advances(s, RouteTo(s, d, f, page, n))
<1> DEFINE calls == Consumers[f.head]
           sent  == Enqueue(s, {calls[i].operation : i \in f.next + 1..n}, page)
<1>1. /\ f \in Frame /\ f.head \in Heads /\ calls \in Seq(Call) /\ d \in Nat
      /\ Len(calls) \in Nat /\ n \in 0..Len(calls)
  BY TopologyAssumption DEF Base, Frame
<1>2. /\ Base(sent, d, f) /\ (f.done \/ ValidResume(sent, d, f))
      /\ Advances(s, sent)
  BY EnqueueBase DEF Advances
<1>3. StoreOK(sent)
  BY <1>2 DEF Base
<1>4. CASE n = Len(calls)
  <2>1. RouteTo(s, d, f, page, n) = FinishFrame(sent, d, f)
    BY <1>4 DEF RouteTo
  <2>2. Good(FinishFrame(sent, d, f))
    BY <1>2, FinishGood
  <2> HIDE DEF sent
  <2>3. Advances(s, FinishFrame(sent, d, f))
    BY <1>2, <1>3, FinishAdvances DEF Advances
  <2> QED
    BY <2>1, <2>2, <2>3
<1>5. ASSUME NEW m \in 0..Len(calls)
      PROVE  LET w == Wait(sent, d, f, page, m) IN
             /\ Good(w) /\ Advances(s, w) /\ DOMAIN w.controls = 0..d
             /\ w.controls[d] = Send(f, m, f.resume, f.done)
  <2> HIDE DEF sent
  <2> DEFINE w == Wait(sent, d, f, page, m)
  <2>1. /\ Good(w) /\ DOMAIN w.controls = 0..d
        /\ w.controls[d] = Send(f, m, f.resume, f.done)
        /\ w.captured = sent.captured /\ w.control = sent.control
        /\ w.settled = sent.settled /\ w.log = sent.log
    BY <1>2, WaitGood
  <2> QED
    BY <1>2, <2>1 DEF Advances
<1>6. CASE n # Len(calls) /\ calls[n + 1].operation \in Sink
  <2>1. RouteTo(s, d, f, page, n) = Wait(sent, d, f, page, n)
    BY <1>6 DEF RouteTo
  <2> QED
    BY <1>1, <1>5, <2>1
<1>7. CASE n # Len(calls) /\ calls[n + 1].operation \notin Sink
  <2> DEFINE c == calls[n + 1]
             w == Wait(sent, d, f, page, n + 1)
             g == Run(c.operation, c.port, 0)
  <2>1. RouteTo(s, d, f, page, n) = Start(w, d + 1, c.operation, c.port)
    BY <1>7 DEF RouteTo
  <2>2. n + 1 \in 1..Len(calls)
    BY <1>1, <1>7
  <2>3. c \in Call /\ c.operation \in Heads
    <3>1. c \in Call
      BY <1>1, <2>2
    <3> QED
      BY <1>7, <3>1 DEF Call
  <2>4. /\ Good(w) /\ Advances(s, w) /\ DOMAIN w.controls = 0..d
        /\ w.controls[d] = Send(f, n + 1, f.resume, f.done)
    <3>1. n + 1 \in 0..Len(calls)
      BY <1>1, <2>2
    <3> QED
      BY <1>5, <3>1
  <2> HIDE DEF w
  <2>5. /\ w.controls[d].phase = "send" /\ w.controls[d].head = f.head
        /\ w.controls[d].next = n + 1
    BY <2>4 DEF Send
  <2>6. Base(w, d + 1, g) /\ g.resume = 0 /\ d + 1 \notin DOMAIN w.outputs
    BY <1>1, <2>2, <2>3, <2>4, <2>5, CallBase
  <2>7. g.head = c.operation /\ g.port = c.port
    BY DEF Run
  <2> HIDE DEF g, c
  <2>8. LET t == Start(w, d + 1, g.head, g.port) IN
        /\ Good(t)
        /\ t.captured = w.captured /\ t.control = w.control
        /\ t.settled = w.settled /\ t.log = w.log
    BY <2>6, StartGood
  <2> QED
    BY <2>1, <2>4, <2>7, <2>8 DEF Advances
<1> QED
  BY <1>4, <1>6, <1>7

-----------------------------------------------------------------------------
(* The pages of run_frame and send_page.                                   *)

LEMMA TopFrame ==
  ASSUME NEW s, Good(s), ~Idle(s), NEW d, d = Top(s), NEW f, f = s.controls[d]
  PROVE  /\ d \in Nat /\ DOMAIN s.controls = 0..d /\ f \in Frame
         /\ Base(s, d, f) /\ ValidPhase(s, d)
<1>1. PICK n \in 0..MaxDepth : DOMAIN s.controls = 0..(n - 1)
  BY DEF Good, ValidFrames
<1>2. n \in Nat /\ n # 0
  BY <1>1, TopologyAssumption DEF Idle
<1>3. n - 1 \in DOMAIN s.controls /\ \A e \in DOMAIN s.controls : e <= n - 1
  BY <1>1, <1>2
<1>4. d \in DOMAIN s.controls /\ \A e \in DOMAIN s.controls : e <= d
  BY <1>3 DEF Top
<1>5. d = n - 1 /\ d \in Nat /\ DOMAIN s.controls = 0..d
  <2>1. d \in 0..(n - 1) /\ d <= n - 1 /\ n - 1 <= d
    BY <1>1, <1>3, <1>4
  <2>2. d = n - 1 /\ d \in Nat
    BY <1>2, <2>1
  <2> QED
    BY <1>1, <2>2
<1>6. StoreOK(s) /\ Counted(s) /\ f \in Frame /\ Rank[f.head] > d
  BY <1>4 DEF Good, StoreOK
<1>7. ValidPhase(s, d) /\ CalledAt(s, d, f)
  BY <1>4 DEF Good, ValidFrames, ValidInput, CalledAt
<1>8. DOMAIN s.outputs \subseteq 0..d
  BY <1>5 DEF Good, ValidFrames
<1>9. \A e \in 0..(d - 1) : /\ Rank[s.controls[e].head] > e
                            /\ ValidInput(s, e) /\ ValidPhase(s, e)
  BY <1>5 DEF Good, ValidFrames
<1>10. DOMAIN s.controls \cup {d} = 0..d
  BY <1>5
<1> QED
  BY <1>5, <1>6, <1>7, <1>8, <1>9, <1>10 DEF Base

\* A published source may be called as a root when no frame is active.
LEMMA RootFrame ==
  ASSUME NEW s, Good(s), Idle(s), NEW src \in Source, Published(s, src),
         NEW f, f = Run(src, NoPort, 0)
  PROVE  Base(s, 0, f) /\ f \in Frame /\ f.resume = 0 /\ 0 \notin DOMAIN s.outputs
<1>1. f \in Frame /\ f.head = src /\ f.port = NoPort /\ f.resume = 0
  BY SourceType DEF Run, Frame, NoPort
<1>2. Rank[f.head] > 0
  BY <1>1, SourceType, RankType
<1>3. CalledAt(s, 0, f)
  BY <1>1 DEF CalledAt
<1>4. DOMAIN s.controls = {} /\ DOMAIN s.outputs = {}
  BY DEF Idle, Good, ValidFrames
<1>5. DOMAIN s.controls \cup {0} = 0..0 /\ DOMAIN s.outputs \subseteq 0..0
      /\ 0..(0 - 1) = {} /\ 0 \in Nat
  BY <1>4
<1> QED
  BY <1>1, <1>2, <1>3, <1>4, <1>5 DEF Base, Good

\* The frame changes its phase, not its place in the stack.
LEMMA SameCall ==
  ASSUME NEW s, NEW d, NEW f, Base(s, d, f),
         NEW g \in Frame, g.head = f.head, g.port = f.port
  PROVE  Base(s, d, g)
<1>1. CalledAt(s, d, g)
  BY DEF Base, CalledAt
<1> QED
  BY <1>1 DEF Base

\* One attempt of run_page that fits its budget.
LEMMA RunPageGood ==
  ASSUME NEW s, NEW d, NEW f, Base(s, d, f),
         NEW k \in Attempts(s, d, f), NEW t \in RunPage(s, d, f, k)
  PROVE  Good(t) /\ Advances(s, t)
<1> DEFINE input == Input(s, d, f)
           items == Items(f.head, f.port, input)
           page  == Output(f.head, f.port, input, f.resume, k)
           done  == f.resume + k = items
           after == Send(f, 0, f.resume + k, done)
<1>1. /\ input \in Change /\ f.port \in InputPorts(f.head) /\ f.head \in Heads
      /\ items \in Nat \ {0} /\ f \in Frame /\ f.resume \in Nat
  BY InputOK DEF Base, Frame
<1>2. k \in 1..(items - f.resume) /\ k <= HeadItems /\ f.resume + k <= items
  BY <1>1 DEF Attempts
<1>3. page \in Change \cup {<<>>}
  <2>1. f.resume \in 0..items
    BY <1>1, <1>2
  <2> HIDE DEF input
  <2> QED
    BY <1>1, <1>2, <2>1, DataAssumption
<1>4. t \in IF page = <<>> THEN {FinishFrame(s, d, after)}
                           ELSE RoutePage(s, d, after, page, TRUE)
  BY DEF RunPage
<1>5. /\ after \in Frame /\ after.head = f.head /\ after.port = f.port
      /\ after.next = 0 /\ after.resume = f.resume + k /\ after.done = done
  <2>1. f.resume + k \in Nat /\ done \in BOOLEAN
    BY <1>1, <1>2
  <2> HIDE DEF done
  <2> QED
    BY <1>1, <2>1 DEF Send, Frame
<1>6. Base(s, d, after)
  BY <1>5, SameCall
<1>7. after.done \/ ValidResume(s, d, after)
  <2>1. Input(s, d, after) = input
    BY <1>5 DEF Input
  <2>2. f.resume + k < items \/ done
    BY <1>1, <1>2
  <2>3. after.done \/ after.resume < items
    BY <1>5, <2>2
  <2> HIDE DEF input, after
  <2> QED
    BY <1>5, <2>1, <2>3 DEF ValidResume
<1> HIDE DEF after, page
<1>8. CASE page = <<>>
  <2>1. t = FinishFrame(s, d, after) /\ StoreOK(s)
    BY <1>4, <1>8 DEF Base
  <2>2. Good(t)
    BY <1>6, <1>7, <2>1, FinishGood
  <2>3. \A x \in Sink : Prefix(s.log[x], s.log[x])
    BY <2>1 DEF Prefix, StoreOK
  <2> QED
    BY <2>1, <2>2, <2>3, FinishAdvances DEF Advances
<1>9. CASE page # <<>>
  <2>1. PICK n \in Stops(s, after, page, TRUE) : t = RouteTo(s, d, after, page, n)
    BY <1>4, <1>9 DEF RoutePage
  <2>2. n \in after.next..Len(Consumers[after.head])
    BY <2>1 DEF Stops
  <2> QED
    BY <1>3, <1>6, <1>7, <1>9, <2>1, <2>2, RouteGood
<1> QED
  BY <1>8, <1>9

\* send_page.
LEMMA SendPageGood ==
  ASSUME NEW s, Good(s), ~Idle(s), NEW d, d = Top(s), NEW f, f = s.controls[d],
         f.phase = "send", NEW t \in SendPage(s, d, f)
  PROVE  Good(t) /\ Advances(s, t)
<1>1. Base(s, d, f) /\ ValidPhase(s, d) /\ StoreOK(s)
  BY TopFrame DEF Base
<1>2. (f.done \/ ValidResume(s, d, f)) /\ d \in DOMAIN s.outputs
  BY <1>1 DEF ValidPhase
<1>3. s.outputs[d] \in Change
  BY <1>1, <1>2 DEF StoreOK
<1>4. CASE f.next = Len(Consumers[f.head])
  <2>1. t = FinishFrame(s, d, f)
    BY <1>4 DEF SendPage
  <2>2. Good(t)
    BY <1>1, <1>2, <2>1, FinishGood
  <2>3. \A x \in Sink : Prefix(s.log[x], s.log[x])
    BY <1>1 DEF Prefix, StoreOK
  <2> QED
    BY <1>1, <2>1, <2>2, <2>3, FinishAdvances DEF Advances
<1>5. CASE f.next # Len(Consumers[f.head])
  <2>1. PICK n \in Stops(s, f, s.outputs[d], FALSE) :
          t = RouteTo(s, d, f, s.outputs[d], n)
    BY <1>5 DEF SendPage, RoutePage
  <2>2. n \in f.next..Len(Consumers[f.head])
    BY <2>1 DEF Stops
  <2> QED
    BY <1>1, <1>2, <1>3, <2>1, <2>2, RouteGood
<1> QED
  BY <1>4, <1>5

\* The root whose first page failed is pinned at its initial position.
LEMMA PinGood ==
  ASSUME NEW s, Good(s), Idle(s), NEW src \in Source, Published(s, src)
  PROVE  LET t == PinRoot(s, src) IN
         /\ Good(t) /\ Advances(s, t)
         /\ 0 \in DOMAIN t.controls /\ t.controls[0].head = src
<1> DEFINE f == Run(src, NoPort, 0)
           t == PinRoot(s, src)
<1>1. Base(s, 0, f) /\ f.resume = 0 /\ 0 \notin DOMAIN s.outputs /\ StoreOK(s)
  BY RootFrame DEF Good
<1>2. f.head = src /\ f.port = NoPort
  BY DEF Run
<1>3. t = Start(s, 0, f.head, f.port)
  BY <1>2 DEF PinRoot
<1> HIDE DEF t, f
<1>4. /\ Good(t) /\ DOMAIN t.controls = 0..0
      /\ t.captured = s.captured /\ t.control = s.control
      /\ t.settled = s.settled /\ t.log = s.log
  BY <1>1, <1>3, StartGood
<1>5. \A k \in Sink : Prefix(s.log[k], s.log[k])
  BY <1>1 DEF Prefix, StoreOK
<1>6. t.controls[0].head = src
  <2>1. t.controls = Put(s.controls, 0, Run(f.head, f.port, 0))
    BY <1>1, <1>3 DEF Start, StoreOK
  <2> QED
    BY <1>2, <2>1 DEF Put, Run
<1> QED
  BY <1>4, <1>5, <1>6 DEF Advances, t

-----------------------------------------------------------------------------
(* The inductive invariant.                                                *)

(***************************************************************************)
(* Store value s is a good one and is consistent with what left the        *)
(* process: acked deliveries `a', existing targets `c', their rows `g'.    *)
(***************************************************************************)
Safe(s, a, c, g) ==
  /\ Good(s)
  /\ \A src \in Source : a[src] <= s.captured[src]
  /\ \A k \in Sink : /\ Prefix(g[k], s.log[k])
                     /\ s.settled[k] <= Len(g[k])
                     /\ s.control[k] = "ready" => k \in c
                     /\ k \in c => s.control[k] # "fresh"

StoresSafe ==
  /\ store \in durable
  /\ \A s \in durable : Safe(s, acked, created, target)

\* A polled delivery is the next one to capture; between its commit and its
\* ACK it is the last one captured.
PendingNext ==
  \A src \in Source : pending[src] # 0 =>
    IF pc \in {"captureSync", "ack"} /\ src = Serviced
    THEN pending[src] = store.captured[src]
    ELSE pending[src] = store.captured[src] + 1 /\ pending[src] <= Len(Script[src])

CaptureState ==
  /\ needsReopen => pc \in {"fail", "error"}
  /\ ~needsReopen => PendingNext
  /\ pc = "record" => pending[Serviced] # 0
  /\ pc = "ack" /\ Serviced \in AckBarrier => durable = {store}
  /\ pc \in {"capture", "record", "captureSync", "ack", "stack"} => left # 0
  /\ pc \notin {"fail", "error"} => failed = NoSource
  /\ pc \in {"idle", "error", "down"} /\ ~needsReopen => durable = {store}
  /\ failed # NoSource /\ ~needsReopen =>
       0 \in DOMAIN store.controls /\ store.controls[0].head = failed

DrainState ==
  pc \in {"intent", "drainSync", "deliver", "settle"} =>
    /\ pc = "deliver" => durable = {store}
    /\ IF loaded.init
       THEN /\ ~(pc = "intent" /\ loaded.fresh) => store.control[Drained] # "fresh"
            /\ pc = "settle" => Drained \in created
       ELSE /\ ~loaded.fresh
            /\ loaded.upto <= Len(store.log[Drained])
            /\ pc = "settle" => loaded.upto <= Len(target[Drained])

\* TypeOK without the store values, whose types are part of Good.
Types ==
  /\ pc \in Phases
  /\ left \in 0..StackActions
  /\ sourceCursor \in DOMAIN SourceOrder /\ rootCursor \in DOMAIN SourceOrder
  /\ sinkCursor \in DOMAIN SinkOrder
  /\ pending \in [Source -> Nat] /\ acked \in [Source -> Nat]
  /\ loaded \in [init : BOOLEAN, fresh : BOOLEAN, upto : Nat]
  /\ needsReopen \in BOOLEAN /\ failed \in Source \cup {NoSource}
  /\ created \subseteq Sink
  /\ target \in [Sink -> Seq(Row)]

IInv == StoresSafe /\ Types /\ CaptureState /\ DrainState

-----------------------------------------------------------------------------
(* Transactions preserve Safe.                                             *)

LEMMA PrefixTransitive ==
  ASSUME NEW x \in Seq(Row), NEW y \in Seq(Row), NEW z \in Seq(Row),
         Prefix(x, y), Prefix(y, z)
  PROVE  Prefix(x, z)
<1>1. Len(x) \in Nat /\ Len(y) \in Nat /\ Len(z) \in Nat
  OBVIOUS
<1>2. Len(x) <= Len(y) /\ Len(y) <= Len(z)
  BY DEF Prefix
<1>3. \A i \in 1..Len(x) : i \in 1..Len(y) /\ x[i] = z[i]
  BY <1>1, <1>2 DEF Prefix
<1> QED
  BY <1>1, <1>2, <1>3 DEF Prefix

\* A stack transaction.
LEMMA AdvancesSafe ==
  ASSUME NEW s, NEW t, NEW a, NEW c, NEW g \in [Sink -> Seq(Row)],
         Safe(s, a, c, g), Good(t), Advances(s, t)
  PROVE  Safe(t, a, c, g)
<1>1. \A src \in Source : a[src] <= t.captured[src]
  BY DEF Safe, Advances
<1>2. \A k \in Sink : Prefix(g[k], t.log[k])
  <2> TAKE k \in Sink
  <2>1. s.log[k] \in Seq(Row) /\ t.log[k] \in Seq(Row) /\ g[k] \in Seq(Row)
    BY DEF Safe, Good, StoreOK
  <2>2. Prefix(g[k], s.log[k]) /\ Prefix(s.log[k], t.log[k])
    BY DEF Safe, Advances
  <2> QED
    BY <2>1, <2>2, PrefixTransitive
<1>3. \A k \in Sink : /\ t.settled[k] <= Len(g[k])
                      /\ t.control[k] = "ready" => k \in c
                      /\ k \in c => t.control[k] # "fresh"
  BY DEF Safe, Advances
<1> QED
  BY <1>1, <1>2, <1>3 DEF Safe

\* A boundary transaction leaves the frames and what they read alone.
LEMMA SameFrames ==
  ASSUME NEW s, NEW t, Good(s), StoreOK(t), Counted(t),
         t.controls = s.controls, t.outputs = s.outputs,
         t.consumed = s.consumed,
         \A src \in Source : s.captured[src] <= t.captured[src]
  PROVE  Good(t)
<1>1. \A src \in Source : Published(s, src) => Published(t, src)
  <2> TAKE src \in Source
  <2>1. s.captured[src] \in Nat /\ t.captured[src] \in Nat /\ s.consumed[src] \in Nat
    BY DEF Good, StoreOK
  <2> QED
    BY <2>1 DEF Published
<1>2. \A d \in DOMAIN s.controls : ValidInput(s, d) => ValidInput(t, d)
  BY <1>1 DEF ValidInput
<1>3. \A d \in DOMAIN s.controls : ValidPhase(s, d) => ValidPhase(t, d)
  BY DEF ValidPhase, ValidResume, Input, FirstPublished
<1>4. ValidFrames(t)
  BY <1>2, <1>3 DEF Good, ValidFrames
<1> QED
  BY <1>4 DEF Good

\* record(): the next delivery is published.
LEMMA PublishSafe ==
  ASSUME NEW s, NEW a \in [Source -> Nat], NEW c, NEW g, Safe(s, a, c, g),
         NEW src \in Source, NEW n \in Nat, s.captured[src] < n,
         n <= Len(Script[src]), NEW t, t = Publish(s, src, n)
  PROVE  Safe(t, a, c, g)
<1> DEFINE l == [s.captured EXCEPT ![src] = n]
<1>1. StoreOK(s) /\ Counted(s) /\ s.captured \in [Source -> Nat]
  BY DEF Safe, Good, StoreOK
<1>2. t = [s EXCEPT !.captured = l]
  BY DEF Publish
<1> HIDE DEF l
<1>3. /\ t.controls = s.controls /\ t.outputs = s.outputs
      /\ t.consumed = s.consumed /\ t.captured = l /\ t.log = s.log
      /\ t.control = s.control /\ t.settled = s.settled
      /\ t = [controls |-> t.controls, outputs |-> t.outputs,
              captured |-> t.captured, consumed |-> t.consumed,
              log |-> t.log, control |-> t.control, settled |-> t.settled]
  BY <1>1, <1>2 DEF StoreOK
<1>4. /\ l \in [Source -> Nat] /\ l[src] = n
      /\ \A x \in Source \ {src} : l[x] = s.captured[x]
  BY <1>1 DEF l
<1>5. StoreOK(t)
  BY <1>1, <1>3, <1>4, StoreParts DEF StoreOK
<1>6. \A x \in Source : s.captured[x] <= t.captured[x]
  BY <1>1, <1>3, <1>4
<1>7. Counted(t)
  <2>1. \A x \in Source : /\ s.consumed[x] \in Nat /\ s.captured[x] \in Nat
                          /\ s.consumed[x] <= s.captured[x]
                          /\ s.captured[x] <= Len(Script[x])
    BY <1>1 DEF Counted, StoreOK
  <2> QED
    BY <1>3, <1>4, <2>1 DEF Counted
<1>8. Good(t)
  <2>1. Good(s)
    BY DEF Safe
  <2>2. t.controls = s.controls /\ t.outputs = s.outputs /\ t.consumed = s.consumed
    BY <1>3
  <2> QED
    BY <1>5, <1>6, <1>7, <2>1, <2>2, SameFrames
<1>9. \A x \in Source : a[x] <= t.captured[x]
  <2> TAKE x \in Source
  <2>1. a[x] \in Nat /\ s.captured[x] \in Nat /\ t.captured[x] \in Nat
    BY <1>1, <1>3, <1>4
  <2>2. a[x] <= s.captured[x]
    BY DEF Safe
  <2> QED
    BY <1>6, <2>1, <2>2
<1> QED
  BY <1>3, <1>4, <1>8, <1>9 DEF Safe

LEMMA PublishCaptured ==
  ASSUME NEW s, StoreOK(s), NEW src \in Source, NEW n, NEW x \in Source
  PROVE  Publish(s, src, n).captured[x] = IF x = src THEN n ELSE s.captured[x]
<1> DEFINE l == [s.captured EXCEPT ![src] = n]
<1>1. Publish(s, src, n) = [s EXCEPT !.captured = l]
  BY DEF Publish
<1>2. l[x] = IF x = src THEN n ELSE s.captured[x]
  BY DEF StoreOK
<1> HIDE DEF l
<1>3. Publish(s, src, n).captured = l
  BY <1>1 DEF StoreOK
<1> QED
  BY <1>2, <1>3

\* The initialization intent, and the readiness of an initialized sink.
LEMMA ControlSafe ==
  ASSUME NEW s, NEW a, NEW c, NEW g, Safe(s, a, c, g),
         NEW k \in Sink, NEW x \in {"initialize", "ready"}, x = "ready" => k \in c,
         NEW t, t = SetControl(s, k, x)
  PROVE  /\ Safe(t, a, c, g)
         /\ t.captured = s.captured /\ t.controls = s.controls
         /\ t.control[k] = x /\ t.log = s.log
<1> DEFINE l == [s.control EXCEPT ![k] = x]
<1>1. StoreOK(s) /\ s.control \in [Sink -> {"fresh", "initialize", "ready"}]
  BY DEF Safe, Good, StoreOK
<1>2. t = [s EXCEPT !.control = l]
  BY DEF SetControl
<1> HIDE DEF l
<1>3. /\ t.controls = s.controls /\ t.outputs = s.outputs
      /\ t.consumed = s.consumed /\ t.captured = s.captured /\ t.log = s.log
      /\ t.control = l /\ t.settled = s.settled
      /\ t = [controls |-> t.controls, outputs |-> t.outputs,
              captured |-> t.captured, consumed |-> t.consumed,
              log |-> t.log, control |-> t.control, settled |-> t.settled]
  BY <1>1, <1>2 DEF StoreOK
<1>4. /\ l \in [Sink -> {"fresh", "initialize", "ready"}] /\ l[k] = x
      /\ \A y \in Sink \ {k} : l[y] = s.control[y]
  BY <1>1 DEF l
<1>5. StoreOK(t)
  BY <1>1, <1>3, <1>4, StoreParts DEF StoreOK
<1>6. Good(t)
  <2>1. Good(s) /\ Counted(t)
    BY <1>3 DEF Safe, Good, Counted
  <2>2. t.controls = s.controls /\ t.outputs = s.outputs /\ t.consumed = s.consumed
    BY <1>3
  <2>3. \A src \in Source : s.captured[src] <= t.captured[src]
    BY <1>1, <1>3 DEF StoreOK
  <2> QED
    BY <1>5, <2>1, <2>2, <2>3, SameFrames
<1>7. \A y \in Sink : /\ t.control[y] = "ready" => y \in c
                      /\ y \in c => t.control[y] # "fresh"
  BY <1>3, <1>4 DEF Safe
<1> QED
  BY <1>3, <1>4, <1>6, <1>7 DEF Safe

\* settle(): the outbox forgets a prefix that the target has.
LEMMA ForgetSafe ==
  ASSUME NEW s, NEW a, NEW c, NEW g, Safe(s, a, c, g),
         NEW k \in Sink, NEW n \in Nat, n <= Len(g[k]),
         NEW t, t = ForgetUpTo(s, k, n)
  PROVE  /\ Safe(t, a, c, g)
         /\ t.captured = s.captured /\ t.controls = s.controls
<1> DEFINE l == [s.settled EXCEPT ![k] = n]
<1>1. StoreOK(s) /\ s.settled \in [Sink -> Nat]
  BY DEF Safe, Good, StoreOK
<1>2. t = [s EXCEPT !.settled = l]
  BY DEF ForgetUpTo
<1> HIDE DEF l
<1>3. /\ t.controls = s.controls /\ t.outputs = s.outputs
      /\ t.consumed = s.consumed /\ t.captured = s.captured /\ t.log = s.log
      /\ t.control = s.control /\ t.settled = l
      /\ t = [controls |-> t.controls, outputs |-> t.outputs,
              captured |-> t.captured, consumed |-> t.consumed,
              log |-> t.log, control |-> t.control, settled |-> t.settled]
  BY <1>1, <1>2 DEF StoreOK
<1>4. /\ l \in [Sink -> Nat] /\ l[k] = n
      /\ \A y \in Sink \ {k} : l[y] = s.settled[y]
  BY <1>1 DEF l
<1>5. StoreOK(t)
  BY <1>1, <1>3, <1>4, StoreParts DEF StoreOK
<1>6. Good(t)
  <2>1. Good(s) /\ Counted(t)
    BY <1>3 DEF Safe, Good, Counted
  <2>2. t.controls = s.controls /\ t.outputs = s.outputs /\ t.consumed = s.consumed
    BY <1>3
  <2>3. \A src \in Source : s.captured[src] <= t.captured[src]
    BY <1>1, <1>3 DEF StoreOK
  <2> QED
    BY <1>5, <2>1, <2>2, <2>3, SameFrames
<1>7. \A y \in Sink : t.settled[y] <= Len(g[y])
  BY <1>3, <1>4 DEF Safe
<1> QED
  BY <1>3, <1>6, <1>7 DEF Safe

-----------------------------------------------------------------------------
(* Steps preserve the invariant.                                           *)

LEMMA CursorType ==
  ASSUME NEW n \in Nat \ {0}, NEW c \in 1..n
  PROVE  Turn(c, n) \in 1..n /\ Before(c, n) \in 1..n
  BY DEF Turn, Before

\* A boundary is in service once its cursor has moved on.
LEMMA BeforeTurn ==
  ASSUME NEW n \in Nat \ {0}, NEW c \in 1..n
  PROVE  Before(Turn(c, n), n) = c
<1>1. CASE c = n
  <2>1. n % n = 0
    OBVIOUS
  <2> QED
    BY <1>1, <2>1 DEF Turn, Before
<1>2. CASE c # n
  <2>1. c \in 0..(n - 1)
    BY <1>2
  <2>2. c % n = c
    BY <2>1
  <2> QED
    BY <2>1, <2>2 DEF Turn, Before
<1> QED
  BY <1>1, <1>2

LEMMA OrderType ==
  /\ Len(SourceOrder) \in Nat \ {0} /\ DOMAIN SourceOrder = 1..Len(SourceOrder)
  /\ Len(SinkOrder) \in Nat \ {0} /\ DOMAIN SinkOrder = 1..Len(SinkOrder)
  BY TopologyAssumption

LEMMA ServiceType ==
  ASSUME Types
  PROVE  Serviced \in Source /\ Drained \in Sink
  BY OrderType, CursorType DEF Types, Serviced, Drained, Source, Sink

LEMMA RootType ==
  ASSUME Types, NEW n \in Nat
  PROVE  RootAt(n) \in Source /\ RootTurn(n) \in DOMAIN SourceOrder
<1>1. rootCursor - 1 + n \in Nat
  BY OrderType DEF Types
<1>2. \A x \in Nat : 1 + (x % Len(SourceOrder)) \in 1..Len(SourceOrder)
  BY OrderType
<1> QED
  BY <1>1, <1>2, OrderType DEF RootAt, RootTurn, Source

\* A commit keeps every store value that a crash may leave safe.
LEMMA CommitSafe ==
  ASSUME StoresSafe, NEW t, Safe(t, acked, created, target),
         NEW next, Commit(t, next), UNCHANGED external
  PROVE  StoresSafe'
  BY DEF StoresSafe, Commit, external

LEMMA SyncSafe ==
  ASSUME StoresSafe, NEW next, Sync(next), UNCHANGED external
  PROVE  StoresSafe'
  BY DEF StoresSafe, Sync, external

LEMMA SameSafe ==
  ASSUME StoresSafe, UNCHANGED <<store, durable, external>>
  PROVE  StoresSafe'
  BY DEF StoresSafe, external

LEMMA StoreSafe ==
  ASSUME StoresSafe
  PROVE  /\ Safe(store, acked, created, target) /\ Good(store) /\ StoreOK(store)
         /\ store.captured \in [Source -> Nat]
         /\ store.log \in [Sink -> Seq(Row)]
  BY DEF StoresSafe, Safe, Good, StoreOK

\* The steps of capture.
LEMMA CaptureStep ==
  ASSUME IInv, Capture
  PROVE  IInv'
<1>1. StoresSafe /\ Types /\ CaptureState /\ DrainState
  BY DEF IInv
<1>2. Serviced \in Source /\ Drained \in Sink
  BY <1>1, ServiceType
<1>3. /\ Safe(store, acked, created, target)
      /\ store.captured \in [Source -> Nat]
  BY <1>1, StoreSafe
<1>4. CASE Advance
  <2>1. StoresSafe'
    BY <1>1, <1>4, SameSafe DEF Advance
  <2>2. Types'
    <3>1. sourceCursor' \in DOMAIN SourceOrder
      BY <1>1, <1>4, CursorType, OrderType DEF Advance, Types
    <3>2. left' \in 0..StackActions
      BY <1>4, BoundAssumption DEF Advance
    <3> QED
      BY <1>1, <1>4, <3>1, <3>2 DEF Advance, Types, external, Phases
  <2>3. CaptureState'
    <3>1. left' # 0
      BY <1>4, BoundAssumption DEF Advance
    <3> QED
      BY <1>1, <1>4, <3>1 DEF Advance, CaptureState, PendingNext
  <2> QED
    BY <1>4, <2>1, <2>2, <2>3 DEF IInv, DrainState, Advance
<1>5. CASE PollSome
  <2>1. StoresSafe'
    BY <1>1, <1>5, SameSafe DEF PollSome
  <2>2. Types'
    BY <1>1, <1>2, <1>3, <1>5 DEF PollSome, Types, external, cursors, Phases
  <2>3. CaptureState'
    <3>1. /\ Serviced' = Serviced /\ pending'[Serviced] = store.captured[Serviced] + 1
          /\ store.captured[Serviced] \in Nat
          /\ \A x \in Source \ {Serviced} : pending'[x] = pending[x]
      BY <1>1, <1>2, <1>3, <1>5 DEF PollSome, Types, cursors, Serviced
    <3>2. store.captured[Serviced] + 1 <= Len(Script[Serviced])
      BY <1>2, <1>5, <3>1, DataAssumption DEF PollSome
    <3> QED
      BY <1>1, <1>5, <3>1, <3>2 DEF PollSome, CaptureState, PendingNext
  <2> QED
    BY <1>5, <2>1, <2>2, <2>3 DEF IInv, DrainState, PollSome
<1>6. CASE PollNone \/ PollHeld \/ RecordBackpressured
  <2>1. StoresSafe'
    BY <1>1, <1>6, SameSafe DEF PollNone, PollHeld, RecordBackpressured
  <2>2. Types'
    BY <1>1, <1>6 DEF PollNone, PollHeld, RecordBackpressured, Types, memory,
                      external, cursors, Phases
  <2>3. CaptureState'
    BY <1>1, <1>6 DEF PollNone, PollHeld, RecordBackpressured, CaptureState,
                      PendingNext, Serviced, memory, cursors
  <2> QED
    BY <1>6, <2>1, <2>2, <2>3
    DEF IInv, DrainState, PollNone, PollHeld, RecordBackpressured
<1>7. CASE PollFails
  <2>1. StoresSafe'
    BY <1>1, <1>7, SameSafe DEF PollFails
  <2>2. Types'
    BY <1>1, <1>7 DEF PollFails, FailStop, Types, memory, external, cursors, Phases
  <2>3. CaptureState'
    BY <1>1, <1>7 DEF PollFails, FailStop, CaptureState, memory
  <2> QED
    BY <1>7, <2>1, <2>2, <2>3 DEF IInv, DrainState, PollFails, FailStop
<1>8. CASE Record
  <2> DEFINE t == Publish(store, Serviced, pending[Serviced])
  <2>1. /\ pending[Serviced] = store.captured[Serviced] + 1
        /\ pending[Serviced] <= Len(Script[Serviced])
    BY <1>1, <1>2, <1>8 DEF Record, CaptureState, PendingNext
  <2>2. /\ Safe(t, acked, created, target)
        /\ t.captured[Serviced] = pending[Serviced]
        /\ \A x \in Source \ {Serviced} : t.captured[x] = store.captured[x]
        /\ t.controls = store.controls
    <3>1. /\ acked \in [Source -> Nat] /\ pending[Serviced] \in Nat
          /\ store.captured[Serviced] < pending[Serviced]
      BY <1>1, <1>2, <1>3, <2>1 DEF Types
    <3>2. /\ t = Publish(store, Serviced, pending[Serviced])
          /\ Safe(store, acked, created, target)
          /\ pending[Serviced] <= Len(Script[Serviced])
      BY <1>3, <2>1
    <3> HIDE DEF t
    <3>3. Safe(t, acked, created, target)
      BY <1>2, <3>1, <3>2, PublishSafe
    <3>4. StoreOK(store)
      BY <3>2 DEF Safe, Good
    <3>5. /\ t.captured[Serviced] = pending[Serviced]
          /\ \A x \in Source \ {Serviced} : t.captured[x] = store.captured[x]
      BY <1>2, <3>2, <3>4, PublishCaptured
    <3>6. t.controls = store.controls
      BY <3>2, <3>4 DEF Publish, StoreOK
    <3> QED
      BY <3>3, <3>5, <3>6
  <2>3. Commit(t, IF Serviced \in AckBarrier THEN "captureSync" ELSE "ack")
        /\ UNCHANGED <<memory, external>> /\ pc = "record"
    BY <1>8 DEF Record
  <2> HIDE DEF t
  <2>4. StoresSafe'
    BY <1>1, <2>2, <2>3, CommitSafe
  <2>5. Types'
    BY <1>1, <2>3 DEF Commit, Types, memory, external, cursors, Phases
  <2>6. CaptureState'
    <3>1. Serviced' = Serviced /\ pending' = pending /\ failed' = failed
          /\ left' = left
      BY <2>3 DEF Serviced, memory, cursors
    <3>2. CASE store' = t /\ ~needsReopen'
               /\ pc' = (IF Serviced \in AckBarrier THEN "captureSync" ELSE "ack")
      BY <1>1, <1>2, <1>3, <2>1, <2>2, <2>3, <3>1, <3>2
      DEF CaptureState, PendingNext
    <3>3. CASE pc' = "fail" /\ needsReopen'
      BY <3>3 DEF CaptureState
    <3> QED
      BY <1>1, <2>3, <3>2, <3>3 DEF Commit, CaptureState
  <2> QED
    BY <2>3, <2>4, <2>5, <2>6 DEF IInv, DrainState, Commit
<1>9. CASE CaptureSync
  <2>1. StoresSafe'
    BY <1>1, <1>9, SyncSafe DEF CaptureSync
  <2>2. Types'
    BY <1>1, <1>9 DEF CaptureSync, Sync, Types, memory, external, cursors, Phases
  <2>3. CaptureState'
    BY <1>1, <1>9 DEF CaptureSync, Sync, CaptureState, PendingNext, Serviced,
                      memory, cursors
  <2> QED
    BY <1>9, <2>1, <2>2, <2>3 DEF IInv, DrainState, CaptureSync, Sync
<1>10. CASE Ack \/ AckFails
  <2>1. PICK w \in {acked[Serviced], Watermark(Serviced)} :
          acked' = [acked EXCEPT ![Serviced] = w]
    BY <1>10 DEF Ack, AckFails
  <2>2. /\ pending' = [pending EXCEPT ![Serviced] = 0] /\ pc = "ack"
        /\ UNCHANGED <<store, durable, left, cursors, loaded, failed, created, target>>
        /\ \/ pc' = "stack" /\ needsReopen' = needsReopen
           \/ pc' = "fail" /\ needsReopen' = TRUE
    BY <1>10 DEF Ack, AckFails, FailStop
  <2>3. acked \in [Source -> Nat] /\ pending \in [Source -> Nat] /\ w \in Nat
    BY <1>1, <1>2, <2>1 DEF Types, Watermark
  <2>4. acked' \in [Source -> Nat] /\ acked'[Serviced] = w
        /\ \A x \in Source \ {Serviced} : acked'[x] = acked[x]
    BY <1>2, <2>1, <2>3
  <2>5. StoresSafe'
    <3>1. ASSUME NEW s \in durable
          PROVE  w <= s.captured[Serviced]
      <4>1. acked[Serviced] <= s.captured[Serviced]
        BY <1>1, <1>2 DEF StoresSafe, Safe
      <4>2. CASE Serviced \in AckBarrier
        <5>1. s = store /\ (pending[Serviced] # 0
                              => pending[Serviced] = store.captured[Serviced])
          BY <1>1, <1>2, <2>2, <4>2 DEF CaptureState, PendingNext
        <5> QED
          BY <1>2, <1>3, <2>1, <2>3, <4>1, <4>2, <5>1 DEF Watermark
      <4>3. CASE Serviced \notin AckBarrier
        BY <2>1, <4>1, <4>3 DEF Watermark
      <4> QED
        BY <4>2, <4>3
    <3>2. \A s \in durable : Safe(s, acked', created, target)
      BY <1>1, <2>4, <3>1 DEF StoresSafe, Safe
    <3> QED
      BY <1>1, <2>2, <3>2 DEF StoresSafe
  <2>6. Types'
    BY <1>1, <2>2, <2>3, <2>4 DEF Types, cursors, Phases
  <2>7. CaptureState'
    <3>1. Serviced' = Serviced /\ pending'[Serviced] = 0
          /\ \A x \in Source \ {Serviced} : pending'[x] = pending[x]
      BY <1>2, <2>2, <2>3 DEF Serviced, cursors
    <3>2. CASE pc' = "stack" /\ needsReopen' = needsReopen
      BY <1>1, <2>2, <3>1, <3>2 DEF CaptureState, PendingNext
    <3>3. CASE pc' = "fail" /\ needsReopen' = TRUE
      BY <3>3 DEF CaptureState
    <3> QED
      BY <2>2, <3>2, <3>3
  <2> QED
    BY <2>2, <2>5, <2>6, <2>7 DEF IInv, DrainState
<1> QED
  BY <1>4, <1>5, <1>6, <1>7, <1>8, <1>9, <1>10 DEF Capture

\* The commit of a stack action, whichever frame it is of.
LEMMA StackCommit ==
  ASSUME IInv, pc = "stack", NEW t, Good(t), Advances(store, t), StackStep(t),
         rootCursor' \in DOMAIN SourceOrder,
         UNCHANGED <<sourceCursor, sinkCursor, pending, loaded, external>>
  PROVE  IInv'
<1>1. StoresSafe /\ Types /\ CaptureState
  BY DEF IInv
<1>2. left \in Nat /\ left # 0 /\ left <= StackActions /\ failed = NoSource
      /\ needsReopen = FALSE
  BY <1>1, BoundAssumption DEF Types, CaptureState
<1> DEFINE next == IF t = store \/ left = 1 THEN "drain" ELSE "stack"
<1>3. Commit(t, next) /\ left' = left - 1 /\ failed' = NoSource
  BY <1>2 DEF StackStep
<1>4. \/ store' = t /\ pc' = next /\ needsReopen' = FALSE
      \/ pc' = "fail" /\ needsReopen' = TRUE
  BY <1>2, <1>3 DEF Commit
<1>5. StoresSafe'
  <2>1. Safe(store, acked, created, target) /\ target \in [Sink -> Seq(Row)]
    BY <1>1, StoreSafe DEF Types
  <2>2. Safe(t, acked, created, target)
    BY <2>1, AdvancesSafe
  <2> QED
    BY <1>1, <1>3, <2>2, CommitSafe
<1>6. Types'
  <2>1. left' \in 0..StackActions
    BY <1>2, <1>3, BoundAssumption
  <2>2. pc' \in Phases /\ needsReopen' \in BOOLEAN
    BY <1>4 DEF Phases
  <2> QED
    BY <1>1, <1>3, <2>1, <2>2 DEF Types, external
<1>7. CaptureState'
  <2>1. CASE store' = t /\ pc' = next /\ ~needsReopen'
    <3>1. t.captured = store.captured
      BY DEF Advances
    <3>2. pc' = "stack" => left' # 0
      BY <1>2, <1>3, <2>1
    <3>3. pc' \in {"drain", "stack"}
      BY <2>1
    <3> HIDE DEF next
    <3> QED
      BY <1>1, <1>2, <1>3, <2>1, <3>1, <3>2, <3>3 DEF CaptureState, PendingNext
  <2>2. CASE pc' = "fail" /\ needsReopen'
    BY <2>2 DEF CaptureState
  <2> QED
    BY <1>4, <2>1, <2>2
<1>8. DrainState'
  BY <1>4 DEF DrainState
<1> QED
  BY <1>5, <1>6, <1>7, <1>8 DEF IInv

\* A semantic error of the active root.
LEMMA StackErrorInv ==
  ASSUME IInv, pc = "stack", NEW d \in Nat, DOMAIN store.controls = 0..d,
         StackError, UNCHANGED <<cursors, pending, loaded, external>>
  PROVE  IInv'
<1>1. StoresSafe /\ Types /\ CaptureState
  BY DEF IInv
<1>2. Good(store) /\ ~needsReopen
  BY <1>1, StoreSafe DEF CaptureState
<1>3. 0 \in DOMAIN store.controls
  OBVIOUS
<1>4. store.controls[0].head \in Source
  BY <1>2, <1>3 DEF Good, ValidFrames, ValidInput
<1>5. StoresSafe'
  BY <1>1, SameSafe DEF StackError
<1>6. Types'
  BY <1>1, <1>4 DEF Types, StackError, cursors, external, Phases
<1>7. CaptureState'
  BY <1>1, <1>2, <1>3 DEF CaptureState, PendingNext, StackError
<1> QED
  BY <1>5, <1>6, <1>7 DEF IInv, DrainState, StackError

\* The steps of the stack.
LEMMA StackPhase ==
  ASSUME IInv, Stack
  PROVE  IInv'
<1>1. StoresSafe /\ Types /\ CaptureState
  BY DEF IInv
<1>2. Good(store) /\ StoreOK(store)
  BY <1>1, StoreSafe
<1>3. Len(SourceOrder) \in Nat /\ rootCursor \in DOMAIN SourceOrder
      /\ pc = "stack" /\ ~needsReopen /\ failed = NoSource
  BY <1>1, OrderType
  DEF Types, Stack, RunFrame, SendFrame, NextRoot, NoRoot, StackYield, CaptureState
<1>4. CASE RunFrame
  <2> DEFINE d == Top(store)
             f == store.controls[d]
  <2>1. /\ ~Idle(store) /\ UNCHANGED <<cursors, pending, loaded, external>>
        /\ \/ \E k \in Attempts(store, d, f) :
                \E t \in RunPage(store, d, f, k) : StackStep(t)
           \/ StackError
    BY <1>4 DEF RunFrame
  <2>2. Base(store, d, f) /\ d \in Nat /\ DOMAIN store.controls = 0..d
    BY <1>2, <2>1, TopFrame
  <2>3. CASE \E k \in Attempts(store, d, f) :
               \E t \in RunPage(store, d, f, k) : StackStep(t)
    <3> HIDE DEF d, f
    <3>1. PICK k \in Attempts(store, d, f) :
            \E t \in RunPage(store, d, f, k) : StackStep(t)
      BY <2>3
    <3>2. PICK t \in RunPage(store, d, f, k) : StackStep(t)
      BY <3>1
    <3>3. Good(t) /\ Advances(store, t)
      BY <2>2, RunPageGood
    <3> QED
      BY <1>3, <2>1, <3>2, <3>3, StackCommit DEF cursors
  <2>4. CASE StackError
    BY <1>1, <1>2, <1>3, <2>1, <2>2, <2>4, StackErrorInv
  <2> QED
    BY <2>1, <2>3, <2>4
<1>5. CASE SendFrame
  <2> DEFINE d == Top(store)
             f == store.controls[d]
  <2>1. /\ ~Idle(store) /\ f.phase = "send"
        /\ UNCHANGED <<cursors, pending, loaded, external>>
        /\ (\E t \in SendPage(store, d, f) : StackStep(t)) \/ StackError
    BY <1>5 DEF SendFrame
  <2>2. ASSUME NEW t \in SendPage(store, d, f), StackStep(t)
        PROVE  IInv'
    <3>1. Good(t) /\ Advances(store, t)
      BY <1>2, <2>1, SendPageGood
    <3> QED
      BY <1>3, <2>1, <2>2, <3>1, StackCommit DEF cursors
  <2>3. CASE StackError
    <3>1. d \in Nat /\ DOMAIN store.controls = 0..d
      BY <1>2, <2>1, TopFrame
    <3> QED
      BY <1>1, <1>2, <1>3, <2>1, <2>3, <3>1, StackErrorInv
  <2> QED
    BY <2>1, <2>2, <2>3
<1>6. CASE NextRoot
  <2>1. PICK n \in 0..(Len(SourceOrder) - 1) :
          LET src == RootAt(n)
              f   == Run(src, NoPort, 0)
          IN /\ Published(store, src) /\ rootCursor' = RootTurn(n + 1)
             /\ \/ \E k \in Attempts(store, 0, f) :
                     \E t \in RunPage(store, 0, f, k) : StackStep(t)
                \/ /\ Commit(PinRoot(store, src), "fail")
                   /\ failed' = src /\ UNCHANGED left
    BY <1>6 DEF NextRoot
  <2> DEFINE src == RootAt(n)
             f   == Run(src, NoPort, 0)
  <2>2. Idle(store) /\ UNCHANGED <<sourceCursor, sinkCursor, pending, loaded, external>>
    BY <1>6 DEF NextRoot
  <2>3. src \in Source /\ rootCursor' \in DOMAIN SourceOrder
    <3>1. n \in Nat /\ n + 1 \in Nat
      BY <1>3
    <3> QED
      BY <1>1, <2>1, <3>1, RootType
  <2>4. Published(store, src)
    BY <2>1
  <2>5. Base(store, 0, f)
    BY <1>2, <2>2, <2>3, <2>4, RootFrame
  <2>6. CASE \E k \in Attempts(store, 0, f) :
               \E t \in RunPage(store, 0, f, k) : StackStep(t)
    <3> HIDE DEF src, f
    <3>1. PICK k \in Attempts(store, 0, f) :
            \E t \in RunPage(store, 0, f, k) : StackStep(t)
      BY <2>6
    <3>2. PICK t \in RunPage(store, 0, f, k) : StackStep(t)
      BY <3>1
    <3>3. Good(t) /\ Advances(store, t)
      BY <2>5, RunPageGood
    <3> QED
      BY <1>3, <2>2, <2>3, <3>2, <3>3, StackCommit
  <2>7. CASE Commit(PinRoot(store, src), "fail") /\ failed' = src /\ UNCHANGED left
    <3> DEFINE t == PinRoot(store, src)
    <3>1. /\ Good(t) /\ Advances(store, t)
          /\ 0 \in DOMAIN t.controls /\ t.controls[0].head = src
      BY <1>2, <2>2, <2>3, <2>4, PinGood
    <3> HIDE DEF t, src
    <3>2. Commit(t, "fail") /\ failed' = src /\ left' = left
      BY <2>7 DEF t
    <3>3. StoresSafe'
      <4>1. Safe(store, acked, created, target) /\ target \in [Sink -> Seq(Row)]
        BY <1>1, StoreSafe DEF Types
      <4>2. Safe(t, acked, created, target)
        BY <3>1, <4>1, AdvancesSafe
      <4> QED
        BY <1>1, <2>2, <3>2, <4>2, CommitSafe
    <3>4. Types'
      BY <1>1, <2>2, <2>3, <3>2 DEF Types, external, Commit, Phases
    <3>5. CaptureState'
      <4>1. CASE store' = t /\ pc' = "fail" /\ ~needsReopen'
        <5>1. t.captured = store.captured
          BY <3>1 DEF Advances
        <5> QED
          BY <1>1, <1>3, <2>2, <3>1, <3>2, <4>1, <5>1 DEF CaptureState, PendingNext
      <4>2. CASE pc' = "fail" /\ needsReopen'
        BY <4>2 DEF CaptureState
      <4> QED
        BY <1>3, <3>2, <4>1, <4>2 DEF Commit
    <3>6. DrainState'
      BY <3>2 DEF DrainState, Commit
    <3> QED
      BY <3>3, <3>4, <3>5, <3>6 DEF IInv
  <2> QED
    BY <2>1, <2>6, <2>7
<1>7. CASE NoRoot \/ StackYield
  <2>1. rootCursor' \in DOMAIN SourceOrder
    <3>1. CASE NoRoot
      BY <1>3, <3>1 DEF NoRoot, memory, cursors
    <3>2. CASE StackYield
      <4>1. PICK n \in 0..Len(SourceOrder) : rootCursor' = RootTurn(n)
        BY <3>2 DEF StackYield
      <4>2. n \in Nat
        BY <1>3
      <4> QED
        BY <1>1, <4>1, <4>2, RootType
    <3> QED
      BY <1>7, <3>1, <3>2
  <2>2. /\ pc' = "drain"
        /\ UNCHANGED <<store, durable, left, sourceCursor, sinkCursor, pending,
                       loaded, failed, needsReopen, external>>
    BY <1>7 DEF NoRoot, StackYield, memory, cursors
  <2>3. StoresSafe'
    BY <1>1, <2>2, SameSafe
  <2>4. Types'
    BY <1>1, <2>1, <2>2 DEF Types, external, Phases
  <2>5. CaptureState'
    BY <1>1, <1>3, <2>2 DEF CaptureState, PendingNext
  <2> QED
    BY <2>2, <2>3, <2>4, <2>5 DEF IInv, DrainState
<1> QED
  BY <1>4, <1>5, <1>6, <1>7 DEF Stack

\* A step of drain leaves what capture and the stack hold alone.
LEMMA DrainKeeps ==
  ASSUME Types, CaptureState, UNCHANGED <<left, sourceCursor, rootCursor,
                                          pending, failed>>,
         pc \in {"drain", "intent", "drainSync", "deliver", "settle"},
         pc' \in {"intent", "drainSync", "deliver", "settle", "finish", "fail"},
         \/ needsReopen' /\ pc' = "fail"
         \/ /\ needsReopen' = needsReopen
            /\ store'.captured = store.captured
  PROVE  CaptureState'
<1>1. failed' = NoSource
  BY DEF CaptureState
<1>2. CASE needsReopen' /\ pc' = "fail"
  BY <1>1, <1>2 DEF CaptureState
<1>3. CASE needsReopen' = needsReopen /\ store'.captured = store.captured
  <2>1. ~needsReopen /\ PendingNext
    BY DEF CaptureState
  <2>2. PendingNext'
    BY <1>3, <2>1 DEF PendingNext
  <2> QED
    BY <1>1, <1>3, <2>1, <2>2 DEF CaptureState
<1> QED
  BY <1>2, <1>3

\* Delivery of the rows past the target's frontier, up to the loaded prefix.
LEMMA DeliverPrefix ==
  ASSUME NEW x \in Seq(Row), NEW y \in Seq(Row), Prefix(x, y),
         NEW n \in Nat, n <= Len(y),
         NEW z, z = x \o SubSeq(y, Len(x) + 1, n)
  PROVE  z \in Seq(Row) /\ Prefix(z, y) /\ n <= Len(z) /\ Len(x) <= Len(z)
<1>1. Len(x) \in Nat /\ Len(y) \in Nat /\ Len(x) <= Len(y)
  BY DEF Prefix
<1> DEFINE w == SubSeq(y, Len(x) + 1, n)
<1>2. CASE n <= Len(x)
  <2>1. w = <<>>
    BY <1>1, <1>2
  <2> HIDE DEF w
  <2>2. z = x \o w
    BY DEF w
  <2>3. x \o w = x
    BY <2>1, ConcatEmptySeq
  <2>4. z \in Seq(Row) /\ Prefix(z, y) /\ Len(z) = Len(x)
    BY <2>2, <2>3
  <2> QED
    BY <1>1, <1>2, <2>4
<1>3. CASE Len(x) < n
  <2>1. w \in Seq(Row) /\ Len(w) = n - Len(x)
        /\ \A i \in 1..Len(w) : w[i] = y[Len(x) + i]
    BY <1>1, <1>3
  <2> HIDE DEF w
  <2>2. z \in Seq(Row) /\ Len(z) = n
    BY <1>1, <1>3, <2>1 DEF w
  <2>3. \A i \in 1..Len(z) : z[i] = y[i]
    BY <1>1, <1>3, <2>1, <2>2 DEF w, Prefix
  <2> QED
    BY <1>1, <1>3, <2>2, <2>3 DEF Prefix
<1> QED
  BY <1>1, <1>2, <1>3

\* The steps of drain.
LEMMA DrainStep ==
  ASSUME IInv, Drain
  PROVE  IInv'
<1>1. StoresSafe /\ Types /\ CaptureState /\ DrainState
  BY DEF IInv
<1>2. Drained \in Sink
  BY <1>1, ServiceType
<1>3. /\ Safe(store, acked, created, target) /\ StoreOK(store)
      /\ store.log \in [Sink -> Seq(Row)]
  BY <1>1, StoreSafe
<1>4. CASE Load
  <2> DEFINE k == SinkOrder[sinkCursor]
  <2>1. /\ pc = "drain" /\ pc' \in {"intent", "finish", "fail"}
        /\ sinkCursor' = Turn(sinkCursor, Len(SinkOrder))
        /\ UNCHANGED <<store, durable, left, sourceCursor, rootCursor, pending,
                       failed, needsReopen, external>>
    BY <1>4 DEF Load
  <2>2. sinkCursor' \in DOMAIN SinkOrder /\ k \in Sink /\ Drained' = k
    <3>1. /\ sinkCursor \in 1..Len(SinkOrder)
          /\ Len(SinkOrder) \in Nat \ {0} /\ DOMAIN SinkOrder = 1..Len(SinkOrder)
      BY <1>1, OrderType DEF Types
    <3>2. Before(Turn(sinkCursor, Len(SinkOrder)), Len(SinkOrder)) = sinkCursor
      BY <3>1, BeforeTurn
    <3>3. sinkCursor' \in DOMAIN SinkOrder
      BY <2>1, <3>1, CursorType
    <3> QED
      BY <2>1, <3>1, <3>2, <3>3 DEF Drained, Sink
  <2>3. /\ store.settled[k] \in Nat /\ Len(store.log[k]) \in Nat
    BY <1>3, <2>2 DEF StoreOK
  <2>4. /\ loaded' \in [init : BOOLEAN, fresh : BOOLEAN, upto : Nat]
        /\ pc' = "intent" =>
             IF loaded'.init
             THEN ~loaded'.fresh => store.control[k] # "fresh"
             ELSE ~loaded'.fresh /\ loaded'.upto <= Len(store.log[k])
    <3>1. CASE loaded' = [init |-> TRUE, fresh |-> store.control[k] = "fresh",
                          upto |-> 0]
      BY <3>1
    <3>2. CASE \E n \in store.settled[k] + 1..Len(store.log[k]) :
                 loaded' = [init |-> FALSE, fresh |-> FALSE, upto |-> n]
      <4>1. PICK n \in store.settled[k] + 1..Len(store.log[k]) :
              loaded' = [init |-> FALSE, fresh |-> FALSE, upto |-> n]
        BY <3>2
      <4> QED
        BY <2>3, <4>1
    <3>3. CASE loaded' = Nothing /\ pc' \in {"finish", "fail"}
      BY <3>3 DEF Nothing
    <3> QED
      BY <1>4, <3>1, <3>2, <3>3 DEF Load
  <2>5. StoresSafe'
    BY <1>1, <2>1, SameSafe
  <2>6. Types'
    BY <1>1, <2>1, <2>2, <2>4 DEF Types, external, Phases
  <2>7. CaptureState'
    BY <1>1, <2>1, DrainKeeps
  <2>8. DrainState'
    BY <2>1, <2>2, <2>4 DEF DrainState
  <2> QED
    BY <2>5, <2>6, <2>7, <2>8 DEF IInv
<1>5. CASE Intent
  <2>1. pc = "intent" /\ UNCHANGED <<memory, external>> /\ Drained' = Drained
    BY <1>5 DEF Intent, Drained, memory, cursors
  <2>2. CASE /\ loaded.fresh
             /\ Commit(SetControl(store, Drained, "initialize"), "drainSync")
    <3> DEFINE t == SetControl(store, Drained, "initialize")
    <3>1. /\ Safe(t, acked, created, target) /\ t.captured = store.captured
          /\ t.control[Drained] = "initialize" /\ t.log = store.log
      BY <1>2, <1>3, ControlSafe
    <3> HIDE DEF t
    <3>2. Commit(t, "drainSync") /\ loaded.fresh
      BY <2>2 DEF t
    <3>3. \/ store' = t /\ pc' = "drainSync" /\ needsReopen' = needsReopen
          \/ pc' = "fail" /\ needsReopen' = TRUE
      BY <3>2 DEF Commit
    <3>4. StoresSafe'
      BY <1>1, <2>1, <3>1, <3>2, CommitSafe
    <3>5. Types'
      BY <1>1, <2>1, <3>3 DEF Types, memory, external, cursors, Phases
    <3>6. CaptureState'
      BY <1>1, <2>1, <3>1, <3>3, DrainKeeps DEF memory, cursors
    <3>7. DrainState'
      BY <1>1, <2>1, <3>1, <3>2, <3>3 DEF DrainState, memory
    <3> QED
      BY <3>4, <3>5, <3>6, <3>7 DEF IInv
  <2>3. CASE FailStop /\ UNCHANGED <<store, durable>>
    <3>1. StoresSafe'
      BY <1>1, <2>1, <2>3, SameSafe
    <3>2. Types'
      BY <1>1, <2>1, <2>3 DEF Types, FailStop, memory, external, cursors, Phases
    <3>3. CaptureState'
      BY <1>1, <2>1, <2>3, DrainKeeps DEF FailStop, memory, cursors
    <3> QED
      BY <2>3, <3>1, <3>2, <3>3 DEF IInv, DrainState, FailStop
  <2>4. CASE /\ ~loaded.fresh /\ pc' = "drainSync"
             /\ UNCHANGED <<store, durable, needsReopen>>
    <3>1. StoresSafe'
      BY <1>1, <2>1, <2>4, SameSafe
    <3>2. Types'
      BY <1>1, <2>1, <2>4 DEF Types, memory, external, cursors, Phases
    <3>3. CaptureState'
      BY <1>1, <2>1, <2>4, DrainKeeps DEF memory, cursors
    <3>4. DrainState'
      BY <1>1, <2>1, <2>4 DEF DrainState, memory
    <3> QED
      BY <3>1, <3>2, <3>3, <3>4 DEF IInv
  <2> QED
    BY <1>5, <2>2, <2>3, <2>4 DEF Intent
<1>6. CASE DrainSync
  <2>1. pc = "drainSync" /\ UNCHANGED <<memory, external>> /\ Drained' = Drained
        /\ Sync("deliver")
    BY <1>6 DEF DrainSync, Drained, memory, cursors
  <2>2. StoresSafe'
    BY <1>1, <2>1, SyncSafe
  <2>3. Types'
    BY <1>1, <2>1 DEF Sync, Types, memory, external, cursors, Phases
  <2>4. CaptureState'
    BY <1>1, <2>1, DrainKeeps DEF Sync, memory, cursors
  <2>5. DrainState'
    BY <1>1, <2>1 DEF DrainState, Sync, memory
  <2> QED
    BY <2>2, <2>3, <2>4, <2>5 DEF IInv
<1>7. CASE Deliver
  <2>1. /\ pc = "deliver" /\ UNCHANGED <<store, durable, memory, acked>>
        /\ Drained' = Drained /\ durable = {store}
        /\ \/ pc' = "settle" /\ needsReopen' = needsReopen
           \/ pc' = "fail" /\ needsReopen' = TRUE
    BY <1>1, <1>7 DEF Deliver, FailStop, Drained, memory, cursors, DrainState
  <2>2. /\ Safe(store, acked, created', target') /\ created' \subseteq Sink
        /\ target' \in [Sink -> Seq(Row)]
        /\ IF loaded.init THEN Drained \in created'
                          ELSE loaded.upto <= Len(target'[Drained])
    <3>1. CASE loaded.init
      <4>1. created' = created \cup {Drained} /\ target' = target
        BY <1>7, <3>1 DEF Deliver
      <4>2. store.control[Drained] # "fresh"
        BY <1>1, <2>1, <3>1 DEF DrainState
      <4> QED
        BY <1>1, <1>2, <1>3, <3>1, <4>1, <4>2 DEF Safe, Types
    <3>2. CASE ~loaded.init
      <4> DEFINE x == target[Drained]
                 y == store.log[Drained]
                 z == x \o SubSeq(y, Len(x) + 1, loaded.upto)
      <4>1. target' = [target EXCEPT ![Drained] = z] /\ created' = created
        BY <1>7, <3>2 DEF Deliver
      <4>2. target \in [Sink -> Seq(Row)] /\ created \subseteq Sink
        BY <1>1 DEF Types
      <4>3. /\ x \in Seq(Row) /\ y \in Seq(Row) /\ Prefix(x, y)
            /\ loaded.upto \in Nat /\ loaded.upto <= Len(y)
        BY <1>1, <1>2, <1>3, <2>1, <3>2, <4>2 DEF Safe, DrainState, Types
      <4>4. z \in Seq(Row) /\ Prefix(z, y) /\ loaded.upto <= Len(z)
            /\ Len(x) <= Len(z)
        BY <4>3, DeliverPrefix
      <4> HIDE DEF z
      <4>5. /\ target' \in [Sink -> Seq(Row)] /\ target'[Drained] = z
            /\ \A j \in Sink \ {Drained} : target'[j] = target[j]
        BY <1>2, <4>1, <4>2, <4>4
      <4>6. store.settled[Drained] <= Len(z)
        <5>1. store.settled[Drained] \in Nat /\ store.settled[Drained] <= Len(x)
          BY <1>2, <1>3 DEF Safe, StoreOK
        <5>2. Len(x) \in Nat /\ Len(z) \in Nat
          BY <4>3, <4>4
        <5> QED
          BY <4>4, <5>1, <5>2
      <4>7. Safe(store, acked, created, target')
        BY <1>3, <4>4, <4>5, <4>6 DEF Safe
      <4> QED
        BY <3>2, <4>1, <4>2, <4>4, <4>5, <4>7
    <3> QED
      BY <3>1, <3>2
  <2>3. StoresSafe'
    BY <2>1, <2>2 DEF StoresSafe
  <2>4. Types'
    BY <1>1, <2>1, <2>2 DEF Types, memory, cursors, Phases
  <2>5. CaptureState'
    BY <1>1, <2>1, DrainKeeps DEF memory, cursors
  <2>6. DrainState'
    BY <1>1, <2>1, <2>2 DEF DrainState, memory
  <2> QED
    BY <2>3, <2>4, <2>5, <2>6 DEF IInv
<1>8. CASE DeliverFails \/ SettleFails
  <2>1. /\ pc \in {"deliver", "settle"} /\ FailStop
        /\ UNCHANGED <<store, durable, memory, external>>
    BY <1>8 DEF DeliverFails, SettleFails
  <2>2. StoresSafe'
    BY <1>1, <2>1, SameSafe
  <2>3. Types'
    BY <1>1, <2>1 DEF Types, FailStop, memory, external, cursors, Phases
  <2>4. CaptureState'
    BY <1>1, <2>1, DrainKeeps DEF FailStop, memory, cursors
  <2> QED
    BY <2>1, <2>2, <2>3, <2>4 DEF IInv, DrainState, FailStop
<1>9. CASE Settle
  <2> DEFINE t == IF loaded.init THEN SetControl(store, Drained, "ready")
                                 ELSE ForgetUpTo(store, Drained, loaded.upto)
  <2>1. Safe(t, acked, created, target) /\ t.captured = store.captured
    <3>1. CASE loaded.init
      <4>1. Drained \in created
        BY <1>1, <1>9, <3>1 DEF Settle, DrainState
      <4>2. t = SetControl(store, Drained, "ready")
        BY <3>1
      <4> HIDE DEF t
      <4> QED
        BY <1>2, <1>3, <4>1, <4>2, ControlSafe
    <3>2. CASE ~loaded.init
      <4>1. loaded.upto \in Nat /\ loaded.upto <= Len(target[Drained])
        BY <1>1, <1>9, <3>2 DEF Settle, DrainState, Types
      <4>2. t = ForgetUpTo(store, Drained, loaded.upto)
        BY <3>2
      <4> HIDE DEF t
      <4> QED
        BY <1>2, <1>3, <4>1, <4>2, ForgetSafe
    <3> QED
      BY <3>1, <3>2
  <2>2. pc = "settle" /\ Commit(t, "finish") /\ UNCHANGED <<memory, external>>
    BY <1>9 DEF Settle
  <2> HIDE DEF t
  <2>3. \/ store' = t /\ pc' = "finish" /\ needsReopen' = needsReopen
        \/ pc' = "fail" /\ needsReopen' = TRUE
    BY <2>2 DEF Commit
  <2>4. StoresSafe'
    BY <1>1, <2>1, <2>2, CommitSafe
  <2>5. Types'
    BY <1>1, <2>2, <2>3 DEF Types, memory, external, cursors, Phases
  <2>6. CaptureState'
    BY <1>1, <2>1, <2>2, <2>3, DrainKeeps DEF memory, cursors
  <2> QED
    BY <2>3, <2>4, <2>5, <2>6 DEF IInv, DrainState
<1> QED
  BY <1>4, <1>5, <1>6, <1>7, <1>8, <1>9 DEF Drain

-----------------------------------------------------------------------------
(* The theorems.                                                           *)

LEMMA NothingType == Nothing \in [init : BOOLEAN, fresh : BOOLEAN, upto : Nat]
  BY DEF Nothing

LEMMA InitInv == Init => IInv
<1> SUFFICES ASSUME Init PROVE IInv
  OBVIOUS
<1> DEFINE s == EmptyStore
<1>1. /\ s.controls = [d \in {} |-> 0] /\ s.outputs = [d \in {} |-> 0]
      /\ s.captured = [src \in Source |-> 0]
      /\ s.consumed = [src \in Source |-> 0]
      /\ s.log = [k \in Sink |-> <<>>] /\ s.control = [k \in Sink |-> "fresh"]
      /\ s.settled = [k \in Sink |-> 0]
      /\ s = [controls |-> s.controls, outputs |-> s.outputs,
              captured |-> s.captured, consumed |-> s.consumed, log |-> s.log,
              control |-> s.control, settled |-> s.settled]
  BY DEF EmptyStore
<1> HIDE DEF s
<1>2. DOMAIN s.controls = {} /\ DOMAIN s.outputs = {}
  BY <1>1
<1>3. StoreOK(s)
  <2>1. /\ DOMAIN s.controls \subseteq 0..(MaxDepth - 1)
        /\ s.controls \in [DOMAIN s.controls -> Frame]
        /\ s.outputs \in [DOMAIN s.outputs -> Change]
    BY <1>1, <1>2
  <2>2. /\ s.captured \in [Source -> Nat] /\ s.consumed \in [Source -> Nat]
        /\ s.log \in [Sink -> Seq(Row)]
        /\ s.control \in [Sink -> {"fresh", "initialize", "ready"}]
        /\ s.settled \in [Sink -> Nat]
    BY <1>1
  <2> QED
    BY <1>1, <2>1, <2>2, StoreParts
<1>4. Counted(s)
  BY <1>1, DataAssumption DEF Counted
<1>5. ValidFrames(s)
  <2>1. 0 \in 0..MaxDepth /\ DOMAIN s.controls = 0..(0 - 1)
    BY <1>2, TopologyAssumption
  <2> QED
    BY <1>2, <2>1 DEF ValidFrames
<1>6. Good(s)
  BY <1>2, <1>3, <1>4, <1>5 DEF Good
<1>7. Safe(s, acked, created, target)
  BY <1>1, <1>6 DEF Safe, Init, Prefix
<1>8. StoresSafe
  BY <1>7 DEF StoresSafe, Init, s
<1>9. Types
  <2>1. 0 \in 0..StackActions /\ 1 \in DOMAIN SourceOrder /\ 1 \in DOMAIN SinkOrder
    BY OrderType, BoundAssumption
  <2>2. target \in [Sink -> Seq(Row)] /\ created \subseteq Sink
    BY DEF Init
  <2>3. pending \in [Source -> Nat] /\ acked \in [Source -> Nat]
    BY DEF Init
  <2>4. /\ left \in 0..StackActions
        /\ sourceCursor \in DOMAIN SourceOrder /\ rootCursor \in DOMAIN SourceOrder
        /\ sinkCursor \in DOMAIN SinkOrder
    BY <2>1 DEF Init
  <2>5. /\ pc \in Phases /\ needsReopen \in BOOLEAN
        /\ failed \in Source \cup {NoSource}
        /\ loaded \in [init : BOOLEAN, fresh : BOOLEAN, upto : Nat]
    BY NothingType DEF Init, Phases
  <2> QED
    BY <2>2, <2>3, <2>4, <2>5 DEF Types
<1>10. CaptureState
  BY DEF CaptureState, PendingNext, Init
<1>11. DrainState
  BY DEF DrainState, Init
<1> QED
  BY <1>8, <1>9, <1>10, <1>11 DEF IInv

LEMMA NextInv == IInv /\ [Next]_vars => IInv'
<1> SUFFICES ASSUME IInv, [Next]_vars PROVE IInv'
  OBVIOUS
<1>1. StoresSafe /\ Types /\ CaptureState /\ DrainState
  BY DEF IInv
<1>2. CASE Capture
  BY <1>2, CaptureStep
<1>3. CASE Stack
  BY <1>3, StackPhase
<1>4. CASE Drain
  BY <1>4, DrainStep
<1>5. CASE Finish
  <2>1. /\ pc \in {"finish", "fail"} /\ left' = 0 /\ loaded' = Nothing
        /\ UNCHANGED <<store, cursors, pending, failed, external>>
        /\ \/ /\ needsReopen' = needsReopen
              /\ pc' = (IF pc = "finish" THEN "idle" ELSE "error")
              /\ durable' = (IF needsReopen THEN durable ELSE {store})
           \/ needsReopen' = TRUE /\ pc' = "error" /\ durable' = durable
    BY <1>5 DEF Finish
  <2>2. StoresSafe'
    BY <1>1, <2>1 DEF StoresSafe, external
  <2>3. Types'
    <3>1. left' \in 0..StackActions
      BY <2>1, BoundAssumption
    <3> QED
      BY <1>1, <2>1, <3>1, NothingType DEF Types, cursors, external, Phases
  <2>4. CaptureState'
    BY <1>1, <2>1 DEF CaptureState, PendingNext
  <2> QED
    BY <2>1, <2>2, <2>3, <2>4 DEF IInv, DrainState
<1>6. CASE GoDown
  <2>1. PICK s \in durable : store' = s /\ durable' = {s}
    BY <1>6 DEF GoDown
  <2>2. pc' = "down" /\ needsReopen' = FALSE /\ Restart /\ UNCHANGED external
    BY <1>6 DEF GoDown
  <2>3. StoresSafe'
    BY <1>1, <2>1, <2>2 DEF StoresSafe, external
  <2>4. Types'
    <3>1. 0 \in 0..StackActions /\ 1 \in DOMAIN SourceOrder /\ 1 \in DOMAIN SinkOrder
      BY OrderType, BoundAssumption
    <3> QED
      BY <1>1, <2>2, <3>1, NothingType DEF Types, Restart, Phases, external
  <2>5. CaptureState'
    BY <2>1, <2>2 DEF CaptureState, PendingNext, Restart
  <2> QED
    BY <2>2, <2>3, <2>4, <2>5 DEF IInv, DrainState
<1>7. CASE Open
  <2>1. /\ pc = "down" /\ pc' = "idle"
        /\ UNCHANGED <<store, durable, memory, needsReopen, external>>
    BY <1>7 DEF Open
  <2>2. StoresSafe'
    BY <1>1, <2>1, SameSafe
  <2>3. Types'
    BY <1>1, <2>1 DEF Types, memory, external, cursors, Phases
  <2>4. CaptureState'
    BY <1>1, <2>1 DEF CaptureState, PendingNext, memory
  <2> QED
    BY <2>1, <2>2, <2>3, <2>4 DEF IInv, DrainState
<1>8. CASE Refuse
  <2>1. /\ pc \in {"record", "stack", "intent"} /\ pc' = "fail"
        /\ UNCHANGED <<store, durable, left, sourceCursor, sinkCursor, pending, loaded,
                       failed, needsReopen, external>>
    BY <1>8 DEF Refuse
  <2>2. StoresSafe'
    BY <1>1, <2>1, SameSafe
  <2>3. rootCursor' \in DOMAIN SourceOrder
    <3>1. PICK n \in 0..Len(SourceOrder) : rootCursor' = RootTurn(n)
      BY <1>8 DEF Refuse
    <3>2. n \in Nat
      BY OrderType
    <3> QED
      BY <1>1, <3>1, <3>2, RootType DEF Types
  <2>4. Types'
    BY <1>1, <2>1, <2>3 DEF Types, external, Phases
  <2>5. CaptureState'
    BY <1>1, <2>1 DEF CaptureState, PendingNext
  <2> QED
    BY <2>1, <2>2, <2>4, <2>5 DEF IInv, DrainState
<1>9. CASE UNCHANGED vars
  <2>1. /\ UNCHANGED <<store, durable, pc, left, sourceCursor, rootCursor, sinkCursor,
                       pending, loaded, failed, needsReopen, acked, created, target>>
    BY <1>9 DEF vars, memory, cursors, external
  <2>2. StoresSafe' /\ Types'
    BY <1>1, <2>1 DEF StoresSafe, Types
  <2>3. CaptureState' /\ DrainState'
    BY <1>1, <2>1 DEF CaptureState, PendingNext, DrainState, Serviced, Drained
  <2> QED
    BY <2>2, <2>3 DEF IInv
<1> QED
  BY <1>2, <1>3, <1>4, <1>5, <1>6, <1>7, <1>8, <1>9 DEF Next, Round, Crash, Exit

\* The inductive invariant holds in every reachable state.
THEOREM Invariance == Spec => []IInv
  BY InitInv, NextInv, PTL DEF Spec

\* Every variable keeps its type: no counter leaves its range in any round.
THEOREM TypeCorrect == Spec => []TypeOK
<1>1. IInv => TypeOK
  BY DEF IInv, StoresSafe, Safe, Good, Types, TypeOK
<1> QED
  BY <1>1, Invariance, PTL

\* open() accepts whatever store a crash of the runtime left behind.
THEOREM RestoreNeverRefuses == Spec => []RestoreAccepts
<1>1. IInv => RestoreAccepts
  BY DEF IInv, StoresSafe, Safe, Good, RestoreAccepts
<1> QED
  BY <1>1, Invariance, PTL

\* No ACK and no delivered row is ahead of what survives a crash.
THEOREM ExternalEffectsAreDurable == Spec => []EffectsAreDurable
<1>1. IInv => EffectsAreDurable
  BY DEF IInv, StoresSafe, Safe, Types, EffectsAreDurable
<1> QED
  BY <1>1, Invariance, PTL

\* An outbox forgets only rows its target has.
THEOREM NothingSettledUndelivered == Spec => []SettledIsDelivered
<1>1. IInv => SettledIsDelivered
  BY DEF IInv, StoresSafe, Safe, SettledIsDelivered
<1> QED
  BY <1>1, Invariance, PTL

\* A root that failed without a reopen is active in what a restart finds.
THEOREM FailedRootStays == Spec => []FailedRootIsPinned
<1>1. IInv => FailedRootIsPinned
  BY DEF IInv, CaptureState, FailedRootIsPinned
<1> QED
  BY <1>1, Invariance, PTL
=============================================================================
