---------------------------- MODULE ConsoleProofs ----------------------------
(***************************************************************************)
(* Proofs about console output for every set of writers, FIFO length, text *)
(* and bound.                                                              *)
(***************************************************************************)
EXTENDS Console, FiniteSetTheorems, TLAPS

\* A character of a text is one of the characters of TypeOK.
LEMMA TextBytes ==
  ASSUME NEW t \in Texts, NEW n \in 1 .. Len(t)
  PROVE  t[n] \in Chars
BY TextsAssumption DEF ToSet, Chars

\* The elements of a sequence after an append.
LEMMA AppendElements ==
  ASSUME NEW S, NEW s \in Seq(S), NEW e
  PROVE  \A n \in DOMAIN Append(s, e) :
           (n \in DOMAIN s /\ Append(s, e)[n] = s[n]) \/ Append(s, e)[n] = e
OBVIOUS

\* The transmitter's part of TypeOK is kept.
LEMMA LineStep == TypeOK /\ [Next]_vars => LineOK'
<1> SUFFICES ASSUME TypeOK, [Next]_vars PROVE LineOK'
  OBVIOUS
<1> USE DEF TypeOK, LineOK
<1>1. CASE Shift
  <2> DEFINE started == [byte |-> Head(fifo), pin |-> pin, baud |-> baud]
             sent == [start |-> shifter[1],
                      clean |-> pin = shifter[1].pin /\ baud = shifter[1].baud]
  <2>1. CASE shifter = <<>> /\ fifo # <<>>
    <3>1. Head(fifo) \in Bytes /\ Tail(fifo) \in Seq(Bytes)
      BY <2>1
    <3>2. started \in Started
      BY <3>1 DEF Started, UartOK
    <3>3. <<started>> \in Seq(Started) /\ Len(<<started>>) <= 1
      BY <3>2
    <3> QED
      BY <1>1, <2>1, <3>1, <3>3 DEF Shift
  <2>2. CASE shifter # <<>>
    <3>1. shifter[1] \in Started
      BY <2>2
    <3>2. sent \in [start : Started, clean : BOOLEAN]
      BY <3>1
    <3>3. Append(wire, sent) \in Seq([start : Started, clean : BOOLEAN])
      BY <3>2
    <3>4. wire' = Append(wire, sent) /\ shifter' = <<>> /\ UNCHANGED <<fifo, lost>>
      BY <1>1, <2>2, Zenon DEF Shift
    <3> HIDE DEF sent
    <3> QED
      BY <3>3, <3>4
  <2> QED
    BY <1>1, <2>1, <2>2 DEF Shift
<1>2. CASE AppSend
  <2>1. [by |-> App, c |-> "x", red |-> FALSE] \in Bytes
    BY DEF Bytes, Chars
  <2> QED
    BY <1>2, <2>1 DEF AppSend
<1>3. ASSUME NEW w \in Writers, Push(w) PROVE LineOK'
  <2>1. NextByte(w) \in Bytes
    <3>1. text[w] \in Texts \cup {<<>>} /\ pos[w] \in Nat \ {0} /\ pos[w] <= Len(text[w])
      BY <1>3 DEF Push, CallsOK
    <3>2. text[w][pos[w]] \in Chars
      BY <3>1, TextBytes
    <3>3. Redirects(w) \in BOOLEAN /\ CR \in Chars
      BY DEF Redirects, CallsOK, Chars
    <3> QED
      BY <3>2, <3>3 DEF NextByte, Bytes
  <2>2. Append(fifo, NextByte(w)) \in Seq(Bytes) /\ lost \cup {NextByte(w)} \subseteq Bytes
    BY <2>1
  <2> QED
    BY <1>3, <2>2 DEF Push
<1>4. ASSUME NEW w \in Writers, NEW p, NEW q, Reset(w, p, q) PROVE LineOK'
  <2>1. ToSet(fifo) \subseteq Bytes
    BY DEF ToSet
  <2> QED
    BY <1>4, <2>1 DEF Reset
<1>5. CASE UNCHANGED <<fifo, shifter, wire, lost>>
  BY <1>5
<1>6. ASSUME NEW w \in Writers, Borrow(w) \/ Restore(w)
      PROVE  \/ UNCHANGED <<fifo, shifter, wire, lost>>
             \/ \E p, q : Reset(w, p, q)
  BY <1>6 DEF Borrow, Restore, Take, WaitEmpty, Delay, Route, SetBaud, Give, hwVars
<1>7. ASSUME NEW w \in Writers, Call(w) \/ Sample(w) \/ Space(w) \/ EndText(w)
      PROVE  UNCHANGED <<fifo, shifter, wire, lost>>
  BY <1>7 DEF Call, Sample, Space, EndText, hwVars
<1> QED
  BY <1>1, <1>2, <1>3, <1>4, <1>5, <1>6, <1>7 DEF Next, Write, vfs_init, AppSetup, vars, hwVars

\* The two flags stay Boolean.
LEMMA FlagsStep == FlagsOK /\ [Next]_vars => FlagsOK'
<1> SUFFICES ASSUME FlagsOK, [Next]_vars PROVE FlagsOK'
  OBVIOUS
<1> USE DEF FlagsOK
<1>1. CASE vfs_init
  BY <1>1, Zenon DEF vfs_init, ghosts
<1>2. ASSUME NEW w \in Writers, Sample(w) PROVE FlagsOK'
  <2>1. raced' \in BOOLEAN
    BY <1>2, Zenon DEF Sample
  <2> QED
    BY <1>2, <2>1, Zenon DEF Sample
<1>3. CASE UNCHANGED <<g_mutex, raced>>
  BY <1>3
<1>4. ASSUME NEW w \in Writers, Write(w), ~Sample(w) PROVE UNCHANGED <<g_mutex, raced>>
  BY <1>4 DEF Write, Borrow, Restore, Take, WaitEmpty, Delay, Route, SetBaud, Reset, Give,
     Space, Push, EndText, ghosts
<1> QED
  BY <1>1, <1>2, <1>3, <1>4 DEF Next, vars, ghosts, Call, Shift, AppSetup, AppSend

\* The rest of TypeOK is kept.
LEMMA CallsStep == TypeOK /\ [Next]_vars => UartOK' /\ CallsOK'
<1> SUFFICES ASSUME TypeOK, [Next]_vars PROVE UartOK' /\ CallsOK'
  OBVIOUS
<1> USE DEF TypeOK, UartOK, CallsOK, Goto, hwVars, callVars, ghosts, Pins
<1> ConsoleBaud \in Bauds
  BY DEF Bauds
<1>0. CASE AppSetup
  <2>1. uart0_tx' \in Pins /\ pin' \in Pins
    BY <1>0 DEF AppSetup
  <2>2. baud' \in Bauds
    BY <1>0 DEF AppSetup, Bauds
  <2> QED
    BY <1>0, <2>1, <2>2 DEF AppSetup
<1>1. CASE vfs_init \/ Shift \/ AppSend
  BY <1>1 DEF vfs_init, Shift, AppSend
<1>2. ASSUME NEW w \in Writers, Call(w) \/ Sample(w) PROVE UartOK' /\ CallsOK'
  <2>1. mutex' \in [Writers -> BOOLEAN]
    BY <1>2, Zenon DEF Call, Sample, FlagsOK
  <2>2. CASE Call(w)
    <3>1. /\ pc' = [pc EXCEPT ![w] = "sample"] /\ pos' \in [Writers -> Nat \ {0}]
          /\ writes' \in [Writers -> Nat] /\ text' \in [Writers -> Texts \cup {<<>>}]
      BY <2>2 DEF Call
    <3>2. cr' \in [Writers -> BOOLEAN] /\ UartOK' /\ baudrate' = baudrate
      BY <2>2 DEF Call
    <3>3. \A v \in Writers : pc'[v] = "push" => pos'[v] <= Len(text'[v])
      BY <2>2 DEF Call
    <3> QED
      BY <2>1, <3>1, <3>2, <3>3
  <2>3. CASE Sample(w)
    <3>1. pc' = [pc EXCEPT ![w] = "take"] \/ pc' = [pc EXCEPT ![w] = "space"]
      BY <2>3 DEF Sample
    <3>2. baudrate' \in [Writers -> Bauds] /\ UNCHANGED <<text, pos, cr, writes>>
      BY <2>3 DEF Sample
    <3>3. UartOK'
      BY <2>3 DEF Sample
    <3> QED
      BY <2>1, <3>1, <3>2, <3>3
  <2> QED
    BY <1>2, <2>2, <2>3
<1>3. ASSUME NEW w \in Writers, Borrow(w) PROVE UartOK' /\ CallsOK'
  BY <1>3 DEF Borrow, Take, WaitEmpty, Delay, Route, SetBaud, Reset, Borrowing
<1>4. ASSUME NEW w \in Writers, Space(w) \/ EndText(w) PROVE UartOK' /\ CallsOK'
  BY <1>4 DEF Space, EndText, Borrowing
<1>5. ASSUME NEW w \in Writers, Push(w) PROVE UartOK' /\ CallsOK'
  <2>1. BeforeLF(w) \in BOOLEAN
    BY DEF BeforeLF
  <2>2. cr' \in [Writers -> BOOLEAN] /\ pos' \in [Writers -> Nat \ {0}]
    BY <1>5, <2>1 DEF Push
  <2> QED
    BY <1>5, <2>2 DEF Push
<1>6. ASSUME NEW w \in Writers, Restore(w) PROVE UartOK' /\ CallsOK'
  <2> USE DEF Borrowing
  <2>1. CASE WaitEmpty(w, "drain2", "delay2") \/ Delay(w, "delay2", "route2")
    BY <2>1 DEF WaitEmpty, Delay
  <2>2. CASE Route(w, "route2", uart0_tx, "speed2")
    BY <2>2 DEF Route
  <2>3. CASE SetBaud(w, "speed2", baudrate[w], "reset2")
    BY <2>3 DEF SetBaud
  <2>4. CASE Reset(w, "reset2", "give") \/ Give(w)
    BY <2>4 DEF Reset, Give
  <2> QED
    BY <1>6, <2>1, <2>2, <2>3, <2>4 DEF Restore
<1>7. CASE UNCHANGED vars
  BY <1>7 DEF vars
<1> QED
  BY <1>0, <1>1, <1>2, <1>3, <1>4, <1>5, <1>6, <1>7 DEF Next, Write

\* Type correctness: every variable keeps its type and no write is about to
\* push past the end of its text.
THEOREM TypeCorrect == Spec => []TypeOK
<1>1. Init => TypeOK
  <2>1. Init => LineOK
    BY DEF Init, LineOK
  <2>2. Init => UartOK
    BY DEF Init, UartOK, Pins, Bauds
  <2>4. Init => FlagsOK
    BY Zenon DEF Init, FlagsOK
  <2>3. Init => CallsOK
    <3> SUFFICES ASSUME Init PROVE CallsOK
      OBVIOUS
    <3>1. pc \in [Writers -> {"idle", "sample", "take", "space", "push"} \cup Borrowing]
      BY DEF Init
    <3>2. baudrate \in [Writers -> Bauds] /\ pos \in [Writers -> Nat \ {0}]
          /\ writes \in [Writers -> Nat]
      BY DEF Init, Bauds
    <3>3. text \in [Writers -> Texts \cup {<<>>}]
      BY DEF Init
    <3>4. mutex \in [Writers -> BOOLEAN] /\ cr \in [Writers -> BOOLEAN]
      BY DEF Init
    <3>5. \A w \in Writers : pc[w] # "push"
      BY DEF Init
    <3> QED
      BY <3>1, <3>2, <3>3, <3>4, <3>5 DEF CallsOK
  <2> QED
    BY <2>1, <2>2, <2>3, <2>4 DEF TypeOK
<1>2. TypeOK /\ [Next]_vars => TypeOK'
  BY LineStep, FlagsStep, CallsStep DEF TypeOK
<1> QED
  BY <1>1, <1>2, PTL DEF Spec

-----------------------------------------------------------------------------
(* The mutex.                                                              *)

\* Inductive form of Exclusion: only redirecting writes get past the mutex,
\* and whoever has the UART owns it.
Locked ==
  /\ \A w \in Writers : pc[w] \in {"take"} \cup Borrowing => Redirects(w)
  /\ \A w \in Writers : Holds(w) => owner = w

\* Every step keeps the inductive form of mutual exclusion.
LEMMA LockStep == TypeOK /\ Locked /\ [Next]_vars => Locked'
<1> SUFFICES ASSUME TypeOK, Locked, [Next]_vars PROVE Locked'
  OBVIOUS
<1> USE DEF TypeOK, CallsOK, UartOK, Locked, Holds, Redirects, Borrowing, Goto
<1>1. CASE vfs_init \/ Shift \/ AppSetup \/ AppSend
  BY <1>1 DEF vfs_init, Shift, AppSetup, AppSend, hwVars, callVars, ghosts
<1>2. ASSUME NEW w \in Writers, Call(w) PROVE Locked'
  BY <1>2 DEF Call
<1>3. ASSUME NEW w \in Writers, Sample(w) PROVE Locked'
  BY <1>3 DEF Sample
<1>4. ASSUME NEW w \in Writers, Take(w) PROVE Locked'
  BY <1>4, WritersAssumption DEF Take, callVars
<1>5. ASSUME NEW w \in Writers, Borrow(w), ~Take(w) PROVE Locked'
  <2>1. /\ pc[w] \in Borrowing /\ UNCHANGED <<owner, uart0_tx, mutex>>
        /\ \E p \in Borrowing \cup {"space"} : pc' = [pc EXCEPT ![w] = p]
    BY <1>5 DEF Borrow, WaitEmpty, Delay, Route, SetBaud, Reset, callVars
  <2> QED
    BY <2>1
<1>6. ASSUME NEW w \in Writers, Space(w) \/ Push(w) \/ EndText(w) PROVE Locked'
  BY <1>6 DEF Space, Push, EndText, callVars
<1>7. ASSUME NEW w \in Writers, Restore(w) PROVE Locked'
  <2>1. CASE Give(w)
    BY <1>7, <2>1 DEF Give, callVars
  <2>2. CASE ~Give(w)
    <3>1. /\ pc[w] \in Borrowing /\ UNCHANGED <<owner, uart0_tx, mutex>>
          /\ \E p \in Borrowing : pc' = [pc EXCEPT ![w] = p]
      BY <1>7, <2>2 DEF Restore, WaitEmpty, Delay, Route, SetBaud, Reset, callVars
    <3> QED
      BY <3>1
  <2> QED
    BY <2>1, <2>2
<1>8. CASE UNCHANGED vars
  BY <1>8 DEF vars, callVars
<1> QED
  BY <1>1, <1>2, <1>3, <1>4, <1>5, <1>6, <1>7, <1>8 DEF Next, Write

\* ... so it is an invariant.
LEMMA LockInvariant == Spec => []Locked
<1>1. Init => Locked
  BY DEF Init, Locked, Holds, Borrowing
<1> QED
  BY <1>1, LockStep, TypeCorrect, PTL DEF Spec

\* One console write at a time has the UART, for any number of writers.
THEOREM MutualExclusion == Spec => []Exclusion
<1>1. Locked => Exclusion
  BY DEF Locked, Exclusion
<1> QED
  BY <1>1, LockInvariant, PTL

-----------------------------------------------------------------------------
(* The FIFO.                                                               *)

\* Two writers that do not exclude each other never overrun the FIFO between
\* the test for two places and the write of one byte, whatever its length.
THEOREM RoomForTwo == Spec => []FifoRoom
<1>1. Init => FifoRoom
  BY DEF Init, FifoRoom
<1>2. TypeOK /\ FifoRoom /\ [Next]_vars => FifoRoom'
  <2> SUFFICES ASSUME TypeOK, FifoRoom, [Next]_vars, AtMostTwo PROVE FifoRoom'
    BY DEF FifoRoom, AtMostTwo
  <2> USE FifoAssumption DEF TypeOK, CallsOK, LineOK, FifoRoom, Goto
  <2>1. CASE vfs_init \/ AppSetup \/ AppSend
    BY <2>1 DEF vfs_init, AppSetup, AppSend, hwVars
  <2>2. CASE Shift
    <3>1. fifo' = fifo \/ Len(fifo') = Len(fifo) - 1
      BY <2>2 DEF Shift
    <3> QED
      BY <2>2, <3>1 DEF Shift
  <2>3. ASSUME NEW w \in Writers, Call(w) \/ Sample(w) \/ Space(w) \/ EndText(w)
        PROVE  FifoRoom'
    <3>1. CASE Call(w) \/ Sample(w)
      BY <3>1 DEF Call, Sample, hwVars
    <3>2. CASE Space(w)
      BY <3>2 DEF Space, hwVars
    <3>3. CASE EndText(w)
      BY <3>3 DEF EndText, hwVars
    <3> QED
      BY <2>3, <3>1, <3>2, <3>3
  <2>4. ASSUME NEW w \in Writers, Push(w) PROVE FifoRoom'
    <3>1. Len(fifo') <= Len(fifo) + 1
      BY <2>4 DEF Push
    <3> QED
      BY <2>4, <3>1 DEF Push, AtMostTwo
  <2>5. ASSUME NEW w \in Writers, Borrow(w) \/ Restore(w) PROVE FifoRoom'
    <3>1. fifo' = fifo \/ fifo' = <<>>
      BY <2>5 DEF Borrow, Restore, Take, WaitEmpty, Delay, Route, SetBaud, Reset, Give, hwVars
    <3>2. \A v \in Writers : pc'[v] = "push" => pc[v] = "push"
      BY <2>5 DEF Borrow, Restore, Take, WaitEmpty, Delay, Route, SetBaud, Reset, Give
    <3> QED
      BY <3>1, <3>2
  <2>6. CASE UNCHANGED vars
    BY <2>6 DEF vars, hwVars
  <2> QED
    BY <2>1, <2>2, <2>3, <2>4, <2>5, <2>6 DEF Next, Write
<1> QED
  BY <1>1, <1>2, TypeCorrect, PTL DEF Spec

-----------------------------------------------------------------------------
(* The pin and the speed.                                                  *)

\* The stretches of a redirected write during which the UART is routed to
\* the console pin, and runs at the console speed.
Sending(w) == pc[w] \in {"space", "push"} /\ Redirects(w)
OnConsolePin(w) == pc[w] \in {"speed", "reset", "drain2", "delay2", "route2"} \/ Sending(w)
AtConsoleSpeed(w) == pc[w] \in {"reset", "drain2", "delay2", "route2", "speed2"} \/ Sending(w)

PinInv ==
  /\ owner = None => pin = uart0_tx
  /\ \A w \in Writers : OnConsolePin(w) => pin = U0TXD
  /\ \A w \in Writers : Holds(w) /\ ~OnConsolePin(w) => pin = uart0_tx

\* The speed a write puts back is the one it sampled; without a race that is
\* the application's.
SpeedInv ==
  /\ owner = None => raced \/ baud = Wanted
  /\ \A w \in Writers : AtConsoleSpeed(w) => baud = ConsoleBaud
  /\ \A w \in Writers : Holds(w) /\ ~AtConsoleSpeed(w) => raced \/ baud = Wanted
  /\ \A w \in Writers : Redirects(w) /\ pc[w] \notin {"idle", "sample"} =>
       raced \/ baudrate[w] = Wanted

\* Every step keeps the relation between the routed pin and the writers.
LEMMA PinStep == TypeOK /\ Locked /\ PinInv /\ [Next]_vars => PinInv'
<1> SUFFICES ASSUME TypeOK, Locked, PinInv, [Next]_vars PROVE PinInv'
  OBVIOUS
<1> USE DEF TypeOK, CallsOK, UartOK, Locked, Holds, Redirects, Borrowing, Goto, PinInv,
        Sending, OnConsolePin
<1>1. CASE vfs_init \/ Shift \/ AppSetup \/ AppSend
  BY <1>1 DEF vfs_init, Shift, AppSetup, AppSend, hwVars, callVars
<1>2. ASSUME NEW w \in Writers, Call(w) \/ Sample(w) PROVE PinInv'
  <2>1. CASE Call(w)
    BY <2>1 DEF Call, hwVars
  <2>2. CASE Sample(w)
    BY <2>2 DEF Sample, hwVars
  <2> QED
    BY <1>2, <2>1, <2>2
<1>3. ASSUME NEW w \in Writers, Take(w) PROVE PinInv'
  BY <1>3, WritersAssumption DEF Take, hwVars, callVars
<1>4. ASSUME NEW w \in Writers, Borrow(w), ~Take(w) PROVE PinInv'
  BY <1>4, WritersAssumption DEF Borrow, WaitEmpty, Delay, Route, SetBaud, Reset, hwVars, callVars
<1>5. ASSUME NEW w \in Writers, Space(w) \/ Push(w) \/ EndText(w) PROVE PinInv'
  BY <1>5 DEF Space, Push, EndText, hwVars, callVars
<1>6. ASSUME NEW w \in Writers, Restore(w) PROVE PinInv'
  <2>1. CASE WaitEmpty(w, "drain2", "delay2") \/ Delay(w, "delay2", "route2")
    BY <2>1, WritersAssumption DEF WaitEmpty, Delay, hwVars, callVars
  <2>2. CASE Route(w, "route2", uart0_tx, "speed2")
    BY <2>2, WritersAssumption DEF Route, hwVars, callVars
  <2>3. CASE SetBaud(w, "speed2", baudrate[w], "reset2")
    BY <2>3, WritersAssumption DEF SetBaud, hwVars, callVars
  <2>4. CASE Reset(w, "reset2", "give")
    BY <2>4, WritersAssumption DEF Reset, hwVars, callVars
  <2>5. CASE Give(w)
    BY <2>5, WritersAssumption DEF Give, hwVars, callVars
  <2> QED
    BY <1>6, <2>1, <2>2, <2>3, <2>4, <2>5 DEF Restore
<1>7. CASE UNCHANGED vars
  BY <1>7 DEF vars, hwVars, callVars
<1> QED
  BY <1>1, <1>2, <1>3, <1>4, <1>5, <1>6, <1>7 DEF Next, Write

\* Every step keeps the relation between the speed and the writers.
LEMMA SpeedStep == TypeOK /\ Locked /\ SpeedInv /\ [Next]_vars => SpeedInv'
<1> SUFFICES ASSUME TypeOK, Locked, SpeedInv, [Next]_vars PROVE SpeedInv'
  OBVIOUS
<1> USE DEF TypeOK, CallsOK, UartOK, Locked, Holds, Redirects, Borrowing, Goto, SpeedInv,
        Sending, AtConsoleSpeed, Wanted
<1>1. CASE vfs_init \/ Shift \/ AppSetup \/ AppSend
  BY <1>1 DEF vfs_init, Shift, AppSetup, AppSend, hwVars, callVars, ghosts
<1>2. ASSUME NEW w \in Writers, Call(w) PROVE SpeedInv'
  BY <1>2 DEF Call, hwVars
<1>3. ASSUME NEW w \in Writers, Sample(w) PROVE SpeedInv'
  <2>1. raced => raced'
    BY <1>3, Zenon DEF Sample
  <2>2. owner # None /\ Redirects(w) => raced'
    BY <1>3, Zenon DEF Sample
  <2> QED
    BY <1>3, <2>1, <2>2 DEF Sample, hwVars
<1>4. ASSUME NEW w \in Writers, Take(w) PROVE SpeedInv'
  BY <1>4, WritersAssumption DEF Take, hwVars, callVars, ghosts
<1>5. ASSUME NEW w \in Writers, Borrow(w), ~Take(w) PROVE SpeedInv'
  <2>1. CASE WaitEmpty(w, "drain", "delay") \/ Delay(w, "delay", "route")
    <3>1. /\ \/ pc[w] = "drain" /\ pc' = [pc EXCEPT ![w] = "delay"]
             \/ pc[w] = "delay" /\ pc' = [pc EXCEPT ![w] = "route"]
          /\ UNCHANGED <<owner, uart0_tx, baud, mutex, baudrate, raced>>
      BY <2>1 DEF WaitEmpty, Delay, hwVars, callVars, ghosts
    <3> QED
      BY <3>1, ZenonT(40)
  <2>2. CASE Route(w, "route", U0TXD, "speed")
    <3>1. /\ pc[w] = "route" /\ pc' = [pc EXCEPT ![w] = "speed"]
          /\ UNCHANGED <<owner, uart0_tx, baud, mutex, baudrate, raced>>
      BY <2>2 DEF Route, callVars, ghosts
    <3> QED
      BY <3>1
  <2>3. CASE SetBaud(w, "speed", ConsoleBaud, "reset")
    BY <2>3, WritersAssumption DEF SetBaud, hwVars, callVars, ghosts
  <2>4. CASE Reset(w, "reset", "space")
    BY <2>4, WritersAssumption DEF Reset, hwVars, callVars, ghosts
  <2> QED
    BY <1>5, <2>1, <2>2, <2>3, <2>4 DEF Borrow
<1>6. ASSUME NEW w \in Writers, Space(w) \/ Push(w) \/ EndText(w) PROVE SpeedInv'
  <2>1. UNCHANGED <<owner, uart0_tx, baud, mutex, baudrate, raced>>
    BY <1>6 DEF Space, Push, EndText, hwVars, callVars, ghosts
  <2>2. CASE pc[w] = "space" /\ pc' = [pc EXCEPT ![w] = "push"]
    BY <2>1, <2>2
  <2>3. CASE pc[w] = "push" /\ pc' = [pc EXCEPT ![w] = "space"]
    BY <2>1, <2>3
  <2>4. CASE pc[w] = "space" /\ Redirects(w) /\ pc' = [pc EXCEPT ![w] = "drain2"]
    BY <2>1, <2>4
  <2>5. CASE pc[w] = "space" /\ ~Redirects(w) /\ pc' = [pc EXCEPT ![w] = "idle"]
    BY <2>1, <2>5
  <2> QED
    BY <1>6, <2>2, <2>3, <2>4, <2>5 DEF Space, Push, EndText
<1>7. ASSUME NEW w \in Writers, Restore(w) PROVE SpeedInv'
  <2>1. CASE WaitEmpty(w, "drain2", "delay2") \/ Delay(w, "delay2", "route2")
    <3>1. /\ \/ pc[w] = "drain2" /\ pc' = [pc EXCEPT ![w] = "delay2"]
             \/ pc[w] = "delay2" /\ pc' = [pc EXCEPT ![w] = "route2"]
          /\ UNCHANGED <<owner, uart0_tx, baud, mutex, baudrate, raced>>
      BY <2>1 DEF WaitEmpty, Delay, hwVars, callVars, ghosts
    <3> QED
      BY <3>1, ZenonT(40)
  <2>2. CASE Route(w, "route2", uart0_tx, "speed2")
    <3>1. /\ pc[w] = "route2" /\ pc' = [pc EXCEPT ![w] = "speed2"]
          /\ UNCHANGED <<owner, uart0_tx, baud, mutex, baudrate, raced>>
      BY <2>2 DEF Route, callVars, ghosts
    <3> QED
      BY <3>1
  <2>3. CASE SetBaud(w, "speed2", baudrate[w], "reset2")
    BY <2>3, WritersAssumption DEF SetBaud, hwVars, callVars, ghosts
  <2>4. CASE Reset(w, "reset2", "give")
    BY <2>4, WritersAssumption DEF Reset, hwVars, callVars, ghosts
  <2>5. CASE Give(w)
    BY <2>5, WritersAssumption DEF Give, hwVars, callVars, ghosts
  <2> QED
    BY <1>7, <2>1, <2>2, <2>3, <2>4, <2>5 DEF Restore
<1>8. CASE UNCHANGED vars
  BY <1>8 DEF vars, hwVars, callVars, ghosts
<1> QED
  BY <1>1, <1>2, <1>3, <1>4, <1>5, <1>6, <1>7, <1>8 DEF Next, Write

\* Pin and speed follow the writer that has the UART.
LEMMA UartInvariant == Spec => [](PinInv /\ SpeedInv)
<1>1. Init => PinInv
  BY DEF Init, PinInv, Holds, OnConsolePin, Sending, Borrowing
<1>2. Init => SpeedInv
  BY DEF Init, SpeedInv, Wanted, Holds, AtConsoleSpeed, Sending, Borrowing
<1> QED
  BY <1>1, <1>2, PinStep, SpeedStep, TypeCorrect, LockInvariant, PTL DEF Spec

\* When no write has the UART, it is routed to the application's pin and,
\* unless a write sampled the speed during another one, at its speed.
THEOREM UartIsRestored == Spec => []UartRestored
<1>1. PinInv /\ SpeedInv => UartRestored
  BY DEF PinInv, SpeedInv, UartRestored
<1> QED
  BY <1>1, UartInvariant, PTL

-----------------------------------------------------------------------------
(* Bytes of redirected writes.                                             *)

\* As long as such a byte is in the FIFO its writer has not finished waiting
\* for it to drain, and as long as it is being shifted out its writer has
\* not switched the UART back.
RedInv ==
  /\ \A n \in DOMAIN fifo : fifo[n].red =>
       \E w \in Writers : Sending(w) \/ pc[w] = "drain2"
  /\ \A n \in DOMAIN shifter : shifter[n].byte.red =>
       /\ shifter[n].pin = U0TXD /\ shifter[n].baud = ConsoleBaud
       /\ \E w \in Writers : Sending(w) \/ pc[w] \in {"drain2", "delay2"}

\* Every step keeps a redirected byte covered by its writer.
LEMMA RedStep ==
  TypeOK /\ Locked /\ PinInv /\ SpeedInv /\ RedInv /\ [Next]_vars => RedInv'
<1> SUFFICES ASSUME TypeOK, Locked, PinInv, SpeedInv, RedInv, [Next]_vars PROVE RedInv'
  OBVIOUS
<1> DEFINE Draining(w) == Sending(w) \/ pc[w] = "drain2"
           Leaving(w) == Sending(w) \/ pc[w] \in {"drain2", "delay2"}
<1> USE DEF TypeOK, CallsOK, LineOK, Goto
<1>1. CASE Shift
  <2>1. \A w \in Writers : (Draining(w))' = Draining(w) /\ (Leaving(w))' = Leaving(w)
    BY <1>1, Zenon DEF Shift, Sending, Redirects, callVars
  <2>2. CASE shifter = <<>> /\ fifo # <<>>
    <3> DEFINE started == [byte |-> Head(fifo), pin |-> pin, baud |-> baud]
    <3>1. fifo' = Tail(fifo) /\ shifter' = <<started>>
      BY <1>1, <2>2 DEF Shift
    <3>2. \A n \in DOMAIN fifo' : n + 1 \in DOMAIN fifo /\ fifo'[n] = fifo[n + 1]
      BY <2>2, <3>1
    <3>3. Head(fifo).red => pin = U0TXD /\ baud = ConsoleBaud /\ \E w \in Writers : Draining(w)
      <4>1. Head(fifo) = fifo[1] /\ 1 \in DOMAIN fifo
        BY <2>2
      <4> QED
        BY <4>1 DEF RedInv, PinInv, SpeedInv, OnConsolePin, AtConsoleSpeed
    <3>4. \A n \in DOMAIN shifter' : shifter'[n] = started
      BY <3>1
    <3>5. \A n \in DOMAIN shifter' : shifter'[n].byte.red =>
            /\ shifter'[n].pin = U0TXD /\ shifter'[n].baud = ConsoleBaud
            /\ \E w \in Writers : (Leaving(w))'
      BY <2>1, <3>3, <3>4
    <3>6. \A n \in DOMAIN fifo' : fifo'[n].red => \E w \in Writers : (Draining(w))'
      BY <2>1, <3>2 DEF RedInv
    <3> QED
      BY <3>5, <3>6 DEF RedInv
  <2>3. CASE shifter # <<>>
    <3>1. fifo' = fifo /\ shifter' = <<>>
      BY <1>1, <2>3 DEF Shift
    <3>2. \A n \in DOMAIN fifo' : fifo'[n].red => \E w \in Writers : (Draining(w))'
      BY <2>1, <3>1 DEF RedInv
    <3>3. DOMAIN shifter' = {}
      BY <3>1
    <3> QED
      BY <3>2, <3>3 DEF RedInv
  <2> QED
    BY <1>1, <2>2, <2>3 DEF Shift
<1>8. CASE AppSetup
  <2>1. \A w \in Writers : ~Draining(w) /\ ~Leaving(w)
    BY <1>8 DEF AppSetup, Sending
  <2>2. fifo' = fifo /\ shifter' = shifter
    BY <1>8 DEF AppSetup
  <2> QED
    BY <2>1, <2>2 DEF RedInv
<1>2. CASE vfs_init \/ AppSend
  <2>1. \A w \in Writers : (Draining(w))' = Draining(w) /\ (Leaving(w))' = Leaving(w)
    BY <1>2, Zenon DEF vfs_init, AppSend, Sending, Redirects, callVars
  <2>2. \A n \in DOMAIN fifo' : fifo'[n].red => n \in DOMAIN fifo /\ fifo'[n] = fifo[n]
    <3> DEFINE x == [by |-> App, c |-> "x", red |-> FALSE]
    <3>1. fifo' = fifo \/ fifo' = Append(fifo, x)
      BY <1>2 DEF vfs_init, AppSend, hwVars
    <3>2. ~x.red
      OBVIOUS
    <3> HIDE DEF x
    <3>3. \A n \in DOMAIN Append(fifo, x) :
            (n \in DOMAIN fifo /\ Append(fifo, x)[n] = fifo[n]) \/ Append(fifo, x)[n] = x
      BY AppendElements
    <3> QED
      BY <3>1, <3>2, <3>3, Zenon
  <2>3. shifter' = shifter
    BY <1>2 DEF vfs_init, AppSend, hwVars
  <2> QED
    BY <2>1, <2>2, <2>3 DEF RedInv
<1>3. ASSUME NEW w \in Writers, Push(w) PROVE RedInv'
  <2>1. \A v \in Writers : (Draining(v))' = Draining(v) /\ (Leaving(v))' = Leaving(v)
    BY <1>3 DEF Push, Sending, Redirects
  <2>2. \A n \in DOMAIN fifo' : \/ n \in DOMAIN fifo /\ fifo'[n] = fifo[n]
                              \/ fifo'[n] = NextByte(w)
    <3>1. fifo' = fifo \/ fifo' = Append(fifo, NextByte(w))
      BY <1>3 DEF Push
    <3>2. \A n \in DOMAIN Append(fifo, NextByte(w)) :
            \/ n \in DOMAIN fifo /\ Append(fifo, NextByte(w))[n] = fifo[n]
            \/ Append(fifo, NextByte(w))[n] = NextByte(w)
      BY AppendElements
    <3> QED
      BY <3>1, <3>2, Zenon
  <2>3. NextByte(w).red => Draining(w)
    BY <1>3 DEF Push, NextByte, Sending
  <2>4. shifter' = shifter
    BY <1>3 DEF Push
  <2> QED
    BY <2>1, <2>2, <2>3, <2>4 DEF RedInv
<1>4. ASSUME NEW w \in Writers, Call(w) \/ Sample(w) \/ Space(w) \/ EndText(w) PROVE RedInv'
  <2>1. \A v \in Writers : (Draining(v) => (Draining(v))') /\ (Leaving(v) => (Leaving(v))')
    BY <1>4 DEF Call, Sample, Space, EndText, Sending, Redirects, callVars
  <2>2. fifo' = fifo /\ shifter' = shifter
    BY <1>4 DEF Call, Sample, Space, EndText, hwVars
  <2> QED
    BY <2>1, <2>2 DEF RedInv
<1>5. ASSUME NEW w \in Writers, Borrow(w) PROVE RedInv'
  <2>1. \A v \in Writers : (Draining(v) => (Draining(v))') /\ (Leaving(v) => (Leaving(v))')
    BY <1>5 DEF Borrow, Take, WaitEmpty, Delay, Route, SetBaud, Reset, Sending, Redirects, callVars
  <2>2. (fifo' = fifo \/ fifo' = <<>>) /\ shifter' = shifter
    BY <1>5 DEF Borrow, Take, WaitEmpty, Delay, Route, SetBaud, Reset, hwVars
  <2> QED
    BY <2>1, <2>2 DEF RedInv
<1>6. ASSUME NEW w \in Writers, Restore(w) PROVE RedInv'
  <2>1. CASE WaitEmpty(w, "drain2", "delay2")
    <3>1. \A v \in Writers : Leaving(v) => (Leaving(v))'
      BY <2>1 DEF WaitEmpty, Sending, Redirects, callVars
    <3> QED
      BY <2>1, <3>1 DEF WaitEmpty, RedInv, hwVars
  <2>2. CASE ~WaitEmpty(w, "drain2", "delay2")
    <3>1. \A v \in Writers \ {w} : (Draining(v) => (Draining(v))') /\ (Leaving(v) => (Leaving(v))')
      BY <1>6, <2>2 DEF Restore, Delay, Route, SetBaud, Reset, Give, Sending, Redirects, callVars
    <3>2. ~Draining(w)
      BY <1>6, <2>2 DEF Restore, Delay, Route, SetBaud, Reset, Give, Sending
    <3>3. (fifo' = fifo \/ fifo' = <<>>) /\ shifter' = shifter
      BY <1>6, <2>2 DEF Restore, Delay, Route, SetBaud, Reset, Give, hwVars
    <3>4. Leaving(w) => shifter = <<>>
      <4>1. pc[w] = "delay2" => baud = ConsoleBaud
        BY DEF SpeedInv, AtConsoleSpeed
      <4> QED
        BY <1>6, <2>2, <4>1, BaudAssumption DEF Restore, Delay, Route, SetBaud, Reset, Give, Sending
    <3>5. \A n \in DOMAIN fifo' : fifo'[n].red => \E v \in Writers : (Draining(v))'
      <4>1. \A n \in DOMAIN fifo' : n \in DOMAIN fifo /\ fifo'[n] = fifo[n]
        BY <3>3
      <4> QED
        BY <3>1, <3>2, <4>1 DEF RedInv
    <3>6. \A n \in DOMAIN shifter' : shifter'[n].byte.red =>
            /\ shifter'[n].pin = U0TXD /\ shifter'[n].baud = ConsoleBaud
            /\ \E v \in Writers : (Leaving(v))'
      BY <3>1, <3>3, <3>4 DEF RedInv
    <3> QED
      BY <3>5, <3>6 DEF RedInv
  <2> QED
    BY <2>1, <2>2
<1>7. CASE UNCHANGED vars
  BY <1>7 DEF vars, hwVars, callVars, RedInv, Sending, Redirects
<1> QED
  BY <1>1, <1>2, <1>3, <1>4, <1>5, <1>6, <1>7, <1>8 DEF Next, Write

\* ... so a redirected byte never outlives its write in the FIFO.
LEMMA RedInvariant == Spec => []RedInv
<1>1. Init => RedInv
  BY DEF Init, RedInv
<1> QED
  BY <1>1, RedStep, TypeCorrect, LockInvariant, UartInvariant, PTL DEF Spec

\* No byte of a redirected write ever appears on the application's pin or at
\* its speed, nor is the UART switched while one is being shifted out: the
\* wait for an empty FIFO and the delay are enough for any FIFO length and
\* any number of writers.
THEOREM ConsoleBytesStayOnConsole == Spec => []ConsoleBytesOnConsole
<1>1. Init => ConsoleBytesOnConsole
  BY DEF Init, ConsoleBytesOnConsole
<1>2. TypeOK /\ PinInv /\ SpeedInv /\ RedInv /\ ConsoleBytesOnConsole /\ [Next]_vars
        => ConsoleBytesOnConsole'
  <2> SUFFICES ASSUME TypeOK, PinInv, SpeedInv, RedInv, ConsoleBytesOnConsole, [Next]_vars
               PROVE  ConsoleBytesOnConsole'
    OBVIOUS
  <2>1. CASE wire' = wire
    BY <2>1 DEF ConsoleBytesOnConsole
  <2>2. CASE Shift /\ wire' # wire
    <3> DEFINE sent == [start |-> shifter[1],
                        clean |-> pin = shifter[1].pin /\ baud = shifter[1].baud]
    <3>1. wire' = Append(wire, sent) /\ shifter # <<>>
      BY <2>2, Zenon DEF Shift
    <3>2. 1 \in DOMAIN shifter
      BY <3>1 DEF TypeOK, LineOK
    <3>3. sent.start.byte.red =>
            sent.clean /\ sent.start.pin = U0TXD /\ sent.start.baud = ConsoleBaud
      BY <3>2 DEF RedInv, PinInv, SpeedInv, OnConsolePin, AtConsoleSpeed
    <3> HIDE DEF sent
    <3>4. \A n \in DOMAIN wire' : (n \in DOMAIN wire /\ wire'[n] = wire[n]) \/ wire'[n] = sent
      BY <3>1 DEF TypeOK, LineOK
    <3> QED
      BY <3>3, <3>4 DEF ConsoleBytesOnConsole
  <2>3. Shift \/ wire' = wire
    BY DEF Next, Write, vfs_init, AppSetup, AppSend, Call, Sample, Borrow, Restore, Take, WaitEmpty,
       Delay, Route, SetBaud, Reset, Give, Space, Push, EndText, vars, hwVars
  <2> QED
    BY <2>1, <2>2, <2>3
<1> QED
  BY <1>1, <1>2, TypeCorrect, UartInvariant, RedInvariant, PTL DEF Spec

-----------------------------------------------------------------------------
(* Bytes of the application.                                               *)

\* The UART runs at one of two speeds, and a write puts back one of them.
TwoSpeeds ==
  /\ baud \in {Wanted, ConsoleBaud}
  /\ \A w \in Writers : pc[w] \notin {"idle", "sample"} =>
       baudrate[w] \in {Wanted, ConsoleBaud}

\* The application sends on a UART it has taken.
Sender ==
  /\ \A n \in DOMAIN fifo : fifo[n].by = App => uart0_tx # U0TXD
  /\ \A n \in DOMAIN shifter : shifter[n].byte.by = App => uart0_tx # U0TXD
  /\ \A n \in DOMAIN wire : wire[n].start.byte.by = App => uart0_tx # U0TXD

\* Whoever has the UART is still waiting, at one of the places in S.
Waits(S) == \A w \in Writers : Holds(w) => pc[w] \in S

\* A byte of the application in the FIFO keeps a write from going on to the
\* delay, one that is being shifted out keeps it from routing the UART.
AppInv ==
  /\ \A n \in DOMAIN fifo : fifo[n].by = App => Waits({"drain"})
  /\ Wanted \notin SlowBauds =>
       \A n \in DOMAIN shifter : shifter[n].byte.by = App =>
         /\ Waits({"drain", "delay"})
         /\ shifter[n].pin = uart0_tx /\ shifter[n].pin = pin /\ shifter[n].baud = baud
         /\ raced \/ shifter[n].baud = Wanted
  /\ \A b \in lost : b.by # App

\* Every step keeps the UART at one of the two speeds.
LEMMA TwoSpeedsStep == TypeOK /\ Locked /\ TwoSpeeds /\ [Next]_vars => TwoSpeeds'
<1> SUFFICES ASSUME TypeOK, Locked, TwoSpeeds, [Next]_vars PROVE TwoSpeeds'
  OBVIOUS
<1> USE DEF TypeOK, CallsOK, TwoSpeeds, Wanted, Goto
<1>1. CASE AppSetup
  BY <1>1 DEF AppSetup, callVars
<1>2. ASSUME NEW w \in Writers, Call(w) PROVE TwoSpeeds'
  BY <1>2 DEF Call, hwVars
<1>3. ASSUME NEW w \in Writers, Sample(w) PROVE TwoSpeeds'
  BY <1>3 DEF Sample, hwVars
<1>4. ASSUME NEW w \in Writers, Borrow(w) \/ Space(w) \/ Push(w) \/ EndText(w) PROVE TwoSpeeds'
  <2>1. UNCHANGED <<uart0_tx, baudrate>> /\ (baud' = baud \/ baud' = ConsoleBaud)
    BY <1>4 DEF Borrow, Take, WaitEmpty, Delay, Route, SetBaud, Reset, Space, Push, EndText,
       hwVars, callVars
  <2>2. pc[w] \notin {"idle", "sample"} /\ \E q : pc' = [pc EXCEPT ![w] = q]
    BY <1>4 DEF Borrow, Take, WaitEmpty, Delay, Route, SetBaud, Reset, Space, Push, EndText
  <2> QED
    BY <2>1, <2>2
<1>5. ASSUME NEW w \in Writers, Restore(w) PROVE TwoSpeeds'
  <2>1. pc[w] \notin {"idle", "sample"} /\ \E q : pc' = [pc EXCEPT ![w] = q]
    BY <1>5 DEF Restore, WaitEmpty, Delay, Route, SetBaud, Reset, Give
  <2>2. UNCHANGED <<uart0_tx, baudrate>> /\ (baud' = baud \/ baud' = baudrate[w])
    BY <1>5 DEF Restore, WaitEmpty, Delay, Route, SetBaud, Reset, Give, hwVars, callVars
  <2> QED
    BY <2>1, <2>2
<1>6. CASE vfs_init \/ Shift \/ AppSend \/ UNCHANGED vars
  BY <1>6 DEF vfs_init, Shift, AppSend, vars, hwVars, callVars
<1> QED
  BY <1>1, <1>2, <1>3, <1>4, <1>5, <1>6 DEF Next, Write

\* Whoever owns the mutex has the UART.
Busy == owner # None => Holds(owner)

\* Every step keeps that.
LEMMA BusyStep == TypeOK /\ Locked /\ Busy /\ [Next]_vars => Busy'
<1> SUFFICES ASSUME TypeOK, Locked, Busy, [Next]_vars PROVE Busy'
  OBVIOUS
<1> USE DEF TypeOK, CallsOK, UartOK, Busy, Holds, Redirects, Borrowing, Goto
<1>1. CASE vfs_init \/ Shift \/ AppSend \/ UNCHANGED vars
  BY <1>1 DEF vfs_init, Shift, AppSend, vars, callVars
<1>2. CASE AppSetup
  BY <1>2 DEF AppSetup
<1>3. ASSUME NEW w \in Writers, Call(w) PROVE Busy'
  BY <1>3 DEF Call
<1>4. ASSUME NEW w \in Writers, Sample(w) PROVE Busy'
  BY <1>4 DEF Sample
<1>5. ASSUME NEW w \in Writers, Take(w) \/ Give(w) PROVE Busy'
  BY <1>5 DEF Take, Give, callVars
<1>6. ASSUME NEW w \in Writers, Borrow(w) \/ Restore(w), ~Take(w), ~Give(w) PROVE Busy'
  <2>1. UNCHANGED <<owner, uart0_tx, mutex>>
    BY <1>6 DEF Borrow, Restore, WaitEmpty, Delay, Route, SetBaud, Reset, callVars
  <2>2. pc[w] \in Borrowing /\ \E p \in Borrowing \cup {"space"} : pc' = [pc EXCEPT ![w] = p]
    BY <1>6 DEF Borrow, Restore, WaitEmpty, Delay, Route, SetBaud, Reset
  <2>3. Redirects(w)
    BY <2>2 DEF Locked
  <2> QED
    BY <2>1, <2>2, <2>3
<1>7. ASSUME NEW w \in Writers, Space(w) \/ Push(w) \/ EndText(w) PROVE Busy'
  <2>1. UNCHANGED <<owner, uart0_tx, mutex>>
    BY <1>7 DEF Space, Push, EndText, callVars
  <2>2. /\ pc[w] \in {"space", "push"}
        /\ \/ \E p \in {"space", "push"} : pc' = [pc EXCEPT ![w] = p]
           \/ Redirects(w) /\ pc' = [pc EXCEPT ![w] = "drain2"]
           \/ ~Redirects(w) /\ pc' = [pc EXCEPT ![w] = "idle"]
    BY <1>7 DEF Space, Push, EndText
  <2> QED
    BY <2>1, <2>2
<1> QED
  BY <1>1, <1>2, <1>3, <1>4, <1>5, <1>6, <1>7 DEF Next, Write

\* The line between two steps of the writers: a step adds at most one byte to
\* the FIFO, which is its own, or empties it.
LEMMA WriterLine ==
  ASSUME TypeOK, NEW w \in Writers, Call(w) \/ Write(w)
  PROVE  /\ UNCHANGED <<shifter, wire, uart0_tx>>
         /\ \A n \in DOMAIN fifo' :
              (n \in DOMAIN fifo /\ fifo'[n] = fifo[n]) \/ fifo'[n].by # App
         /\ \/ \A b \in lost' : b \in lost \/ b.by # App
            \/ /\ \E p, q : Reset(w, p, q) /\ p \in {"reset", "reset2"}
               /\ lost' = lost \cup ToSet(fifo)
<1> USE DEF TypeOK, LineOK
<1>1. CASE Push(w)
  <2>1. NextByte(w).by # App
    BY WritersAssumption DEF NextByte
  <2>2. fifo' = fifo \/ fifo' = Append(fifo, NextByte(w))
    BY <1>1 DEF Push
  <2>3. \A n \in DOMAIN Append(fifo, NextByte(w)) :
          \/ n \in DOMAIN fifo /\ Append(fifo, NextByte(w))[n] = fifo[n]
          \/ Append(fifo, NextByte(w))[n] = NextByte(w)
    BY AppendElements
  <2>4. \A n \in DOMAIN fifo' :
          (n \in DOMAIN fifo /\ fifo'[n] = fifo[n]) \/ fifo'[n].by # App
    BY <2>1, <2>2, <2>3
  <2>5. lost' = lost \/ lost' = lost \cup {NextByte(w)}
    BY <1>1 DEF Push
  <2>6. UNCHANGED <<shifter, wire, uart0_tx>>
    BY <1>1 DEF Push
  <2> QED
    BY <2>1, <2>4, <2>5, <2>6
<1>2. CASE Call(w) \/ Sample(w) \/ Space(w) \/ EndText(w)
  <2>1. UNCHANGED <<shifter, wire, uart0_tx, fifo, lost>>
    BY <1>2 DEF Call, Sample, Space, EndText, hwVars
  <2> QED
    BY <2>1
<1>3. CASE Borrow(w) \/ Restore(w)
  <2>1. CASE \E p, q : Reset(w, p, q) /\ p \in {"reset", "reset2"}
    <3>1. /\ UNCHANGED <<shifter, wire, uart0_tx>> /\ fifo' = <<>>
          /\ lost' = lost \cup ToSet(fifo)
      BY <2>1 DEF Reset
    <3> QED
      BY <2>1, <3>1
  <2>2. CASE ~\E p, q : Reset(w, p, q) /\ p \in {"reset", "reset2"}
    <3>1. UNCHANGED <<shifter, wire, uart0_tx, fifo, lost>>
      BY <1>3, <2>2 DEF Borrow, Restore, Take, WaitEmpty, Delay, Route, SetBaud, Give, hwVars
    <3> QED
      BY <3>1
  <2> QED
    BY <2>1, <2>2
<1> QED
  BY <1>1, <1>2, <1>3 DEF Write

\* What the transmitter does to the line.
LEMMA ShiftLine ==
  ASSUME TypeOK, Shift
  PROVE  /\ UNCHANGED <<uart0_tx, pin, baud, raced, owner, pc, mutex, lost>>
         /\ \A n \in DOMAIN fifo' : \E m \in DOMAIN fifo : fifo'[n] = fifo[m]
         /\ \A n \in DOMAIN shifter' :
              /\ 1 \in DOMAIN fifo
              /\ shifter'[n] = [byte |-> fifo[1], pin |-> pin, baud |-> baud]
         /\ \A n \in DOMAIN wire' :
              \/ n \in DOMAIN wire /\ wire'[n] = wire[n]
              \/ /\ 1 \in DOMAIN shifter
                 /\ wire'[n] = [start |-> shifter[1],
                                clean |-> pin = shifter[1].pin /\ baud = shifter[1].baud]
<1> USE DEF TypeOK, LineOK
<1>1. UNCHANGED <<uart0_tx, pin, baud, raced, owner, pc, mutex, lost>>
  BY DEF Shift, callVars, ghosts
<1>2. CASE shifter = <<>> /\ fifo # <<>>
  <2> DEFINE started == [byte |-> Head(fifo), pin |-> pin, baud |-> baud]
  <2>1. fifo' = Tail(fifo) /\ shifter' = <<started>> /\ wire' = wire
    BY <1>2 DEF Shift
  <2>2. Head(fifo) = fifo[1] /\ 1 \in DOMAIN fifo
    BY <1>2
  <2>3. \A n \in DOMAIN fifo' : n + 1 \in DOMAIN fifo /\ fifo'[n] = fifo[n + 1]
    BY <1>2, <2>1
  <2>4. \A n \in DOMAIN shifter' : shifter'[n] = started
    BY <2>1
  <2>5. started = [byte |-> fifo[1], pin |-> pin, baud |-> baud]
    BY <2>2
  <2> HIDE DEF started
  <2> QED
    BY <1>1, <2>1, <2>2, <2>3, <2>4, <2>5
<1>3. CASE shifter # <<>>
  <2> DEFINE sent == [start |-> shifter[1],
                      clean |-> pin = shifter[1].pin /\ baud = shifter[1].baud]
  <2>1. fifo' = fifo /\ shifter' = <<>> /\ wire' = Append(wire, sent)
    BY <1>3, Zenon DEF Shift
  <2>2. 1 \in DOMAIN shifter
    BY <1>3
  <2> HIDE DEF sent
  <2>3. \A n \in DOMAIN wire' : (n \in DOMAIN wire /\ wire'[n] = wire[n]) \/ wire'[n] = sent
    BY <2>1, AppendElements
  <2>4. DOMAIN shifter' = {}
    BY <2>1
  <2> QED
    BY <1>1, <2>1, <2>2, <2>3, <2>4 DEF sent
<1> QED
  BY <1>2, <1>3 DEF Shift

\* Only an application that has taken the UART sends.
LEMMA SenderStep == TypeOK /\ Sender /\ [Next]_vars => Sender'
<1> SUFFICES ASSUME TypeOK, Sender, [Next]_vars PROVE Sender'
  OBVIOUS
<1> USE DEF Sender
<1>1. CASE Shift
  <2>1. uart0_tx' = uart0_tx
    BY <1>1, ShiftLine
  <2>2. \A n \in DOMAIN fifo' : fifo'[n].by = App => uart0_tx' # U0TXD
    BY <1>1, <2>1, ShiftLine
  <2>3. \A n \in DOMAIN shifter' : shifter'[n].byte.by = App => uart0_tx' # U0TXD
    <3> SUFFICES ASSUME NEW n \in DOMAIN shifter' PROVE shifter'[n].byte.by = App => uart0_tx' # U0TXD
      OBVIOUS
    <3>1. 1 \in DOMAIN fifo /\ shifter'[n].byte = fifo[1]
      BY <1>1, ShiftLine
    <3> QED
      BY <2>1, <3>1
  <2>4. \A n \in DOMAIN wire' : wire'[n].start.byte.by = App => uart0_tx' # U0TXD
    <3> SUFFICES ASSUME NEW n \in DOMAIN wire' PROVE wire'[n].start.byte.by = App => uart0_tx' # U0TXD
      OBVIOUS
    <3>1. \/ n \in DOMAIN wire /\ wire'[n] = wire[n]
          \/ 1 \in DOMAIN shifter /\ wire'[n].start = shifter[1]
      BY <1>1, ShiftLine
    <3> QED
      BY <2>1, <3>1
  <2> QED
    BY <2>2, <2>3, <2>4
<1>2. ASSUME NEW w \in Writers, Call(w) \/ Write(w) PROVE Sender'
  BY <1>2, WriterLine
<1>3. CASE AppSetup
  <2>1. uart0_tx = U0TXD /\ UNCHANGED <<fifo, shifter, wire>>
    BY <1>3 DEF AppSetup
  <2> QED
    BY <2>1
<1>4. CASE AppSend
  <2>1. uart0_tx # U0TXD /\ UNCHANGED <<uart0_tx, shifter, wire>>
    BY <1>4 DEF AppSend
  <2> QED
    BY <2>1
<1>5. CASE vfs_init \/ UNCHANGED vars
  BY <1>5 DEF vfs_init, vars, hwVars
<1> QED
  BY <1>1, <1>2, <1>3, <1>4, <1>5 DEF Next

\* A write that waits for the application's bytes goes no further than the wait,
\* and changes neither the pin nor the speed.
LEMMA WaitsStep ==
  ASSUME TypeOK, Locked, NEW w \in Writers, Call(w) \/ Write(w),
         NEW S \in SUBSET {"drain", "delay"}, "drain" \in S, Waits(S),
         "delay" \notin S => fifo # <<>>,
         "delay" \in S => shifter # <<>> /\ baud \notin SlowBauds
  PROVE  Waits(S)' /\ pin' = pin /\ baud' = baud
<1> USE DEF TypeOK, CallsOK, Holds, Waits, Borrowing, Goto, Redirects
<1>1. CASE Call(w)
  BY <1>1 DEF Call, hwVars
<1>2. CASE Sample(w)
  BY <1>2 DEF Sample, hwVars
<1>3. CASE Space(w) \/ Push(w) \/ EndText(w)
  <2>1. pc[w] \in {"space", "push"} /\ ~Redirects(w)
    BY <1>3 DEF Space, Push, EndText
  <2>2. \E p \in {"space", "push", "idle"} : pc' = [pc EXCEPT ![w] = p]
    BY <1>3, <2>1 DEF Space, Push, EndText
  <2>3. UNCHANGED <<pin, baud, mutex, uart0_tx>>
    BY <1>3 DEF Space, Push, EndText, hwVars, callVars
  <2> QED
    BY <2>1, <2>2, <2>3
<1>4. CASE Take(w)
  <2>1. \A v \in Writers : ~Holds(v)
    BY <1>4, WritersAssumption DEF Take, Locked
  <2>2. /\ pc' = [pc EXCEPT ![w] = "drain"] /\ UNCHANGED <<pin, baud, mutex, uart0_tx>>
    BY <1>4 DEF Take, hwVars, callVars
  <2> QED
    BY <2>1, <2>2
<1>5. CASE WaitEmpty(w, "drain", "delay")
  BY <1>5 DEF WaitEmpty, hwVars, callVars
<1>6. CASE Delay(w, "delay", "route")
  BY <1>6 DEF Delay
<1>7. CASE Borrow(w) \/ Restore(w)
  <2>1. pc[w] \in {"take", "drain", "delay"}
          => Take(w) \/ WaitEmpty(w, "drain", "delay") \/ Delay(w, "delay", "route")
    BY <1>7 DEF Borrow, Restore, Take, WaitEmpty, Delay, Route, SetBaud, Reset, Give
  <2>2. pc[w] \in Borrowing \cup {"take"}
    BY <1>7 DEF Borrow, Restore, Take, WaitEmpty, Delay, Route, SetBaud, Reset, Give
  <2> QED
    BY <1>4, <1>5, <1>6, <2>1, <2>2
<1> QED
  BY <1>1, <1>2, <1>3, <1>7 DEF Write

\* Every step keeps the application's bytes apart from the redirection.
LEMMA AppStep ==
  /\ TypeOK /\ Locked /\ PinInv /\ SpeedInv /\ Busy /\ TwoSpeeds /\ Sender /\ AppInv
  /\ [Next]_vars
  => AppInv'
<1> SUFFICES ASSUME TypeOK, Locked, PinInv, SpeedInv, Busy, TwoSpeeds, Sender, AppInv, [Next]_vars
             PROVE  AppInv'
  OBVIOUS
<1> DEFINE Whole(n) == /\ Waits({"drain", "delay"})
                       /\ shifter[n].pin = uart0_tx /\ shifter[n].pin = pin
                       /\ shifter[n].baud = baud /\ (raced \/ shifter[n].baud = Wanted)
<1>0. \A n \in DOMAIN fifo : fifo[n] \in Bytes
  BY DEF TypeOK, LineOK
<1>1. ASSUME NEW w \in Writers, Call(w) \/ Write(w) PROVE AppInv'
  <2>0. UNCHANGED <<shifter, wire, uart0_tx>>
    BY <1>1, WriterLine
  <2>1. ASSUME NEW n \in DOMAIN fifo', fifo'[n].by = App PROVE Waits({"drain"})'
    <3>1. n \in DOMAIN fifo /\ fifo[n].by = App
      BY <1>1, <2>1, WriterLine
    <3>2. Waits({"drain"}) /\ fifo # <<>>
      BY <3>1 DEF AppInv
    <3> QED
      BY <1>1, <3>2, WaitsStep
  <2>2. ASSUME Wanted' \notin SlowBauds, NEW n \in DOMAIN shifter', shifter'[n].byte.by = App
        PROVE  Whole(n)'
    <3>1. Wanted' = Wanted /\ n \in DOMAIN shifter /\ shifter[n].byte.by = App
      BY <2>0, <2>2 DEF Wanted
    <3>2. Whole(n) /\ shifter # <<>>
      BY <2>2, <3>1 DEF AppInv
    <3>3. baud \notin SlowBauds
      BY <2>2, <3>1, BaudAssumption DEF TwoSpeeds
    <3>4. Waits({"drain", "delay"})' /\ pin' = pin /\ baud' = baud
      BY <1>1, <3>2, <3>3, WaitsStep
    <3>5. raced => raced'
      BY <1>1, Zenon DEF Call, Write, Sample, Borrow, Restore, Take, WaitEmpty, Delay, Route,
         SetBaud, Reset, Give, Space, Push, EndText, ghosts
    <3> QED
      BY <2>0, <3>1, <3>2, <3>4, <3>5
  <2>3. ASSUME NEW b \in lost' PROVE b.by # App
    <3>1. CASE \A c \in lost' : c \in lost \/ c.by # App
      BY <3>1 DEF AppInv
    <3>2. CASE /\ \E p, q : Reset(w, p, q) /\ p \in {"reset", "reset2"}
               /\ lost' = lost \cup ToSet(fifo)
      <4>1. pc[w] \in {"reset", "reset2"}
        BY <3>2 DEF Reset
      <4>2. ~Waits({"drain"})
        BY <4>1 DEF Waits, Holds, Borrowing
      <4>3. \A n \in DOMAIN fifo : fifo[n].by # App
        BY <4>2 DEF AppInv
      <4>4. \A c \in ToSet(fifo) : c.by # App
        BY <4>3 DEF ToSet
      <4> QED
        BY <3>2, <4>4 DEF AppInv
    <3> QED
      BY <1>1, <3>1, <3>2, WriterLine
  <2> QED
    BY <2>1, <2>2, <2>3 DEF AppInv
<1>2. CASE Shift
  <2>0. UNCHANGED <<uart0_tx, pin, baud, raced, owner, pc, mutex, lost>>
    BY <1>2, ShiftLine
  <2>1. Waits({"drain"})' = Waits({"drain"}) /\ Waits({"drain", "delay"})' = Waits({"drain", "delay"})
    BY <2>0 DEF Waits, Holds, Redirects
  <2>2. ASSUME NEW n \in DOMAIN fifo', fifo'[n].by = App PROVE Waits({"drain"})'
    <3>1. PICK m \in DOMAIN fifo : fifo'[n] = fifo[m]
      BY <1>2, ShiftLine
    <3> QED
      BY <2>1, <2>2, <3>1 DEF AppInv
  <2>3. ASSUME Wanted' \notin SlowBauds, NEW n \in DOMAIN shifter', shifter'[n].byte.by = App
        PROVE  Whole(n)'
    <3>1. 1 \in DOMAIN fifo /\ shifter'[n] = [byte |-> fifo[1], pin |-> pin, baud |-> baud]
      BY <1>2, ShiftLine
    <3>2. Waits({"drain"})
      BY <2>3, <3>1 DEF AppInv
    <3>3. pin = uart0_tx /\ (raced \/ baud = Wanted)
      <4>1. CASE owner = None
        BY <4>1 DEF PinInv, SpeedInv
      <4>2. CASE owner # None
        <5>1. owner \in Writers /\ Holds(owner) /\ pc[owner] = "drain"
          BY <3>2, <4>2 DEF Busy, Waits, TypeOK, UartOK
        <5>2. ~OnConsolePin(owner) /\ ~AtConsoleSpeed(owner)
          BY <5>1 DEF OnConsolePin, AtConsoleSpeed, Sending
        <5> QED
          BY <5>1, <5>2 DEF PinInv, SpeedInv
      <4> QED
        BY <4>1, <4>2
    <3>4. Waits({"drain", "delay"})
      BY <3>2 DEF Waits
    <3> QED
      BY <2>0, <2>1, <3>1, <3>3, <3>4 DEF Wanted
  <2> QED
    BY <2>0, <2>2, <2>3 DEF AppInv
<1>3. CASE AppSetup
  <2>1. uart0_tx = U0TXD /\ UNCHANGED <<fifo, shifter, lost>>
    BY <1>3 DEF AppSetup
  <2> QED
    BY <2>1 DEF Sender, AppInv
<1>4. CASE AppSend
  <2>1. UNCHANGED <<uart0_tx, pin, baud, raced, owner, pc, mutex, lost, shifter>>
    BY <1>4 DEF AppSend, callVars
  <2>2. Waits({"drain"})' = Waits({"drain"}) /\ Waits({"drain", "delay"})' = Waits({"drain", "delay"})
    BY <2>1 DEF Waits, Holds, Redirects
  <2>3. Waits({"drain"})
    BY <1>4, WritersAssumption DEF AppSend, Waits, Locked
  <2> QED
    BY <2>1, <2>2, <2>3 DEF AppInv, Wanted
<1>5. CASE vfs_init \/ UNCHANGED vars
  BY <1>5 DEF vfs_init, vars, hwVars, callVars, ghosts, AppInv, Waits, Holds, Redirects, Wanted
<1> QED
  BY <1>1, <1>2, <1>3, <1>4, <1>5 DEF Next

\* ... so they are invariants.
LEMMA AppInvariant == Spec => [](Sender /\ AppInv)
<1>1. Init => Busy /\ TwoSpeeds /\ Sender /\ AppInv
  BY DEF Init, Busy, TwoSpeeds, Wanted, Sender, AppInv
<1> QED
  BY <1>1, BusyStep, TwoSpeedsStep, SenderStep, AppStep, TypeCorrect, LockInvariant,
     UartInvariant, PTL DEF Spec

\* A byte of the application leaves whole on its pin, and is never cut off or
\* thrown away by a write that takes the UART: for every FIFO length, any number of
\* writers and every speed that the delay covers.
THEOREM AppBytesStayOnApp == Spec => []AppBytesOnApp
<1>1. Init => AppBytesOnApp
  BY DEF Init, AppBytesOnApp
<1>2. TypeOK /\ Sender /\ AppInv /\ AppInv' /\ AppBytesOnApp /\ [Next]_vars => AppBytesOnApp'
  <2> SUFFICES ASSUME TypeOK, Sender, AppInv, AppInv', AppBytesOnApp, [Next]_vars,
                      Wanted' \notin SlowBauds
               PROVE  /\ \A n \in DOMAIN wire' : wire'[n].start.byte.by = App =>
                           /\ wire'[n].clean /\ wire'[n].start.pin = uart0_tx'
                           /\ raced' \/ wire'[n].start.baud = Wanted'
                      /\ \A b \in lost' : b.by # App
    BY DEF AppBytesOnApp
  <2>1. \A b \in lost' : b.by # App
    BY DEF AppInv
  <2>2. CASE AppSetup
    <3>1. uart0_tx = U0TXD /\ wire' = wire
      BY <2>2 DEF AppSetup
    <3> QED
      BY <2>1, <3>1 DEF Sender
  <2>3. CASE Shift
    <3>0. uart0_tx' = uart0_tx /\ Wanted' = Wanted /\ raced' = raced
      BY <2>3, ShiftLine DEF Wanted
    <3>1. ASSUME NEW n \in DOMAIN wire', wire'[n].start.byte.by = App
          PROVE  /\ wire'[n].clean /\ wire'[n].start.pin = uart0_tx
                 /\ raced \/ wire'[n].start.baud = Wanted
      <4>1. CASE n \in DOMAIN wire /\ wire'[n] = wire[n]
        BY <3>0, <3>1, <4>1 DEF AppBytesOnApp
      <4>2. CASE /\ 1 \in DOMAIN shifter
                 /\ wire'[n] = [start |-> shifter[1],
                                clean |-> pin = shifter[1].pin /\ baud = shifter[1].baud]
        <5> DEFINE sent == [start |-> shifter[1],
                            clean |-> pin = shifter[1].pin /\ baud = shifter[1].baud]
        <5>1. shifter[1].byte.by = App =>
                /\ pin = shifter[1].pin /\ baud = shifter[1].baud /\ shifter[1].pin = uart0_tx
                /\ raced \/ shifter[1].baud = Wanted
          BY <3>0, <4>2 DEF AppInv
        <5>2. sent.start.byte.by = App =>
                /\ sent.clean /\ sent.start.pin = uart0_tx
                /\ raced \/ sent.start.baud = Wanted
          BY <5>1
        <5>3. wire'[n] = sent
          BY <4>2
        <5> HIDE DEF sent
        <5> QED
          BY <3>1, <5>2, <5>3
      <4> QED
        BY <2>3, <3>1, <4>1, <4>2, ShiftLine
    <3> QED
      BY <2>1, <3>0, <3>1
  <2>4. CASE ~Shift /\ ~AppSetup
    <3>1. wire' = wire /\ uart0_tx' = uart0_tx /\ (raced => raced')
      <4>1. ASSUME NEW w \in Writers, Call(w) \/ Write(w) PROVE raced => raced'
        BY <4>1, Zenon DEF Call, Write, Sample, Borrow, Restore, Take, WaitEmpty, Delay, Route,
           SetBaud, Reset, Give, Space, Push, EndText, ghosts
      <4>2. ASSUME NEW w \in Writers, Call(w) \/ Write(w)
            PROVE  wire' = wire /\ uart0_tx' = uart0_tx
        BY <4>2, WriterLine
      <4>3. vfs_init \/ AppSend \/ UNCHANGED vars =>
              wire' = wire /\ uart0_tx' = uart0_tx /\ raced' = raced
        BY DEF vfs_init, AppSend, vars, hwVars, ghosts
      <4> QED
        BY <2>4, <4>1, <4>2, <4>3 DEF Next
    <3>2. Wanted' = Wanted
      BY <3>1 DEF Wanted
    <3> QED
      BY <2>1, <3>1, <3>2 DEF AppBytesOnApp
  <2> QED
    BY <2>2, <2>3, <2>4
<1> QED
  BY <1>1, <1>2, AppInvariant, TypeCorrect, PTL DEF Spec

-----------------------------------------------------------------------------
(* The text on the line.                                                   *)

\* The bytes that have left, the one that is leaving and those that wait.
LineLen == Len(wire) + Len(shifter) + Len(fifo)
Line == [k \in 1 .. LineLen |->
           IF k <= Len(wire) THEN wire[k].start.byte
           ELSE IF k <= Len(wire) + Len(shifter) THEN shifter[k - Len(wire)].byte
           ELSE fifo[k - Len(wire) - Len(shifter)]]

\* Byte b is in s, with exactly n bytes of redirected writes behind it.
RedsBehind(s, k) == {m \in k + 1 .. Len(s) : s[m].red}
On(s, b, n) == \E k \in DOMAIN s : s[k] = b /\ Cardinality(RedsBehind(s, k)) = n

\* Once the application has the UART, every write goes through the mutex.
AllLock ==
  uart0_tx # U0TXD => g_mutex /\ \A w \in Writers : pc[w] # "idle" => mutex[w]

\* A redirected write that is about to push has a place: nobody else pushes.
Room == \A w \in Writers : pc[w] = "push" /\ Redirects(w) => Len(fifo) < FifoLen

\* Before its text a write has sent nothing of it.
Before == {"sample", "take", "drain", "delay", "route", "speed", "reset"}
AtStart == \A w \in Writers : pc[w] \in Before => pos[w] = 1 /\ ~cr[w]

\* After its text, until the mutex is given back; and from its beginning on.
After(w) == pc[w] \in {"drain2", "delay2", "route2", "speed2", "reset2", "give"}
Sends(w) == Sending(w) \/ After(w)

\* What a redirected write has sent is on the line, as far behind the end as
\* what it sent since tells.
RedByte(w, c) == [by |-> w, c |-> c, red |-> TRUE]
SoFar(w) == Sent(text[w], pos[w] - 1) + (IF cr[w] THEN 1 ELSE 0)
Placed(w, n) ==
  /\ On(Line, RedByte(w, text[w][n]), SoFar(w) - Sent(text[w], n))
  /\ text[w][n] = LF => On(Line, RedByte(w, CR), SoFar(w) - Sent(text[w], n) + 1)
SentBy(w) ==
  /\ pos[w] <= Len(text[w]) + 1
  /\ After(w) => pos[w] = Len(text[w]) + 1
  /\ cr[w] => /\ pos[w] <= Len(text[w]) /\ text[w][pos[w]] = LF
              /\ On(Line, RedByte(w, CR), 0)
  /\ \A n \in 1 .. pos[w] - 1 : Placed(w, n)
SentInv == \A w \in Writers : Sends(w) => SentBy(w)

\* The newlines of a text are counted in natural numbers, one character after
\* the other.
LEMMA SentNext ==
  ASSUME NEW t, NEW n \in Nat
  PROVE  /\ Sent(t, n) \in Nat /\ Sent(t, 0) = 0
         /\ Sent(t, n + 1) = Sent(t, n) + (IF t[n + 1] = LF THEN 2 ELSE 1)
<1> DEFINE Newlines(i) == {m \in 1 .. i : t[m] = LF}
<1>1. ASSUME NEW i \in Nat PROVE IsFiniteSet(Newlines(i)) /\ Cardinality(Newlines(i)) \in Nat
  <2>1. IsFiniteSet(1 .. i)
    BY FS_Interval
  <2>2. Newlines(i) \in SUBSET (1 .. i)
    OBVIOUS
  <2>3. IsFiniteSet(Newlines(i))
    BY <2>1, <2>2, FS_Subset
  <2> QED
    BY <2>3, FS_CardinalityType
<1>2. Newlines(0) = {}
  OBVIOUS
<1>3. Newlines(n + 1) = IF t[n + 1] = LF THEN Newlines(n) \cup {n + 1} ELSE Newlines(n)
  OBVIOUS
<1>4. n + 1 \notin Newlines(n)
  OBVIOUS
<1>5. \A i \in Nat : Sent(t, i) = i + Cardinality(Newlines(i))
  BY DEF Sent
<1> HIDE DEF Newlines
<1>6. Cardinality(Newlines(n + 1)) = Cardinality(Newlines(n)) + (IF t[n + 1] = LF THEN 1 ELSE 0)
  <2>1. IsFiniteSet(Newlines(n)) /\ Cardinality(Newlines(n)) \in Nat
    BY <1>1
  <2>2. Cardinality(Newlines(n) \cup {n + 1}) = Cardinality(Newlines(n)) + 1
    BY <2>1, <1>4, FS_AddElement
  <2> QED
    BY <1>3, <2>1, <2>2
<1>7. Cardinality(Newlines(0)) = 0
  BY <1>2, FS_EmptySet
<1>8. /\ Cardinality(Newlines(n)) \in Nat /\ n + 1 \in Nat
      /\ Sent(t, n) = n + Cardinality(Newlines(n))
      /\ Sent(t, n + 1) = n + 1 + Cardinality(Newlines(n + 1))
      /\ Sent(t, 0) = 0 + Cardinality(Newlines(0))
  BY <1>1, <1>5
<1> QED
  BY <1>6, <1>7, <1>8

\* A byte that joins the line is the last one, and counts for those before it
\* if it is of a redirected write.
LEMMA OnAppend ==
  ASSUME NEW s \in Seq(Bytes), NEW e \in Bytes
  PROVE  /\ On(Append(s, e), e, 0)
         /\ \A b, n : On(s, b, n) => On(Append(s, e), b, IF e.red THEN n + 1 ELSE n)
<1> DEFINE l == Len(s)
           a == Append(s, e)
<1>1. /\ a \in Seq(Bytes) /\ Len(a) = l + 1 /\ l \in Nat /\ DOMAIN s = 1 .. l
      /\ DOMAIN a = 1 .. l + 1 /\ a[l + 1] = e /\ \A k \in 1 .. l : a[k] = s[k]
  OBVIOUS
<1> HIDE DEF a, l
<1>2. On(a, e, 0)
  <2>1. RedsBehind(a, l + 1) = {}
    BY <1>1 DEF RedsBehind
  <2>2. Cardinality(RedsBehind(a, l + 1)) = 0
    BY <2>1, FS_EmptySet
  <2> QED
    BY <1>1, <2>2 DEF On
<1>3. ASSUME NEW b, NEW n, On(s, b, n) PROVE On(a, b, IF e.red THEN n + 1 ELSE n)
  <2>1. PICK k \in 1 .. l : s[k] = b /\ Cardinality(RedsBehind(s, k)) = n
    BY <1>1, <1>3 DEF On
  <2>2. IsFiniteSet(RedsBehind(s, k))
    <3>1. IsFiniteSet(k + 1 .. l)
      BY <1>1, FS_Interval
    <3>2. RedsBehind(s, k) \in SUBSET (k + 1 .. l)
      BY DEF RedsBehind, l
    <3> QED
      BY <3>1, <3>2, FS_Subset
  <2>3. RedsBehind(s, k) = {m \in k + 1 .. l : s[m].red}
    BY DEF RedsBehind, l
  <2>4. RedsBehind(a, k) = {m \in k + 1 .. l + 1 : a[m].red}
    BY <1>1 DEF RedsBehind
  <2>5. l + 1 \notin RedsBehind(s, k)
    BY <1>1, <2>3
  <2>6. RedsBehind(a, k) = IF e.red THEN RedsBehind(s, k) \cup {l + 1} ELSE RedsBehind(s, k)
    BY <1>1, <2>3, <2>4
  <2>7. Cardinality(RedsBehind(a, k)) = IF e.red THEN n + 1 ELSE n
    BY <2>1, <2>2, <2>5, <2>6, FS_AddElement
  <2>8. k \in DOMAIN a /\ a[k] = b
    BY <1>1, <2>1
  <2> QED
    BY <2>7, <2>8 DEF On
<1> QED
  BY <1>2, <1>3 DEF a

\* Bytes at the end of the line that are of no redirected write do not count.
LEMMA OnPrefix ==
  ASSUME NEW s \in Seq(Bytes), NEW t \in Seq(Bytes), Len(t) <= Len(s),
         \A k \in 1 .. Len(t) : t[k] = s[k],
         \A k \in Len(t) + 1 .. Len(s) : ~s[k].red,
         NEW b, b.red, NEW n, On(s, b, n)
  PROVE  On(t, b, n)
<1>1. PICK k \in DOMAIN s : s[k] = b /\ Cardinality(RedsBehind(s, k)) = n
  BY DEF On
<1>2. Len(s) \in Nat /\ Len(t) \in Nat /\ DOMAIN s = 1 .. Len(s) /\ DOMAIN t = 1 .. Len(t)
  OBVIOUS
<1>3. k \in 1 .. Len(t)
  BY <1>1, <1>2
<1>4. RedsBehind(s, k) = RedsBehind(t, k)
  BY <1>2, <1>3 DEF RedsBehind
<1> QED
  BY <1>1, <1>2, <1>3, <1>4 DEF On

\* An element of a sequence.
LEMMA ElementOf ==
  ASSUME NEW S, NEW s \in Seq(S)
  PROVE  Len(s) \in Nat /\ \A k \in 1 .. Len(s) : s[k] \in S
OBVIOUS

\* The line is a sequence of bytes made of its three parts.
LEMMA LineParts ==
  ASSUME TypeOK
  PROVE  /\ Len(wire) \in Nat /\ Len(shifter) \in 0 .. 1 /\ Len(fifo) \in Nat
         /\ Line \in Seq(Bytes) /\ Len(Line) = Len(wire) + Len(shifter) + Len(fifo)
         /\ \A k \in 1 .. Len(wire) : Line[k] = wire[k].start.byte
         /\ \A k \in 1 .. Len(shifter) : Line[Len(wire) + k] = shifter[k].byte
         /\ \A k \in 1 .. Len(fifo) : Line[Len(wire) + Len(shifter) + k] = fifo[k]
<1>0. /\ wire \in Seq([start : Started, clean : BOOLEAN])
      /\ shifter \in Seq(Started) /\ Len(shifter) <= 1 /\ fifo \in Seq(Bytes)
  BY DEF TypeOK, LineOK
<1>1. Len(wire) \in Nat /\ Len(shifter) \in 0 .. 1 /\ Len(fifo) \in Nat
  <2>1. Len(wire) \in Nat /\ Len(fifo) \in Nat /\ Len(shifter) \in Nat
    BY <1>0, ElementOf, Zenon
  <2>2. Len(shifter) <= 1
    BY <1>0, Zenon
  <2>3. \A n \in Nat : n <= 1 => n \in 0 .. 1
    OBVIOUS
  <2>4. Len(shifter) \in 0 .. 1
    BY <2>1, <2>2, <2>3, Zenon
  <2> QED
    BY <2>1, <2>4, Zenon
<1>2. /\ \A k \in 1 .. Len(wire) : wire[k].start.byte \in Bytes
      /\ \A k \in 1 .. Len(shifter) : shifter[k].byte \in Bytes
      /\ \A k \in 1 .. Len(fifo) : fifo[k] \in Bytes
  <2>1. \A r \in Started : r.byte \in Bytes
    BY DEF Started
  <2>2. ASSUME NEW k \in 1 .. Len(wire) PROVE wire[k].start.byte \in Bytes
    <3>1. wire[k] \in [start : Started, clean : BOOLEAN]
      BY <1>0, ElementOf, Zenon
    <3>2. wire[k].start \in Started
      BY <3>1
    <3> QED
      BY <2>1, <3>2
  <2>3. ASSUME NEW k \in 1 .. Len(shifter) PROVE shifter[k].byte \in Bytes
    <3>1. shifter[k] \in Started
      BY <1>0
    <3> QED
      BY <2>1, <3>1
  <2>4. \A k \in 1 .. Len(fifo) : fifo[k] \in Bytes
    BY <1>0
  <2> QED
    BY <2>2, <2>3, <2>4
<1>3. ASSUME NEW k \in 1 .. LineLen PROVE Line[k] \in Bytes
  <2>1. CASE k <= Len(wire)
    BY <1>1, <1>2, <2>1 DEF Line, LineLen
  <2>2. CASE k > Len(wire) /\ k <= Len(wire) + Len(shifter)
    <3>1. k - Len(wire) \in 1 .. Len(shifter) /\ Line[k] = shifter[k - Len(wire)].byte
      BY <1>1, <2>2 DEF Line, LineLen
    <3> QED
      BY <1>2, <3>1
  <2>3. CASE k > Len(wire) + Len(shifter)
    <3>1. /\ k - Len(wire) - Len(shifter) \in 1 .. Len(fifo)
          /\ Line[k] = fifo[k - Len(wire) - Len(shifter)]
      BY <1>1, <2>3 DEF Line, LineLen
    <3> QED
      BY <1>2, <3>1
  <2> QED
    BY <1>1, <2>1, <2>2, <2>3
<1>4. LineLen \in Nat /\ DOMAIN Line = 1 .. LineLen
  BY <1>1 DEF Line, LineLen
<1>5. Line \in [1 .. LineLen -> Bytes]
  BY <1>3, <1>4, Zenon DEF Line
<1>6. Line \in Seq(Bytes) /\ Len(Line) = LineLen
  BY <1>4, <1>5
<1> QED
  BY <1>1, <1>6 DEF Line, LineLen

\* A byte that moves on stays at its place of the line.
LEMMA ShiftKeepsLine ==
  ASSUME TypeOK, Shift
  PROVE  Line' = Line
<1>1. Len(wire) \in Nat /\ Len(shifter) \in 0 .. 1 /\ Len(fifo) \in Nat
  BY LineParts
<1> USE DEF TypeOK, LineOK
<1>2. CASE shifter = <<>> /\ fifo # <<>>
  <2> DEFINE started == [byte |-> Head(fifo), pin |-> pin, baud |-> baud]
  <2>1. fifo' = Tail(fifo) /\ shifter' = <<started>> /\ wire' = wire
    BY <1>2 DEF Shift
  <2>2. started.byte = fifo[1] /\ Len(shifter) = 0
    BY <1>2
  <2> HIDE DEF started
  <2>3. /\ Len(fifo') = Len(fifo) - 1 /\ \A k \in 1 .. Len(fifo) - 1 : fifo'[k] = fifo[k + 1]
        /\ Len(shifter') = 1 /\ shifter'[1] = started
    BY <1>2, <2>1
  <2>4. LineLen' = LineLen
    <3>1. /\ Len(wire') = Len(wire) /\ Len(shifter') = Len(shifter) + 1
          /\ Len(fifo') = Len(fifo) - 1
      BY <2>1, <2>2, <2>3
    <3>2. LineLen' = Len(wire') + Len(shifter') + Len(fifo')
      BY DEF LineLen
    <3> QED
      BY <1>1, <3>1, <3>2 DEF LineLen
  <2>5. ASSUME NEW k \in 1 .. LineLen PROVE Line'[k] = Line[k]
    <3>1. CASE k <= Len(wire)
      BY <2>1, <2>4, <3>1 DEF Line
    <3>2. CASE k = Len(wire) + 1
      <4>1. Line'[k] = shifter'[1].byte
        BY <1>1, <2>1, <2>3, <2>4, <3>2 DEF Line
      <4>2. Line[k] = fifo[1]
        BY <1>1, <2>2, <3>2 DEF Line
      <4> QED
        BY <2>2, <2>3, <4>1, <4>2
    <3>3. CASE k > Len(wire) + 1
      <4>1. Line'[k] = fifo'[k - Len(wire) - 1]
        <5>1. Len(wire') = Len(wire) /\ Len(shifter') = 1
          BY <2>1, <2>3
        <5>2. k \in 1 .. LineLen' /\ ~(k <= Len(wire')) /\ ~(k <= Len(wire') + Len(shifter'))
          BY <1>1, <2>4, <3>3, <5>1 DEF LineLen
        <5>3. Line'[k] = fifo'[k - Len(wire') - Len(shifter')]
          BY <5>2 DEF Line
        <5> QED
          BY <5>1, <5>3
      <4>2. Line[k] = fifo[k - Len(wire)]
        BY <1>1, <2>2, <3>3 DEF Line
      <4>3. k - Len(wire) - 1 \in 1 .. Len(fifo) - 1
        BY <1>1, <2>2, <3>3 DEF LineLen
      <4> QED
        BY <1>1, <2>3, <4>1, <4>2, <4>3
    <3> QED
      BY <1>1, <3>1, <3>2, <3>3 DEF LineLen
  <2> QED
    BY <2>4, <2>5 DEF Line
<1>3. CASE shifter # <<>>
  <2> DEFINE sent == [start |-> shifter[1],
                      clean |-> pin = shifter[1].pin /\ baud = shifter[1].baud]
  <2>1. fifo' = fifo /\ shifter' = <<>> /\ wire' = Append(wire, sent)
    BY <1>3, Zenon DEF Shift
  <2>2. sent.start = shifter[1] /\ Len(shifter) = 1
    <3>1. sent.start = shifter[1]
      OBVIOUS
    <3>2. Len(shifter) = 1
      <4>1. shifter \in Seq(Started)
        OBVIOUS
      <4>2. Len(shifter) # 0
        BY <1>3, <4>1
      <4> QED
        BY <1>1, <4>2
    <3> QED
      BY <3>1, <3>2
  <2> HIDE DEF sent
  <2>3. /\ Len(wire') = Len(wire) + 1 /\ wire'[Len(wire) + 1] = sent
        /\ \A k \in 1 .. Len(wire) : wire'[k] = wire[k]
        /\ Len(shifter') = 0
    BY <2>1
  <2>4. LineLen' = LineLen
    BY <1>1, <2>1, <2>2, <2>3 DEF LineLen
  <2>5. ASSUME NEW k \in 1 .. LineLen PROVE Line'[k] = Line[k]
    <3>1. CASE k <= Len(wire)
      <4>1. Line'[k] = wire'[k].start.byte
        BY <1>1, <2>3, <2>4, <3>1 DEF Line
      <4>2. Line[k] = wire[k].start.byte
        BY <3>1 DEF Line
      <4>3. k \in 1 .. Len(wire)
        BY <1>1, <3>1 DEF LineLen
      <4> QED
        BY <2>3, <4>1, <4>2, <4>3
    <3>2. CASE k = Len(wire) + 1
      <4>1. Line'[k] = wire'[k].start.byte
        BY <1>1, <2>3, <2>4, <3>2 DEF Line
      <4>2. Line[k] = shifter[1].byte
        BY <1>1, <2>2, <3>2 DEF Line
      <4> QED
        BY <2>2, <2>3, <3>2, <4>1, <4>2
    <3>3. CASE k > Len(wire) + 1
      <4>1. Line'[k] = fifo'[k - (Len(wire) + 1) - 0]
        BY <1>1, <2>3, <2>4, <3>3 DEF Line
      <4>2. Line[k] = fifo[k - Len(wire) - 1]
        BY <1>1, <2>2, <3>3 DEF Line
      <4> QED
        BY <1>1, <2>1, <4>1, <4>2
    <3> QED
      BY <1>1, <3>1, <3>2, <3>3 DEF LineLen
  <2> QED
    BY <2>4, <2>5 DEF Line
<1> QED
  BY <1>2, <1>3 DEF Shift

\* A byte that joins the FIFO joins the line.
LEMMA FifoAppendsLine ==
  ASSUME TypeOK, NEW e \in Bytes, fifo' = Append(fifo, e), UNCHANGED <<shifter, wire>>
  PROVE  Line' = Append(Line, e)
<1>1. Len(wire) \in Nat /\ Len(shifter) \in 0 .. 1 /\ Len(fifo) \in Nat
  BY LineParts
<1>2. Line \in Seq(Bytes) /\ Len(Line) = LineLen /\ DOMAIN Line = 1 .. LineLen /\ LineLen \in Nat
  BY <1>1, LineParts DEF LineLen
<1>3. /\ Len(fifo') = Len(fifo) + 1 /\ fifo'[Len(fifo) + 1] = e
      /\ \A k \in 1 .. Len(fifo) : fifo'[k] = fifo[k]
  BY DEF TypeOK, LineOK
<1>4. LineLen' = LineLen + 1
  BY <1>1, <1>3 DEF LineLen
<1>5. /\ DOMAIN Append(Line, e) = 1 .. LineLen + 1 /\ Append(Line, e)[LineLen + 1] = e
      /\ \A k \in 1 .. LineLen : Append(Line, e)[k] = Line[k]
  <2> DEFINE l == Line
  <2>1. l \in Seq(Bytes) /\ Len(l) = LineLen
    BY <1>2
  <2> HIDE DEF l
  <2>2. /\ DOMAIN Append(l, e) = 1 .. LineLen + 1 /\ Append(l, e)[LineLen + 1] = e
        /\ \A k \in 1 .. LineLen : Append(l, e)[k] = l[k]
    BY <2>1
  <2> QED
    BY <2>2 DEF l
<1>6. ASSUME NEW k \in 1 .. LineLen + 1 PROVE Line'[k] = Append(Line, e)[k]
  <2>1. CASE k <= Len(wire) + Len(shifter)
    <3>1. k \in 1 .. LineLen
      BY <1>1, <2>1 DEF LineLen
    <3>2. Line'[k] = Line[k]
      BY <1>2, <1>4, <2>1, <3>1 DEF Line
    <3> QED
      BY <1>5, <3>1, <3>2
  <2>2. CASE k > Len(wire) + Len(shifter) /\ k <= LineLen
    <3>1. Line'[k] = fifo'[k - Len(wire) - Len(shifter)]
      <4>1. /\ wire' = wire /\ shifter' = shifter /\ k \in 1 .. LineLen'
            /\ ~(k <= Len(wire)) /\ ~(k <= Len(wire) + Len(shifter))
        BY <1>1, <1>4, <2>2
      <4> QED
        BY <4>1 DEF Line
    <3>2. Line[k] = fifo[k - Len(wire) - Len(shifter)]
      BY <1>1, <2>2 DEF Line
    <3>3. k - Len(wire) - Len(shifter) \in 1 .. Len(fifo) /\ k \in 1 .. LineLen
      BY <1>1, <2>2 DEF LineLen
    <3> QED
      BY <1>3, <1>5, <3>1, <3>2, <3>3
  <2>3. CASE k = LineLen + 1
    <3>1. Line'[k] = fifo'[k - Len(wire) - Len(shifter)]
      <4>1. k \in 1 .. LineLen + 1 /\ ~(k <= Len(wire)) /\ ~(k <= Len(wire) + Len(shifter))
        BY <1>1, <1>2, <2>3 DEF LineLen
      <4>2. wire' = wire /\ shifter' = shifter /\ k \in 1 .. LineLen'
        BY <1>4, <4>1
      <4> QED
        BY <4>1, <4>2 DEF Line
    <3>2. k - Len(wire) - Len(shifter) = Len(fifo) + 1
      BY <1>1, <2>3 DEF LineLen
    <3> QED
      BY <1>3, <1>5, <2>3, <3>1, <3>2
  <2> QED
    BY <1>2, <2>1, <2>2, <2>3
<1>7. Line' = [k \in 1 .. LineLen + 1 |-> Line'[k]]
  BY <1>4 DEF Line
<1>8. Append(Line, e) = [k \in 1 .. LineLen + 1 |-> Append(Line, e)[k]]
  <2> DEFINE l == Line
  <2>1. l \in Seq(Bytes) /\ Len(l) = LineLen
    BY <1>2
  <2> HIDE DEF l
  <2>2. Append(l, e) \in Seq(Bytes) /\ Len(Append(l, e)) = LineLen + 1
    BY <2>1
  <2> DEFINE a == Append(l, e)
  <2> HIDE DEF a
  <2>4. a \in Seq(Bytes) /\ Len(a) = LineLen + 1
    BY <2>2 DEF a
  <2>5. a = [k \in 1 .. Len(a) |-> a[k]]
    BY <2>4
  <2>3. Append(l, e) = [k \in 1 .. LineLen + 1 |-> Append(l, e)[k]]
    BY <2>4, <2>5 DEF a
  <2> QED
    BY <2>3 DEF l
<1> QED
  BY <1>6, <1>7, <1>8

\* Every step keeps the mutex in use by every write.
LEMMA AllLockStep == TypeOK /\ AllLock /\ [Next]_vars => AllLock'
<1> SUFFICES ASSUME TypeOK, AllLock, [Next]_vars PROVE AllLock'
  OBVIOUS
<1> USE DEF TypeOK, CallsOK, AllLock, Goto
<1>1. CASE vfs_init
  BY <1>1 DEF vfs_init, callVars
<1>2. CASE AppSetup
  BY <1>2 DEF AppSetup
<1>3. CASE Shift \/ AppSend \/ UNCHANGED vars
  BY <1>3 DEF Shift, AppSend, vars, callVars
<1>4. ASSUME NEW w \in Writers, Call(w) PROVE AllLock'
  BY <1>4 DEF Call
<1>5. ASSUME NEW w \in Writers, Write(w) PROVE AllLock'
  <2>1. UNCHANGED <<g_mutex, uart0_tx, mutex>>
    BY <1>5 DEF Write, Sample, Borrow, Restore, Take, WaitEmpty, Delay, Route, SetBaud, Reset,
       Give, Space, Push, EndText, callVars
  <2>2. pc[w] # "idle" /\ \A v \in Writers \ {w} : pc'[v] = pc[v]
    BY <1>5 DEF Write, Sample, Borrow, Restore, Take, WaitEmpty, Delay, Route, SetBaud, Reset,
       Give, Space, Push, EndText
  <2> QED
    BY <2>1, <2>2
<1> QED
  BY <1>1, <1>2, <1>3, <1>4, <1>5 DEF Next

\* Every step keeps a write that has not begun its text at the beginning.
LEMMA AtStartStep == TypeOK /\ AtStart /\ [Next]_vars => AtStart'
<1> SUFFICES ASSUME TypeOK, AtStart, [Next]_vars PROVE AtStart'
  OBVIOUS
<1> USE DEF TypeOK, CallsOK, AtStart, Before, Goto
<1>1. CASE vfs_init \/ Shift \/ AppSetup \/ AppSend \/ UNCHANGED vars
  <2>1. UNCHANGED <<pc, pos, cr>>
    BY <1>1 DEF vfs_init, Shift, AppSetup, AppSend, vars, callVars
  <2> QED
    BY <2>1
<1>2. ASSUME NEW w \in Writers, Call(w) PROVE AtStart'
  BY <1>2 DEF Call
<1>3. ASSUME NEW w \in Writers, Push(w) PROVE AtStart'
  <2>1. \A v \in Writers \ {w} : pc'[v] = pc[v] /\ pos'[v] = pos[v] /\ cr'[v] = cr[v]
    BY <1>3 DEF Push
  <2>2. pc'[w] = "space"
    BY <1>3 DEF Push
  <2> QED
    BY <2>1, <2>2
<1>4. ASSUME NEW w \in Writers, Write(w), ~Push(w) PROVE AtStart'
  <2>1. UNCHANGED <<pos, cr>>
    BY <1>4 DEF Write, Sample, Borrow, Restore, Take, WaitEmpty, Delay, Route, SetBaud, Reset,
       Give, Space, EndText, callVars
  <2>2. /\ \A v \in Writers \ {w} : pc'[v] = pc[v]
        /\ pc'[w] \in Before => pc[w] \in Before
    BY <1>4 DEF Write, Sample, Borrow, Restore, Take, WaitEmpty, Delay, Route, SetBaud, Reset,
       Give, Space, EndText
  <2> QED
    BY <2>1, <2>2
<1> QED
  BY <1>1, <1>2, <1>3, <1>4 DEF Next

\* Every step keeps a place for the redirected write that is about to push.
LEMMA RoomStep == TypeOK /\ Locked /\ AllLock /\ Room /\ [Next]_vars => Room'
<1> SUFFICES ASSUME TypeOK, Locked, AllLock, Room, [Next]_vars,
                    NEW w \in Writers, pc'[w] = "push", Redirects(w)'
             PROVE  Len(fifo') < FifoLen
  BY DEF Room
<1> USE DEF TypeOK, CallsOK, LineOK, Goto
<1>1. CASE AppSetup \/ AppSend
  BY <1>1 DEF AppSetup, AppSend
<1>2. CASE Shift
  <2>1. Len(fifo') <= Len(fifo)
    BY <1>2 DEF Shift
  <2>2. Len(fifo) < FifoLen
    BY <1>2 DEF Shift, Room, Redirects, callVars
  <2> QED
    BY <2>1, <2>2, FifoAssumption
<1>3. CASE vfs_init \/ UNCHANGED vars
  BY <1>3 DEF vfs_init, vars, hwVars, callVars, Room, Redirects
<1>4. ASSUME NEW v \in Writers, Call(v) \/ Sample(v) \/ EndText(v) PROVE Len(fifo') < FifoLen
  BY <1>4 DEF Call, Sample, EndText, hwVars, callVars, Room, Redirects
<1>5. ASSUME NEW v \in Writers, Space(v) PROVE Len(fifo') < FifoLen
  BY <1>5, FifoAssumption DEF Space, hwVars, callVars, Room, Redirects
<1>6. ASSUME NEW v \in Writers, Push(v) PROVE Len(fifo') < FifoLen
  <2>1. v # w /\ pc[w] = "push" /\ Redirects(w) /\ pc[v] = "push"
    BY <1>6 DEF Push, Redirects
  <2>2. Redirects(v)
    BY <2>1 DEF AllLock, Redirects
  <2>3. Holds(v) /\ Holds(w)
    BY <2>1, <2>2 DEF Holds
  <2> QED
    BY <2>1, <2>3 DEF Locked
<1>7. ASSUME NEW v \in Writers, Borrow(v) \/ Restore(v) PROVE Len(fifo') < FifoLen
  <2>1. fifo' = fifo \/ fifo' = <<>>
    BY <1>7 DEF Borrow, Restore, Take, WaitEmpty, Delay, Route, SetBaud, Reset, Give, hwVars
  <2>2. pc[w] = "push" /\ Redirects(w)
    BY <1>7 DEF Borrow, Restore, Take, WaitEmpty, Delay, Route, SetBaud, Reset, Give, Redirects,
       callVars
  <2> QED
    BY <2>1, <2>2, FifoAssumption DEF Room
<1> QED
  BY <1>1, <1>2, <1>3, <1>4, <1>5, <1>6, <1>7 DEF Next, Write

\* A redirected write has the UART from the beginning of its text on.
LEMMA SendsHolds ==
  ASSUME TypeOK, Locked, NEW w \in Writers, Sends(w)
  PROVE  Holds(w) /\ Redirects(w) /\ owner = w /\ \A v \in Writers : Holds(v) => v = w
BY DEF Sends, Sending, After, Holds, Borrowing, Locked

\* While a redirected write sends, no byte of one leaves the line, and only its
\* own join it.
LEMMA LineKept ==
  ASSUME TypeOK, Locked, RedInv, [Next]_vars, NEW w \in Writers, Sends(w), ~Push(w),
         NEW b, b.red, NEW n, On(Line, b, n)
  PROVE  On(Line', b, n)
<1> USE DEF Goto
<1>0. /\ Holds(w) /\ owner = w /\ \A v \in Writers : Holds(v) => v = w
      /\ Line \in Seq(Bytes) /\ owner # None
  BY SendsHolds, LineParts, WritersAssumption
<1>1. CASE UNCHANGED <<fifo, shifter, wire>>
  <2>1. Line' = Line
    BY <1>1 DEF Line, LineLen
  <2> QED
    BY <2>1
<1>2. CASE Shift
  <2>1. Line' = Line
    BY <1>2, ShiftKeepsLine
  <2> QED
    BY <2>1
<1>3. CASE AppSend
  BY <1>0, <1>3 DEF AppSend
<1>4. ASSUME NEW v \in Writers, Push(v) PROVE On(Line', b, n)
  <2>1. pc[v] = "push" /\ v # w
    BY <1>4 DEF Push
  <2>2. ~Redirects(v)
    BY <1>0, <2>1 DEF Holds
  <2>3. NextByte(v).red = FALSE
    BY <2>2 DEF NextByte, Redirects
  <2>4. NextByte(v) \in Bytes
    <3>1. text[v] \in Texts \cup {<<>>} /\ pos[v] \in Nat \ {0} /\ pos[v] <= Len(text[v])
      BY <2>1 DEF TypeOK, CallsOK
    <3>2. text[v][pos[v]] \in Chars
      BY <3>1, TextBytes
    <3>3. NextByte(v) = [by |-> v, c |-> IF BeforeLF(v) THEN CR ELSE text[v][pos[v]], red |-> FALSE]
      BY <2>2 DEF NextByte, Redirects
    <3>4. CR \in Chars
      BY DEF Chars
    <3> QED
      BY <3>2, <3>3, <3>4 DEF Bytes
  <2>5. CASE UNCHANGED fifo
    BY <1>1, <1>4, <2>5 DEF Push
  <2>6. CASE fifo' = Append(fifo, NextByte(v))
    <3>1. UNCHANGED <<shifter, wire>>
      BY <1>4 DEF Push
    <3> DEFINE e == NextByte(v)
    <3> HIDE DEF e
    <3>2. e \in Bytes /\ e.red = FALSE /\ fifo' = Append(fifo, e)
      BY <2>3, <2>4, <2>6 DEF e
    <3>3. Line' = Append(Line, e)
      BY <3>1, <3>2, FifoAppendsLine
    <3>4. On(Append(Line, e), b, IF e.red THEN n + 1 ELSE n)
      BY <1>0, <3>2, OnAppend
    <3> QED
      BY <3>2, <3>3, <3>4
  <2> QED
    BY <1>4, <2>5, <2>6 DEF Push
<1>5. ASSUME NEW v \in Writers, NEW p, NEW q, Reset(v, p, q), p \in {"reset", "reset2"}
      PROVE  On(Line', b, n)
  <2>1. pc[v] = p /\ Holds(v)
    BY <1>5 DEF Reset, Holds, Borrowing
  <2>2. v = w
    BY <1>0, <2>1
  <2>3. pc[w] = "reset2"
    BY <1>5, <2>1, <2>2 DEF Sends, Sending, After
  <2>4. \A m \in DOMAIN fifo : ~fifo[m].red
    <3>1. ASSUME NEW u \in Writers, Sending(u) \/ pc[u] = "drain2" PROVE FALSE
      <4>1. Holds(u)
        BY <3>1 DEF Sending, Holds, Borrowing
      <4> QED
        BY <1>0, <2>3, <3>1, <4>1 DEF Sending
    <3> QED
      BY <3>1 DEF RedInv
  <2>5. /\ Len(wire) \in Nat /\ Len(shifter) \in 0 .. 1 /\ Len(fifo) \in Nat
        /\ Len(Line) = Len(wire) + Len(shifter) + Len(fifo)
        /\ \A k \in 1 .. Len(fifo) : Line[Len(wire) + Len(shifter) + k] = fifo[k]
    BY LineParts
  <2>6. UNCHANGED <<shifter, wire>> /\ fifo' = <<>>
    BY <1>5 DEF Reset
  <2>7. LineLen' = Len(wire) + Len(shifter)
    BY <2>5, <2>6 DEF LineLen
  <2>8. \A k \in 1 .. Len(wire) + Len(shifter) : Line'[k] = Line[k]
    <3> SUFFICES ASSUME NEW k \in 1 .. Len(wire) + Len(shifter) PROVE Line'[k] = Line[k]
      OBVIOUS
    <3>1. k \in 1 .. LineLen /\ k \in 1 .. LineLen'
      BY <2>5, <2>7 DEF LineLen
    <3>2. wire' = wire /\ shifter' = shifter /\ k <= Len(wire) + Len(shifter)
      BY <2>5, <2>6
    <3> QED
      BY <3>1, <3>2 DEF Line
  <2>10. Line' \in Seq(Bytes) /\ Len(Line') = Len(wire) + Len(shifter)
    <3> DEFINE l == Len(wire) + Len(shifter)
    <3>1. l \in Nat /\ \A k \in 1 .. l : Line[k] \in Bytes
      <4>1. l \in Nat /\ l <= Len(Line)
        BY <2>5
      <4> QED
        BY <1>0, <4>1, ElementOf
    <3> HIDE DEF l
    <3>2. Line' = [k \in 1 .. l |-> Line'[k]]
      BY <2>7 DEF Line, l
    <3>3. \A k \in 1 .. l : Line'[k] \in Bytes
      BY <2>8, <3>1 DEF l
    <3>4. Line' \in [1 .. l -> Bytes]
      BY <3>2, <3>3, Zenon
    <3> QED
      BY <3>1, <3>4 DEF l
  <2>11. \A k \in Len(Line') + 1 .. Len(Line) : ~Line[k].red
    <3> SUFFICES ASSUME NEW k \in Len(Line') + 1 .. Len(Line) PROVE ~Line[k].red
      OBVIOUS
    <3>1. k - (Len(wire) + Len(shifter)) \in 1 .. Len(fifo)
      BY <2>5, <2>10
    <3>2. Line[k] = fifo[k - (Len(wire) + Len(shifter))]
      BY <2>5, <2>10, <3>1
    <3> QED
      BY <2>4, <3>1, <3>2, ElementOf DEF TypeOK, LineOK
  <2>12. Len(Line') <= Len(Line) /\ \A k \in 1 .. Len(Line') : Line'[k] = Line[k]
    BY <2>5, <2>8, <2>10
  <2> DEFINE s == Line
             t == Line'
  <2> HIDE DEF s, t
  <2>13. /\ s \in Seq(Bytes) /\ t \in Seq(Bytes) /\ Len(t) <= Len(s) /\ On(s, b, n)
         /\ \A k \in 1 .. Len(t) : t[k] = s[k]
         /\ \A k \in Len(t) + 1 .. Len(s) : ~s[k].red
    BY <1>0, <2>10, <2>11, <2>12 DEF s, t
  <2>14. On(t, b, n)
    BY <2>13, OnPrefix
  <2> QED
    BY <2>14 DEF t
<1>6. ASSUME NEW v \in Writers, Borrow(v) \/ Restore(v)
      PROVE  \/ UNCHANGED <<fifo, shifter, wire>>
             \/ \E p, q : Reset(v, p, q) /\ p \in {"reset", "reset2"}
  BY <1>6 DEF Borrow, Restore, Take, WaitEmpty, Delay, Route, SetBaud, Give, hwVars
<1>7. ASSUME NEW v \in Writers, Call(v) \/ Sample(v) \/ Space(v) \/ EndText(v)
      PROVE  UNCHANGED <<fifo, shifter, wire>>
  BY <1>7 DEF Call, Sample, Space, EndText, hwVars
<1>8. vfs_init \/ AppSetup \/ UNCHANGED vars => UNCHANGED <<fifo, shifter, wire>>
  BY DEF vfs_init, AppSetup, vars, hwVars
<1> QED
  BY <1>1, <1>2, <1>3, <1>4, <1>5, <1>6, <1>7, <1>8 DEF Next, Write

\* Whoever sends after a step that sends no byte of its text sent before it, or
\* has just got to its text; and only at the end of its text does it go on.
LEMMA SendsStep ==
  ASSUME TypeOK, Locked, [Next]_vars, NEW w \in Writers, Sends(w)', ~Push(w)
  PROVE  /\ text'[w] = text[w] /\ pos'[w] = pos[w] /\ cr'[w] = cr[w]
         /\ \/ pc[w] = "reset" /\ ~After(w)'
            \/ Sends(w) /\ (After(w)' => After(w) \/ pos[w] > Len(text[w]))
<1> USE DEF TypeOK, CallsOK, Goto, Sends, Sending, After, Redirects
<1>1. CASE AppSetup
  BY <1>1 DEF AppSetup
<1>2. CASE vfs_init \/ Shift \/ AppSend \/ UNCHANGED vars
  <2>1. UNCHANGED <<pc, text, pos, cr, mutex, uart0_tx>>
    BY <1>2 DEF vfs_init, Shift, AppSend, vars, callVars
  <2> QED
    BY <2>1
<1>3. ASSUME NEW v \in Writers, v # w, Call(v) \/ Write(v)
      PROVE  /\ text'[w] = text[w] /\ pos'[w] = pos[w] /\ cr'[w] = cr[w]
             /\ pc'[w] = pc[w] /\ mutex'[w] = mutex[w] /\ uart0_tx' = uart0_tx
  BY <1>3 DEF Call, Write, Sample, Borrow, Restore, Take, WaitEmpty, Delay, Route, SetBaud, Reset,
     Give, Space, Push, EndText, callVars
<1>4. ASSUME Call(w) \/ Sample(w) PROVE FALSE
  BY <1>4 DEF Call, Sample, callVars
<1>5. ASSUME Write(w) PROVE UNCHANGED <<text, pos, cr, mutex, uart0_tx>>
  BY <1>5 DEF Write, Sample, Borrow, Restore, Take, WaitEmpty, Delay, Route, SetBaud, Reset,
     Give, Space, EndText, callVars
<1>6. CASE Borrow(w)
  <2>1. pc[w] = "reset" /\ pc'[w] = "space"
    BY <1>6 DEF Borrow, Take, WaitEmpty, Delay, Route, SetBaud, Reset
  <2> QED
    BY <1>5, <1>6, <2>1 DEF Write
<1>7. CASE Restore(w)
  <2>1. After(w)
    BY <1>7 DEF Restore, WaitEmpty, Delay, Route, SetBaud, Reset, Give
  <2> QED
    BY <1>5, <1>7, <2>1 DEF Write
<1>8. CASE Space(w)
  BY <1>5, <1>8 DEF Write, Space
<1>9. CASE EndText(w)
  BY <1>5, <1>9 DEF Write, EndText
<1>10. CASE \E v \in Writers : v # w /\ (Call(v) \/ Write(v))
  BY <1>3, <1>10
<1> QED
  BY <1>1, <1>2, <1>4, <1>6, <1>7, <1>8, <1>9, <1>10 DEF Next, Write

\* A write's text is a sequence, its place in it a number.
LEMMA TextPlace ==
  ASSUME TypeOK, NEW w \in Writers
  PROVE  /\ Len(text[w]) \in Nat /\ DOMAIN text[w] = 1 .. Len(text[w])
         /\ pos[w] \in Nat \ {0} /\ pos[w] - 1 \in Nat /\ cr[w] \in BOOLEAN
         /\ Sent(text[w], pos[w] - 1) \in Nat /\ SoFar(w) \in Nat
<1>1. pos[w] \in Nat \ {0} /\ cr[w] \in BOOLEAN /\ text[w] \in Texts \cup {<<>>}
  BY DEF TypeOK, CallsOK
<1>2. pos[w] - 1 \in Nat
  BY <1>1
<1>3. Len(text[w]) \in Nat /\ DOMAIN text[w] = 1 .. Len(text[w])
  <2>1. CASE text[w] \in Texts
    <3>1. text[w] \in Seq(ToSet(text[w]))
      BY <2>1, TextsAssumption
    <3> QED
      BY <3>1
  <2>2. CASE text[w] = <<>>
    BY <2>2
  <2> QED
    BY <1>1, <2>1, <2>2
<1>4. Sent(text[w], pos[w] - 1) \in Nat
  BY <1>2, SentNext
<1> QED
  BY <1>1, <1>2, <1>3, <1>4 DEF SoFar

\* The next byte of a redirected write joins the line behind what it has sent.
LEMMA PushKeepsSent ==
  ASSUME TypeOK, Locked, Room, SentInv, NEW w \in Writers, Push(w), Sends(w)'
  PROVE  SentBy(w)'
<1> DEFINE e == NextByte(w)
           t == text[w]
           i == pos[w]
<1>1. /\ pc[w] = "push" /\ Redirects(w) /\ pc'[w] = "space" /\ text' = text
      /\ mutex' = mutex /\ uart0_tx' = uart0_tx
  <2>1. pc[w] = "push" /\ text' = text /\ mutex' = mutex /\ uart0_tx' = uart0_tx
    BY DEF Push
  <2>2. pc'[w] = "space"
    BY DEF Push, Goto, TypeOK, CallsOK
  <2> QED
    BY <2>1, <2>2 DEF Sends, Sending, After, Redirects
<1>2. SentBy(w)
  BY <1>1 DEF SentInv, Sends, Sending
<1>3. /\ i <= Len(t) /\ Len(t) \in Nat /\ i \in Nat \ {0} /\ i - 1 \in Nat /\ cr[w] \in BOOLEAN
      /\ Sent(t, i - 1) \in Nat /\ SoFar(w) \in Nat
  BY <1>1, TextPlace DEF TypeOK, CallsOK
<1>4. e = RedByte(w, IF BeforeLF(w) THEN CR ELSE t[i]) /\ e.red = TRUE /\ e \in Bytes
  <2>1. Redirects(w) = TRUE
    BY <1>1, Zenon DEF Redirects, TypeOK, CallsOK, UartOK
  <2>2. e = RedByte(w, IF BeforeLF(w) THEN CR ELSE t[i])
    BY <2>1 DEF NextByte, RedByte
  <2>3. t \in Texts /\ i \in 1 .. Len(t)
    BY <1>3 DEF TypeOK, CallsOK
  <2>4. t[i] \in Chars /\ CR \in Chars
    BY <2>3, TextBytes DEF Chars
  <2> QED
    BY <2>2, <2>4 DEF RedByte, Bytes
<1> HIDE DEF e
<1>5. Line' = Append(Line, e)
  <2>1. Len(fifo) < FifoLen
    BY <1>1 DEF Room
  <2>2. fifo' = Append(fifo, e) /\ UNCHANGED <<shifter, wire>>
    BY <2>1 DEF Push, e
  <2> QED
    BY <1>4, <2>2, FifoAppendsLine
<1>6. On(Line', e, 0) /\ \A b, n : On(Line, b, n) => On(Line', b, n + 1)
  <2>1. Line \in Seq(Bytes)
    BY LineParts
  <2>2. /\ On(Append(Line, e), e, 0)
        /\ \A b, n : On(Line, b, n) => On(Append(Line, e), b, IF e.red THEN n + 1 ELSE n)
    BY <1>4, <2>1, OnAppend
  <2> QED
    BY <1>4, <1>5, <2>2
<1>7. cr'[w] = BeforeLF(w) /\ pos'[w] = IF BeforeLF(w) THEN i ELSE i + 1
  BY DEF Push, TypeOK, CallsOK
<1>8. ~After(w)'
  BY <1>1 DEF After
<1>9. \A n \in 1 .. i - 1 : Sent(t, n) \in Nat
  <2>1. \A n \in 1 .. i - 1 : n \in Nat
    BY <1>3
  <2>2. \A n \in Nat : Sent(t, n) \in Nat
    BY ONLY SentNext, Zenon
  <2> QED
    BY ONLY <2>1, <2>2, Zenon
<1>10. ASSUME SoFar(w)' = SoFar(w) + 1, NEW n \in 1 .. i - 1 PROVE Placed(w, n)'
  <2>1. Placed(w, n)
    BY <1>2 DEF SentBy
  <2>2. (SoFar(w) - Sent(t, n)) + 1 = SoFar(w)' - Sent(t, n)
    BY <1>3, <1>9, <1>10
  <2>3. (SoFar(w) - Sent(t, n) + 1) + 1 = SoFar(w)' - Sent(t, n) + 1
    BY <1>3, <1>9, <1>10
  <2>4. On(Line', RedByte(w, t[n]), SoFar(w)' - Sent(t, n))
    BY <1>6, <2>1, <2>2 DEF Placed
  <2>5. t[n] = LF => On(Line', RedByte(w, CR), SoFar(w)' - Sent(t, n) + 1)
    BY <1>6, <2>1, <2>3 DEF Placed
  <2> QED
    BY <1>1, <2>4, <2>5 DEF Placed, RedByte
<1>11. CASE BeforeLF(w)
  <2>1. cr'[w] = TRUE /\ cr[w] = FALSE /\ t[i] = LF /\ pos'[w] = i
    BY <1>3, <1>7, <1>11 DEF BeforeLF
  <2>2. SoFar(w)' = SoFar(w) + 1
    BY <1>1, <1>3, <2>1 DEF SoFar
  <2>3. On(Line', RedByte(w, CR), 0)
    BY <1>4, <1>6, <1>11
  <2>4. \A n \in 1 .. pos'[w] - 1 : Placed(w, n)'
    BY <1>10, <2>1, <2>2
  <2> QED
    BY <1>1, <1>3, <1>8, <2>1, <2>3, <2>4 DEF SentBy, RedByte
<1>12. CASE ~BeforeLF(w)
  <2>1. cr'[w] = FALSE /\ pos'[w] = i + 1
    BY <1>7, <1>12
  <2>2. cr[w] = (t[i] = LF)
    BY <1>2, <1>3, <1>12 DEF SentBy, BeforeLF
  <2>3. Sent(t, i) = Sent(t, i - 1) + (IF t[i] = LF THEN 2 ELSE 1)
    <3>1. Sent(t, (i - 1) + 1) = Sent(t, i - 1) + (IF t[(i - 1) + 1] = LF THEN 2 ELSE 1)
      BY <1>3, SentNext
    <3>2. (i - 1) + 1 = i
      BY <1>3
    <3> QED
      BY <3>1, <3>2
  <2>4. SoFar(w)' = Sent(t, i)
    <3>1. pos'[w] - 1 = i
      BY <1>3, <2>1
    <3>2. SoFar(w)' = Sent(t, i) + 0
      BY <1>1, <2>1, <3>1 DEF SoFar
    <3>3. Sent(t, i) \in Nat
      BY <1>3, SentNext
    <3> QED
      BY <3>2, <3>3
  <2>5. SoFar(w)' = SoFar(w) + 1
    <3>1. SoFar(w) = Sent(t, i - 1) + (IF cr[w] THEN 1 ELSE 0)
      BY DEF SoFar
    <3>2. CASE t[i] = LF
      <4>1. cr[w] = TRUE
        BY <2>2, <3>2
      <4> QED
        BY <1>3, <2>3, <2>4, <3>1, <3>2, <4>1
    <3>3. CASE t[i] # LF
      <4>1. cr[w] = FALSE
        BY <2>2, <3>3
      <4> QED
        BY <1>3, <2>3, <2>4, <3>1, <3>3, <4>1
    <3> QED
      BY <3>2, <3>3
  <2>6. ASSUME NEW j, j = i PROVE Placed(w, j)'
    <3>1. SoFar(w)' - Sent(t, i) = 0 /\ SoFar(w)' - Sent(t, i) + 1 = 0 + 1
      BY <1>3, <2>4, <2>5
    <3>2. On(Line', RedByte(w, t[i]), SoFar(w)' - Sent(t, i))
      BY <1>4, <1>6, <1>12, <3>1
    <3>3. t[i] = LF => On(Line', RedByte(w, CR), SoFar(w)' - Sent(t, i) + 1)
      <4>1. t[i] = LF => On(Line, RedByte(w, CR), 0)
        BY <1>2, <2>2 DEF SentBy
      <4> QED
        BY <1>6, <3>1, <4>1
    <3> QED
      BY <1>1, <2>6, <3>2, <3>3 DEF Placed, RedByte
  <2>7. \A n \in 1 .. pos'[w] - 1 : Placed(w, n)'
    <3>1. \A n \in 1 .. pos'[w] - 1 : n \in 1 .. i - 1 \/ n = i
      BY <1>3, <2>1
    <3> QED
      BY <1>10, <2>5, <2>6, <3>1
  <2> QED
    BY <1>1, <1>3, <1>8, <2>1, <2>7 DEF SentBy
<1> QED
  BY <1>11, <1>12

\* Every step keeps what a redirected write has sent in its place.
LEMMA SentStep ==
  TypeOK /\ Locked /\ RedInv /\ Room /\ AtStart /\ SentInv /\ [Next]_vars => SentInv'
<1> SUFFICES ASSUME TypeOK, Locked, RedInv, Room, AtStart, SentInv, [Next]_vars,
                    NEW w \in Writers, Sends(w)'
             PROVE  SentBy(w)'
  BY DEF SentInv
<1>1. CASE Push(w)
  BY <1>1, PushKeepsSent
<1>2. CASE ~Push(w)
  <2>1. /\ text'[w] = text[w] /\ pos'[w] = pos[w] /\ cr'[w] = cr[w]
        /\ \/ pc[w] = "reset" /\ ~After(w)'
           \/ Sends(w) /\ (After(w)' => After(w) \/ pos[w] > Len(text[w]))
    BY <1>2, SendsStep
  <2>2. Len(text[w]) \in Nat /\ pos[w] \in Nat
    BY TextPlace
  <2>3. CASE pc[w] = "reset" /\ ~After(w)'
    <3>1. pos[w] = 1 /\ ~cr[w]
      BY <2>3 DEF AtStart, Before
    <3>2. \A n \in 1 .. pos'[w] - 1 : FALSE
      BY <2>1, <3>1
    <3> QED
      BY <2>1, <2>2, <2>3, <3>1, <3>2 DEF SentBy
  <2>4. CASE Sends(w) /\ (After(w)' => After(w) \/ pos[w] > Len(text[w]))
    <3>1. SentBy(w)
      BY <2>4 DEF SentInv
    <3>2. \A b, n : b.red /\ On(Line, b, n) => On(Line', b, n)
      BY <1>2, <2>4, LineKept
    <3>3. \A c : RedByte(w, c).red
      BY DEF RedByte
    <3>4. SoFar(w)' = SoFar(w)
      BY <2>1 DEF SoFar
    <3>5. ASSUME NEW n \in 1 .. pos[w] - 1 PROVE Placed(w, n)'
      <4>1. Placed(w, n)
        BY <3>1 DEF SentBy
      <4> QED
        BY <2>1, <3>2, <3>3, <3>4, <4>1 DEF Placed, RedByte
    <3>6. cr[w] => On(Line', RedByte(w, CR), 0)
      BY <3>1, <3>2, <3>3 DEF SentBy
    <3>7. After(w)' => pos[w] = Len(text[w]) + 1
      BY <2>2, <2>4, <3>1 DEF SentBy
    <3> QED
      BY <2>1, <3>1, <3>5, <3>6, <3>7 DEF SentBy, RedByte
  <2> QED
    BY <2>1, <2>3, <2>4
<1> QED
  BY <1>1, <1>2

\* ... so it is an invariant.
LEMMA SentInvariant == Spec => []SentInv
<1>1. Init => AllLock /\ Room /\ AtStart /\ SentInv
  BY DEF Init, AllLock, Room, AtStart, Before, SentInv, Sends, Sending, After
<1> QED
  BY <1>1, AllLockStep, RoomStep, AtStartStep, SentStep, TypeCorrect, LockInvariant,
     RedInvariant, PTL DEF Spec

\* When a redirected write gives the mutex back its whole text has left, every
\* newline behind its carriage return, in order and with no byte of another
\* redirected write in between: for every text, FIFO length and set of writers.
THEOREM WritesAreDelivered == Spec => []Delivered
<1>1. TypeOK /\ Locked /\ RedInv /\ SentInv => Delivered
  <2> SUFFICES ASSUME TypeOK, Locked, RedInv, SentInv,
                      NEW w \in Writers, pc[w] = "give", NEW n \in DOMAIN text[w]
               PROVE  LET behind == Sent(text[w], Len(text[w])) - Sent(text[w], n)
                      IN  /\ OnWire(RedByte(w, text[w][n]), behind)
                          /\ text[w][n] = LF => OnWire(RedByte(w, CR), behind + 1)
    BY DEF Delivered, RedByte
  <2>1. Sends(w) /\ After(w) /\ SentBy(w)
    BY DEF Sends, After, SentInv
  <2>2. /\ Len(text[w]) \in Nat /\ DOMAIN text[w] = 1 .. Len(text[w])
        /\ pos[w] \in Nat \ {0} /\ cr[w] \in BOOLEAN
    BY TextPlace
  <2>3. pos[w] - 1 = Len(text[w]) /\ cr[w] = FALSE
    BY <2>1, <2>2 DEF SentBy
  <2>4. SoFar(w) = Sent(text[w], Len(text[w]))
    <3>1. Sent(text[w], Len(text[w])) \in Nat
      BY <2>2, SentNext
    <3> QED
      BY <2>3, <3>1 DEF SoFar
  <2>5. Placed(w, n)
    BY <2>1, <2>2, <2>3 DEF SentBy
  <2>6. ASSUME NEW u \in Writers, Sending(u) \/ pc[u] \in {"drain2", "delay2"} PROVE FALSE
    <3>1. Holds(u)
      BY <2>6 DEF Sending, Holds, Borrowing
    <3>2. u = w
      BY <2>1, <3>1, SendsHolds
    <3> QED
      BY <2>6, <3>2 DEF Sending
  <2>7. /\ \A m \in DOMAIN fifo : ~fifo[m].red
        /\ \A m \in DOMAIN shifter : ~shifter[m].byte.red
    BY <2>6 DEF RedInv
  <2>8. ASSUME NEW b, b.red, NEW r, On(Line, b, r) PROVE OnWire(b, r)
    <3> DEFINE gone == [k \in 1 .. Len(wire) |-> wire[k].start.byte]
               s == Line
    <3>1. /\ Len(wire) \in Nat /\ Len(shifter) \in 0 .. 1 /\ Len(fifo) \in Nat
          /\ s \in Seq(Bytes) /\ Len(s) = Len(wire) + Len(shifter) + Len(fifo)
          /\ \A k \in 1 .. Len(wire) : s[k] = wire[k].start.byte
          /\ \A k \in 1 .. Len(shifter) : s[Len(wire) + k] = shifter[k].byte
          /\ \A k \in 1 .. Len(fifo) : s[Len(wire) + Len(shifter) + k] = fifo[k]
          /\ On(s, b, r)
      BY <2>8, LineParts
    <3> HIDE DEF s
    <3>2. \A k \in 1 .. Len(wire) : s[k] \in Bytes
      BY <3>1, ElementOf
    <3>3. gone \in Seq(Bytes) /\ Len(gone) = Len(wire)
      BY <3>1, <3>2
    <3>4. \A k \in 1 .. Len(gone) : gone[k] = s[k]
      BY <3>1, <3>3
    <3>5. \A k \in Len(gone) + 1 .. Len(s) : ~s[k].red
      <4> SUFFICES ASSUME NEW k \in Len(wire) + 1 .. Len(s) PROVE ~s[k].red
        BY <3>3
      <4>1. CASE k <= Len(wire) + Len(shifter)
        <5>1. k - Len(wire) \in 1 .. Len(shifter) /\ Len(wire) + (k - Len(wire)) = k
          BY <3>1, <4>1
        <5>2. s[k] = shifter[k - Len(wire)].byte
          BY <3>1, <5>1
        <5>3. DOMAIN shifter = 1 .. Len(shifter)
          BY DEF TypeOK, LineOK
        <5> QED
          BY <2>7, <5>1, <5>2, <5>3
      <4>2. CASE k > Len(wire) + Len(shifter)
        <5> DEFINE m == k - (Len(wire) + Len(shifter))
        <5>1. m \in 1 .. Len(fifo) /\ Len(wire) + Len(shifter) + m = k
          BY <3>1, <4>2
        <5>2. s[k] = fifo[m]
          BY <3>1, <5>1
        <5>3. DOMAIN fifo = 1 .. Len(fifo)
          BY DEF TypeOK, LineOK
        <5> QED
          BY <2>7, <5>1, <5>2, <5>3
      <4> QED
        BY <3>1, <4>1, <4>2
    <3>6. Len(gone) <= Len(s)
      BY <3>1, <3>3
    <3>7. \A k \in 1 .. Len(wire) : gone[k] = wire[k].start.byte
      OBVIOUS
    <3>8. DOMAIN wire = 1 .. Len(wire) /\ DOMAIN gone = 1 .. Len(wire)
      BY DEF TypeOK, LineOK
    <3> HIDE DEF gone
    <3>9. On(gone, b, r)
      BY <2>8, <3>1, <3>3, <3>4, <3>5, <3>6, OnPrefix
    <3>10. PICK k \in DOMAIN gone : gone[k] = b /\ Cardinality(RedsBehind(gone, k)) = r
      BY <3>9 DEF On
    <3>11. RedsBehind(gone, k) = {m \in k + 1 .. Len(wire) : wire[m].start.byte.red}
      <4>1. \A m \in k + 1 .. Len(wire) : m \in 1 .. Len(wire)
        BY <3>1, <3>8, <3>10
      <4> QED
        BY <3>3, <3>7, <4>1 DEF RedsBehind
    <3>12. k \in DOMAIN wire /\ wire[k].start.byte = b
      BY <3>7, <3>8, <3>10
    <3> QED
      BY <3>10, <3>11, <3>12 DEF OnWire
  <2>9. \A c : RedByte(w, c).red
    BY DEF RedByte
  <2> QED
    BY <2>4, <2>5, <2>8, <2>9 DEF Placed
<1> QED
  BY <1>1, TypeCorrect, LockInvariant, RedInvariant, SentInvariant, PTL

=============================================================================
