------------------------------- MODULE Console -------------------------------
(***************************************************************************)
(* Console output (module/patch/vfs.c).  The application may use UART0 for *)
(* a device on pin uart0_tx at its own speed; a console write borrows the  *)
(* UART: under a mutex it waits for the transmitter to drain, routes TX to *)
(* U0TXD at 115200, sends its text and switches back.  With uart0_tx equal *)
(* to U0TXD_GPIO_NUM, or before vfs_init, writers share the FIFO unlocked. *)
(* The FIFO, the shift register, the pin matrix and the mutex are hardware *)
(* and FreeRTOS, modelled from how vfs.c uses them.                        *)
(***************************************************************************)
EXTENDS Integers, Sequences, FiniteSets, SequencesExt

CONSTANTS
  Writers,     \* contexts that may be inside a console write at the same time
  Texts,       \* what they write, sequences of characters
  LF, CR,      \* the two characters treated specially
  FifoLen,     \* UART_LL_FIFO_DEF_LEN
  AppPins,     \* the pins an application may take for UART0
  U0TXD,       \* U0TXD_GPIO_NUM
  AppBaud,     \* the speed of the device on each of them
  ConsoleBaud, \* 115200
  SlowBauds,   \* speeds at which a character takes longer than the delay
  MaxWrites,   \* bound on the calls of one writer
  MaxAppBytes  \* bound on the bytes the application sends

App == "app"
None == "none"

ASSUME FifoAssumption == FifoLen \in Nat /\ FifoLen >= 2
ASSUME WritersAssumption == None \notin Writers /\ App \notin Writers
ASSUME TextsAssumption == \A t \in Texts : t \in Seq(ToSet(t))
\* A character takes 87 us at 115200 baud, the delay is 1000 us.
ASSUME BaudAssumption == ConsoleBaud \notin SlowBauds

VARIABLES
  g_mutex,   \* TRUE once vfs_init has created the mutex
  owner,     \* the writer that holds it
  uart0_tx, pin, baud,   \* wanted pin; routed pin and speed of UART0
  fifo,      \* bytes waiting: [by, c, red], red when sent under the mutex
  shifter,   \* the byte on its way out with the pin and speed it started at
  wire,      \* bytes that left
  lost,      \* bytes dropped by a full FIFO or a FIFO reset
  pc, mutex, baudrate, text, pos,   \* locals of each write
  cr,        \* TRUE when the '\r' of the newline at pos has been sent
  writes, appBytes,   \* calls made, bytes sent: for the bounds
  raced      \* a write read the speed while another one had changed it

hwVars == <<pin, baud, fifo, shifter, wire, lost>>
callVars == <<mutex, baudrate, text, pos, cr>>
ghosts == <<writes, appBytes, raced>>
vars == <<g_mutex, owner, uart0_tx, hwVars, pc, callVars, ghosts>>

Init ==
  /\ g_mutex = FALSE /\ owner = None
  /\ uart0_tx = U0TXD /\ pin = U0TXD /\ baud = ConsoleBaud
  /\ fifo = <<>> /\ shifter = <<>> /\ wire = <<>> /\ lost = {}
  /\ pc = [w \in Writers |-> "idle"] /\ mutex = [w \in Writers |-> FALSE]
  /\ baudrate = [w \in Writers |-> ConsoleBaud]
  /\ text = [w \in Writers |-> <<>>] /\ pos = [w \in Writers |-> 1]
  /\ cr = [w \in Writers |-> FALSE]
  /\ writes = [w \in Writers |-> 0] /\ appBytes = 0 /\ raced = FALSE

vfs_init ==
  /\ ~g_mutex /\ g_mutex' = TRUE
  /\ UNCHANGED <<owner, uart0_tx, hwVars, pc, callVars, ghosts>>

-----------------------------------------------------------------------------
(* __wrap__write_r_console, one action per access to something shared.     *)

Redirects(w) == mutex[w] /\ uart0_tx # U0TXD
Goto(w, p) == pc' = [pc EXCEPT ![w] = p]

Call(w) ==
  /\ pc[w] = "idle" /\ writes[w] < MaxWrites
  /\ \E t \in Texts : text' = [text EXCEPT ![w] = t]
  /\ mutex' = [mutex EXCEPT ![w] = g_mutex] /\ pos' = [pos EXCEPT ![w] = 1]
  /\ cr' = [cr EXCEPT ![w] = FALSE]
  /\ writes' = [writes EXCEPT ![w] = @ + 1] /\ Goto(w, "sample")
  /\ UNCHANGED <<g_mutex, owner, uart0_tx, hwVars, baudrate, appBytes, raced>>

\* uart_ll_get_baudrate, before the mutex is taken.
Sample(w) ==
  /\ pc[w] = "sample"
  /\ baudrate' = [baudrate EXCEPT ![w] = baud]
  /\ raced' = (raced \/ (owner # None /\ Redirects(w)))
  /\ Goto(w, IF Redirects(w) THEN "take" ELSE "space")
  /\ UNCHANGED <<g_mutex, owner, uart0_tx, hwVars, mutex, text, pos, cr, writes, appBytes>>

\* Mutant: the result of a take that timed out is ignored.
TakeAnyway(w) ==
  /\ pc[w] = "take" /\ owner' = w /\ Goto(w, "drain")
  /\ UNCHANGED <<g_mutex, uart0_tx, hwVars, callVars, ghosts>>
Take(w) ==
  /\ pc[w] = "take" /\ owner = None /\ owner' = w /\ Goto(w, "drain")
  /\ UNCHANGED <<g_mutex, uart0_tx, hwVars, callVars, ghosts>>

\* Mutant: no wait for the FIFO.
NoWaitEmpty(w, p, q) ==
  /\ pc[w] = p /\ Goto(w, q)
  /\ UNCHANGED <<g_mutex, owner, uart0_tx, hwVars, callVars, ghosts>>

\* The loop that waits until the whole FIFO is free.
WaitEmpty(w, p, q) ==
  /\ pc[w] = p /\ fifo = <<>> /\ Goto(w, q)
  /\ UNCHANGED <<g_mutex, owner, uart0_tx, hwVars, callVars, ghosts>>

\* ets_delay_us(1000) outlasts the byte being shifted out, unless it is slow.
Delay(w, p, q) ==
  /\ pc[w] = p /\ (shifter = <<>> \/ baud \in SlowBauds) /\ Goto(w, q)
  /\ UNCHANGED <<g_mutex, owner, uart0_tx, hwVars, callVars, ghosts>>

\* esp_rom_gpio_connect_out_signal
Route(w, p, to, q) ==
  /\ pc[w] = p /\ pin' = to /\ Goto(w, q)
  /\ UNCHANGED <<g_mutex, owner, uart0_tx, baud, fifo, shifter, wire, lost, callVars, ghosts>>

\* uart_ll_set_baudrate
SetBaud(w, p, to, q) ==
  /\ pc[w] = p /\ baud' = to /\ Goto(w, q)
  /\ UNCHANGED <<g_mutex, owner, uart0_tx, pin, fifo, shifter, wire, lost, callVars, ghosts>>

\* uart_ll_txfifo_rst
Reset(w, p, q) ==
  /\ pc[w] = p /\ fifo' = <<>> /\ lost' = lost \cup ToSet(fifo) /\ Goto(w, q)
  /\ UNCHANGED <<g_mutex, owner, uart0_tx, pin, baud, shifter, wire, callVars, ghosts>>

\* Mutants: the wait is satisfied by one free place; the loop runs to <= size.
SpaceForOne(w) ==
  /\ pc[w] = "space" /\ pos[w] <= Len(text[w])
  /\ FifoLen - Len(fifo) >= 1 /\ Goto(w, "push")
  /\ UNCHANGED <<g_mutex, owner, uart0_tx, hwVars, callVars, ghosts>>
SpacePastEnd(w) ==
  /\ pc[w] = "space" /\ pos[w] <= Len(text[w]) + 1
  /\ FifoLen - Len(fifo) >= 2 /\ Goto(w, "push")
  /\ UNCHANGED <<g_mutex, owner, uart0_tx, hwVars, callVars, ghosts>>

\* The loop over the text: wait for two free places ...
Space(w) ==
  /\ pc[w] = "space" /\ pos[w] <= Len(text[w])
  /\ FifoLen - Len(fifo) >= 2 /\ Goto(w, "push")
  /\ UNCHANGED <<g_mutex, owner, uart0_tx, hwVars, callVars, ghosts>>

\* "\n" is sent as "\r\n".
BeforeLF(w) == text[w][pos[w]] = LF /\ ~cr[w]
\* Mutant: the text is not indexed.
FirstByte(w) == [by |-> w, c |-> text[w][1], red |-> Redirects(w)]
NextByte(w) == [by |-> w, c |-> IF BeforeLF(w) THEN CR ELSE text[w][pos[w]],
                red |-> Redirects(w)]

\* ... then write one byte, which a full FIFO drops.
Push(w) ==
  /\ pc[w] = "push"
  /\ IF Len(fifo) < FifoLen
       THEN fifo' = Append(fifo, NextByte(w)) /\ UNCHANGED lost
       ELSE lost' = lost \cup {NextByte(w)} /\ UNCHANGED fifo
  /\ cr' = [cr EXCEPT ![w] = BeforeLF(w)]
  /\ pos' = [pos EXCEPT ![w] = IF BeforeLF(w) THEN @ ELSE @ + 1] /\ Goto(w, "space")
  /\ UNCHANGED <<g_mutex, owner, uart0_tx, pin, baud, shifter, wire, mutex, baudrate,
                 text, ghosts>>

\* Mutant: the UART is switched back without waiting for the text to leave.
EndTextEarly(w) ==
  /\ pc[w] = "space" /\ pos[w] > Len(text[w])
  /\ Goto(w, IF Redirects(w) THEN "route2" ELSE "idle")
  /\ UNCHANGED <<g_mutex, owner, uart0_tx, hwVars, callVars, ghosts>>

EndText(w) ==
  /\ pc[w] = "space" /\ pos[w] > Len(text[w])
  /\ Goto(w, IF Redirects(w) THEN "drain2" ELSE "idle")
  /\ UNCHANGED <<g_mutex, owner, uart0_tx, hwVars, callVars, ghosts>>

\* Mutant: the mutex is not given back.
KeepMutex(w) ==
  /\ pc[w] = "give" /\ Goto(w, "idle")
  /\ UNCHANGED <<g_mutex, owner, uart0_tx, hwVars, callVars, ghosts>>

Give(w) ==
  /\ pc[w] = "give" /\ owner' = None /\ Goto(w, "idle")
  /\ UNCHANGED <<g_mutex, uart0_tx, hwVars, callVars, ghosts>>

Borrow(w) ==
  \/ Take(w) \/ WaitEmpty(w, "drain", "delay") \/ Delay(w, "delay", "route")
  \/ Route(w, "route", U0TXD, "speed") \/ SetBaud(w, "speed", ConsoleBaud, "reset")
  \/ Reset(w, "reset", "space")
\* Mutant: the speed is not put back.
RestorePinOnly(w) ==
  \/ WaitEmpty(w, "drain2", "delay2") \/ Delay(w, "delay2", "route2")
  \/ Route(w, "route2", uart0_tx, "reset2") \/ Reset(w, "reset2", "give")
  \/ Give(w)
Restore(w) ==
  \/ WaitEmpty(w, "drain2", "delay2") \/ Delay(w, "delay2", "route2")
  \/ Route(w, "route2", uart0_tx, "speed2")
  \/ SetBaud(w, "speed2", baudrate[w], "reset2") \/ Reset(w, "reset2", "give")
  \/ Give(w)
Write(w) == Sample(w) \/ Borrow(w) \/ Space(w) \/ Push(w) \/ EndText(w) \/ Restore(w)

-----------------------------------------------------------------------------
(* The transmitter, and the application: it takes UART0 for its own device *)
(* while no console write is in progress, and sends its own bytes while no *)
(* write holds the UART or is in the middle of its text.                   *)

Shift ==
  /\ \/ /\ shifter = <<>> /\ fifo # <<>> /\ fifo' = Tail(fifo)
        /\ shifter' = <<[byte |-> Head(fifo), pin |-> pin, baud |-> baud]>>
        /\ UNCHANGED wire
     \/ /\ shifter # <<>> /\ shifter' = <<>> /\ UNCHANGED fifo
        /\ wire' = Append(wire, [start |-> shifter[1],
                      clean |-> pin = shifter[1].pin /\ baud = shifter[1].baud])
  /\ UNCHANGED <<g_mutex, owner, uart0_tx, pin, baud, lost, pc, callVars, ghosts>>

\* The application is started after vfs_init and moves UART0 to its own pin.
AppSetup ==
  /\ g_mutex /\ uart0_tx = U0TXD /\ \A w \in Writers : pc[w] = "idle"
  /\ uart0_tx' \in AppPins \ {U0TXD} /\ pin' = uart0_tx' /\ baud' = AppBaud[uart0_tx']
  /\ UNCHANGED <<g_mutex, owner, fifo, shifter, wire, lost, pc, callVars, ghosts>>

AppSend ==
  /\ uart0_tx # U0TXD /\ owner = None /\ \A w \in Writers : pc[w] \notin {"space", "push"}
  /\ appBytes < MaxAppBytes /\ Len(fifo) < FifoLen
  /\ fifo' = Append(fifo, [by |-> App, c |-> "x", red |-> FALSE])
  /\ appBytes' = appBytes + 1
  /\ UNCHANGED <<g_mutex, owner, uart0_tx, pin, baud, shifter, wire, lost, pc,
                 callVars, writes, raced>>

Next == vfs_init \/ Shift \/ AppSetup \/ AppSend \/ \E w \in Writers : Call(w) \/ Write(w)

\* The hardware shifts on, and a task that can run is scheduled: the holder
\* of the mutex inherits the priority of the tasks that wait for it.
Fairness == WF_vars(Shift) /\ \A w \in Writers : WF_vars(Write(w))
Spec == Init /\ [][Next]_vars /\ Fairness

-----------------------------------------------------------------------------
(* Properties.                                                             *)

Chars == (UNION {ToSet(t) : t \in Texts}) \cup {CR, "x"}
Bytes == [by : Writers \cup {App}, c : Chars, red : BOOLEAN]
Pins == AppPins \cup {U0TXD}
Bauds == {AppBaud[p] : p \in AppPins \ {U0TXD}} \cup {ConsoleBaud}
Started == [byte : Bytes, pin : Pins, baud : Bauds]
Borrowing == {"drain", "delay", "route", "speed", "reset", "drain2", "delay2",
              "route2", "speed2", "reset2", "give"}

LineOK ==
  /\ fifo \in Seq(Bytes) /\ shifter \in Seq(Started) /\ Len(shifter) <= 1
  /\ wire \in Seq([start : Started, clean : BOOLEAN]) /\ lost \subseteq Bytes
UartOK ==
  /\ owner \in Writers \cup {None} /\ appBytes \in Nat
  /\ uart0_tx \in Pins /\ pin \in Pins /\ baud \in Bauds
FlagsOK == g_mutex \in BOOLEAN /\ raced \in BOOLEAN
CallsOK ==
  /\ pc \in [Writers -> {"idle", "sample", "take", "space", "push"} \cup Borrowing]
  /\ mutex \in [Writers -> BOOLEAN] /\ baudrate \in [Writers -> Bauds]
  /\ text \in [Writers -> Texts \cup {<<>>}]
  /\ pos \in [Writers -> Nat \ {0}] /\ cr \in [Writers -> BOOLEAN]
  /\ writes \in [Writers -> Nat]
  /\ \A w \in Writers : pc[w] = "push" => pos[w] <= Len(text[w])

\* Every variable keeps its type; a write is about to push only while its
\* text has bytes left.
TypeOK == LineOK /\ UartOK /\ FlagsOK /\ CallsOK

Holds(w) == pc[w] \in Borrowing \/ (pc[w] \in {"space", "push"} /\ Redirects(w))

\* One console write at a time has the UART.
Exclusion == \A v, w \in Writers : Holds(v) /\ Holds(w) => v = w

AtMostTwo == \A u, v, w \in Writers : u = v \/ v = w \/ u = w

\* Waiting for two free places is enough for two writers that do not exclude
\* each other (the locks of stdout and stderr leave two): whoever is about to
\* push has a place, whatever the other one pushed since the test.
FifoRoom ==
  AtMostTwo => \A w \in Writers : pc[w] = "push" =>
    /\ FifoLen - Len(fifo) >= 1
    /\ \A v \in Writers \ {w} : pc[v] = "push" => FifoLen - Len(fifo) >= 2

\* A byte of a redirected write leaves on the console pin, at the console
\* speed, from its first to its last bit: never on the application's pin.
ConsoleBytesOnConsole ==
  \A n \in DOMAIN wire : wire[n].start.byte.red =>
    wire[n].clean /\ wire[n].start.pin = U0TXD /\ wire[n].start.baud = ConsoleBaud

\* The speed in force: the console's until the application takes the UART.
Wanted == IF uart0_tx = U0TXD THEN ConsoleBaud ELSE AppBaud[uart0_tx]

\* A byte the application sent leaves whole on the application's pin and, as
\* long as no write sampled the speed during another one, at its speed; a
\* character slower than the delay is excepted.
AppBytesOnApp ==
  Wanted \notin SlowBauds =>
    /\ \A n \in DOMAIN wire : wire[n].start.byte.by = App =>
         /\ wire[n].clean /\ wire[n].start.pin = uart0_tx
         /\ raced \/ wire[n].start.baud = Wanted
    /\ \A b \in lost : b.by # App

\* The bytes the first n characters of t leave as: a newline is two of them.
Sent(t, n) == n + Cardinality({m \in 1 .. n : t[m] = LF})

\* Byte b has left, and exactly n bytes of redirected writes after it.
OnWire(b, n) ==
  \E k \in DOMAIN wire :
    /\ wire[k].start.byte = b
    /\ Cardinality({m \in k + 1 .. Len(wire) : wire[m].start.byte.red}) = n

\* When a redirected write gives the mutex back, its whole text is on the
\* wire, with "\r" before every "\n", in order and with nothing of another
\* redirected write in between or behind it.
Delivered ==
  \A w \in Writers : pc[w] = "give" => \A n \in DOMAIN text[w] :
    LET behind == Sent(text[w], Len(text[w])) - Sent(text[w], n)
    IN  /\ OnWire([by |-> w, c |-> text[w][n], red |-> TRUE], behind)
        /\ text[w][n] = LF => OnWire([by |-> w, c |-> CR, red |-> TRUE], behind + 1)

\* Between redirected writes the UART is as it was last set up; its speed only
\* as long as no write sampled it while another held the UART.
UartRestored ==
  owner = None => pin = uart0_tx /\ (raced \/ baud = Wanted)

\* Every console write returns.
WritesReturn == \A w \in Writers : pc[w] = "sample" ~> pc[w] = "idle"
=============================================================================
