------------------------------- MODULE Console -------------------------------
(***************************************************************************)
(* The simulated console of machine/console.cc: a keyboard that is polled  *)
(* by an interrupt and buffers one character, and a display that takes one *)
(* character at a time.  The devices' callers, locks and semaphores are in *)
(* Drivers.                                                                *)
(*                                                                         *)
(* EOF is the value (char) -1 that stands for "nothing buffered"; it is    *)
(* also what the byte 0xFF becomes when it is read into a char.            *)
(***************************************************************************)
EXTENDS Integers, Sequences

CONSTANTS
  Chars,          \* characters other than EOF
  EOF,            \* -1, and the byte 0xFF
  Keystrokes      \* what a user may type, or an input file hold

ASSUME ConsoleAssumption ==
  EOF \notin Chars /\ Keystrokes \subseteq Seq(Chars \cup {EOF})

VARIABLES
  typed,          \* everything the keyboard will deliver
  keyboard,       \* the part not read from the host yet
  incoming,       \* ConsoleInput::incoming
  polling,        \* a ConsoleReadInt is pending
  atEnd,          \* the host reported the end of the input file
  display,        \* what has been written to the host
  putBusy,        \* ConsoleOutput::putBusy
  putPending      \* a ConsoleWriteInt is pending

inputVars == <<typed, keyboard, incoming, polling, atEnd>>

outputVars == <<display, putBusy, putPending>>

consoleVars == <<inputVars, outputVars>>

\* The constructors: polling starts at once.
ConsoleInit ==
  /\ typed \in Keystrokes /\ keyboard = typed
  /\ incoming = EOF /\ polling = TRUE /\ atEnd = FALSE
  /\ display = <<>> /\ putBusy = FALSE /\ putPending = FALSE

\* ConsoleInput::CallBack.  PollFile finds nothing, or a character, or the end
\* of the file; the last two call callWhenAvail and stop polling.
PollNothing ==
  /\ polling
  /\ UNCHANGED consoleVars

\* As PollChar, going on polling while the character waits.
PollCharAgain ==
  /\ polling /\ keyboard # <<>>
  /\ incoming' = Head(keyboard)
  /\ keyboard' = Tail(keyboard)
  /\ UNCHANGED <<typed, polling, atEnd, outputVars>>

PollChar ==
  /\ polling /\ keyboard # <<>>
  /\ incoming' = Head(keyboard)
  /\ keyboard' = Tail(keyboard)
  /\ polling' = FALSE
  /\ UNCHANGED <<typed, atEnd, outputVars>>

PollEnd ==
  /\ polling /\ keyboard = <<>>
  /\ polling' = FALSE /\ atEnd' = TRUE
  /\ UNCHANGED <<typed, keyboard, incoming, outputVars>>

\* As ConsoleInputGetChar, starting the next poll only when there was nothing.
ConsoleInputGetCharNoPoll ==
  /\ polling' = (polling \/ incoming = EOF)
  /\ incoming' = EOF
  /\ UNCHANGED <<typed, keyboard, atEnd, outputVars>>

\* ConsoleInput::GetChar takes the character; only a real one starts the next poll.
ConsoleInputGetChar ==
  /\ polling' = (polling \/ incoming # EOF)
  /\ incoming' = EOF
  /\ UNCHANGED <<typed, keyboard, atEnd, outputVars>>

\* ConsoleOutput::PutChar (after its ASSERT) and ConsoleOutput::CallBack.
ConsoleOutputPutChar(ch) ==
  /\ display' = Append(display, ch)
  /\ putBusy' = TRUE /\ putPending' = TRUE
  /\ UNCHANGED inputVars

ConsoleOutputCallBack ==
  /\ putPending
  /\ putBusy' = FALSE /\ putPending' = FALSE
  /\ UNCHANGED <<inputVars, display>>

=============================================================================
