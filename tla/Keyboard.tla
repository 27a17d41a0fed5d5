------------------------------ MODULE Keyboard ------------------------------
(***************************************************************************)
(* The queue of characters, src/kernel/keyboard.c.  The interrupt handler  *)
(* of the PS/2 controller and the thread that polls the input devices both *)
(* take scan codes from the controller and put characters into one ring    *)
(* without a lock; the thread also puts in what the USB and Hyper-V        *)
(* keyboards have sent, and takes all out.  The handler runs on the        *)
(* thread's processor with interrupts off: at once, between any two steps  *)
(* of the thread.                                                          *)
(***************************************************************************)
EXTENDS Naturals, Sequences, SequencesExt

CONSTANTS
    QueueSize,  \* slots of character_queue; one always stays free
    MaxKeys     \* bound on the keys

ASSUME KeyboardAssumption == QueueSize \in Nat \ {0, 1} /\ MaxKeys \in Nat

VARIABLES
    k_port,     \* the controller: a code to be read, the last one, an interrupt
    k_ring,     \* character_queue, queue_read, queue_write
    k_shift,    \* shift_pressed
    k_thread,   \* where the thread is, and what it holds
    k_read,     \* the characters the thread has taken out
    k_true,     \* keys so far, shift as it was when the last code was read,
                \* and the characters that should come out
    k_raced     \* how the handler has come between the steps of the thread

keyboardVars == <<k_port, k_ring, k_shift, k_thread, k_read, k_true, k_raced>>

Keys == {"letter", "shift", "unshift", "release"}
NoCode == [key |-> "unshift", id |-> 0]
KeyIdle == [at |-> "idle", code |-> NoCode, char |-> [id |-> 0, shifted |-> FALSE], next |-> 0,
            index |-> 0]
ThreadAt(step) == k_thread.at = step

-----------------------------------------------------------------------------
(* keyboard_inject_scancode, for a code of the set the controller uses; a  *)
(* letter stands for every key that translate_scancode has a character     *)
(* for, a release for every code that has no effect.                       *)

ShiftAfter(code, shift) ==
    code.key = "shift" \/ (code.key # "unshift" /\ shift)

TranslateScancode(code) == [id |-> code.id, shifted |-> k_shift]

(* A code has been read from the controller for the first time.            *)
CodeArrived(code) ==
    k_true' = [k_true EXCEPT
                 !.shift = ShiftAfter(code, @),
                 !.typed = IF code.key # "letter" THEN @
                           ELSE Append(@, [id |-> code.id, shifted |-> k_true.shift])]

(* A ring without room: the character is lost, as the code means it to be. *)
Dropped(typed, char) ==
    LET lost == {i \in DOMAIN typed : typed[i].id = char.id}
    IN  IF lost = {} THEN typed ELSE RemoveAt(typed, CHOOSE i \in lost : TRUE)

Following(index) == (index + 1) % QueueSize

(* queue_character, without interruption                                   *)
QueueCharacter(char) ==
    IF Following(k_ring.write) = k_ring.read THEN k_ring
    ELSE [k_ring EXCEPT !.slots[k_ring.write] = char, !.write = Following(@)]

-----------------------------------------------------------------------------
(* A key is pressed, or let go, when the controller is ready for it.       *)
Press(key) ==
    /\ ~k_port.full /\ k_true.keys < MaxKeys
    /\ k_port' = [full |-> TRUE, interrupt |-> TRUE, code |-> [key |-> key, id |-> k_true.keys + 1]]
    /\ k_true' = [k_true EXCEPT !.keys = @ + 1]
    /\ UNCHANGED <<k_ring, k_shift, k_thread, k_read, k_raced>>

(* keyboard_interrupt_handler.  The thread may have been faster.           *)
InterruptHandler ==
    /\ k_port.interrupt
    /\ k_port' = [k_port EXCEPT !.interrupt = FALSE, !.full = FALSE]
    /\ IF ~k_port.full THEN UNCHANGED <<k_ring, k_shift, k_true, k_raced>>
       ELSE LET code == k_port.code
                arrived == IF code.key # "letter" THEN k_true.typed
                           ELSE Append(k_true.typed, [id |-> code.id, shifted |-> k_true.shift])
            IN /\ k_shift' = ShiftAfter(code, k_shift)
               /\ k_ring' = IF code.key = "letter" THEN QueueCharacter(TranslateScancode(code))
                            ELSE k_ring
               /\ k_true' = [k_true EXCEPT
                               !.shift = ShiftAfter(code, @),
                               !.typed = IF code.key = "letter" /\ k_ring' = k_ring
                                         THEN Dropped(arrived, code) ELSE arrived]
               /\ k_raced' = k_raced \union (CASE ThreadAt("idle") -> {}
                                               [] ThreadAt("read") -> {"doubled"}
                                               [] OTHER -> {"crossed"})
    /\ UNCHANGED <<k_thread, k_read>>

(* keyboard_poll_controller: keyboard_has_data                             *)
PollHasData ==
    /\ ThreadAt("idle") /\ k_port.full
    /\ k_thread' = [k_thread EXCEPT !.at = "read"]
    /\ UNCHANGED <<k_port, k_ring, k_shift, k_read, k_true, k_raced>>

(* keyboard_read_scancode: when the handler has been faster, the           *)
(* controller gives the last code again.                                   *)
PollReadScancode ==
    /\ ThreadAt("read")
    /\ k_port' = [k_port EXCEPT !.full = FALSE]
    /\ IF k_port.full THEN CodeArrived(k_port.code) ELSE UNCHANGED k_true
    /\ k_shift' = ShiftAfter(k_port.code, k_shift)
    /\ k_thread' = IF k_port.code.key = "letter"
                   THEN [k_thread EXCEPT !.at = "translate", !.code = k_port.code] ELSE KeyIdle
    /\ UNCHANGED <<k_ring, k_read, k_raced>>

PollTranslate ==
    /\ ThreadAt("translate")
    /\ k_thread' = [k_thread EXCEPT !.at = "next", !.char = TranslateScancode(k_thread.code)]
    /\ UNCHANGED <<k_port, k_ring, k_shift, k_read, k_true, k_raced>>

(* keyboard_inject_character, for a report of another keyboard             *)
InjectCharacter ==
    /\ ThreadAt("idle") /\ k_true.keys < MaxKeys
    /\ \E char \in {[id |-> k_true.keys + 1, shifted |-> FALSE]} :
          /\ k_thread' = [k_thread EXCEPT !.at = "next", !.char = char]
          /\ k_true' = [k_true EXCEPT !.keys = @ + 1, !.typed = Append(@, char)]
    /\ UNCHANGED <<k_port, k_ring, k_shift, k_read, k_raced>>

(* queue_character, step by step                                           *)
QueueNext ==
    /\ ThreadAt("next")
    /\ IF Following(k_ring.write) = k_ring.read
       THEN /\ k_thread' = KeyIdle
            /\ k_true' = [k_true EXCEPT !.typed = Dropped(@, k_thread.char)]
       ELSE /\ k_thread' = [k_thread EXCEPT !.at = "index", !.next = Following(k_ring.write)]
            /\ UNCHANGED k_true
    /\ UNCHANGED <<k_port, k_ring, k_shift, k_read, k_raced>>

QueueIndex ==
    /\ ThreadAt("index")
    /\ k_thread' = [k_thread EXCEPT !.at = "store", !.index = k_ring.write]
    /\ UNCHANGED <<k_port, k_ring, k_shift, k_read, k_true, k_raced>>

QueueStore ==
    /\ ThreadAt("store")
    /\ k_ring' = [k_ring EXCEPT !.slots[k_thread.index] = k_thread.char]
    /\ k_thread' = [k_thread EXCEPT !.at = "advance"]
    /\ UNCHANGED <<k_port, k_shift, k_read, k_true, k_raced>>

QueueAdvance ==
    /\ ThreadAt("advance")
    /\ k_ring' = [k_ring EXCEPT !.write = k_thread.next]
    /\ k_thread' = KeyIdle
    /\ UNCHANGED <<k_port, k_shift, k_read, k_true, k_raced>>

(* keyboard_read_character                                                 *)
ReadCharacter ==
    /\ ThreadAt("idle") /\ k_ring.read # k_ring.write
    /\ k_read' = Append(k_read, k_ring.slots[k_ring.read])
    /\ k_ring' = [k_ring EXCEPT !.read = Following(@)]
    /\ UNCHANGED <<k_port, k_shift, k_thread, k_true, k_raced>>

(* keyboard_initialize                                                     *)
KeyboardInit ==
    /\ k_port = [full |-> FALSE, interrupt |-> FALSE, code |-> NoCode]
    /\ k_ring = [slots |-> [i \in 0 .. QueueSize - 1 |-> KeyIdle.char], read |-> 0, write |-> 0]
    /\ k_shift = FALSE /\ k_thread = KeyIdle /\ k_read = << >>
    /\ k_true = [keys |-> 0, shift |-> FALSE, typed |-> << >>]
    /\ k_raced = {}

KeyboardNext ==
    \/ \E key \in Keys : Press(key)
    \/ InterruptHandler \/ PollHasData \/ PollReadScancode \/ PollTranslate \/ InjectCharacter
    \/ QueueNext \/ QueueIndex \/ QueueStore \/ QueueAdvance \/ ReadCharacter

KeyboardSpec == KeyboardInit /\ [][KeyboardNext]_keyboardVars

-----------------------------------------------------------------------------
Queued ==
    [i \in 1 .. (k_ring.write + QueueSize - k_ring.read) % QueueSize |->
        k_ring.slots[(k_ring.read + i - 1) % QueueSize]]

InHand ==
    CASE ThreadAt("translate") -> << TranslateScancode(k_thread.code) >>
      [] k_thread.at \in {"next", "index", "store", "advance"} -> << k_thread.char >>
      [] OTHER -> << >>

(* Characters come out as they were typed and in that order, unless the    *)
(* handler has come between the steps of the thread.  Then one may be      *)
(* missing or out of order, or have the other case; but none comes out     *)
(* twice unless the handler has read the code that the thread had seen,    *)
(* and never one that was not typed.                                       *)
KeysInOrder ==
    /\ k_raced = {} => k_read \o Queued \o InHand = k_true.typed
    /\ "doubled" \notin k_raced =>
          \A i, j \in DOMAIN (k_read \o Queued) :
             (k_read \o Queued)[i].id = (k_read \o Queued)[j].id => i = j
    /\ \A i \in DOMAIN Queued : Queued[i].id \in 1 .. k_true.keys

=============================================================================
