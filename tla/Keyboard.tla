------------------------------- MODULE Keyboard -------------------------------
(***************************************************************************)
(* The keyboard driver (ch1/keyboard/keyboard.c) and the keyboard          *)
(* controller it reads.  A byte the keyboard sends is known by its number  *)
(* in the order of sending; so is the character it stands for.             *)
(***************************************************************************)
EXTENDS Integers, Sequences

CONSTANT
  MAX_BYTES  \* bound: how many bytes the keyboard sends

ASSUME KeyboardAssumption == MAX_BYTES \in Nat

(* What the driver tells apart: a press that has a character, a press that *)
(* has none, a release, and EXTENDED_SCANCODE_BYTE.                        *)
Kinds == {"make", "mute", "break", "extended"}

VARIABLES
  script,    \* the kinds of the bytes the keyboard sends
  sent,      \* how many of them the controller has taken from it
  full,      \* the controller's output buffer holds byte number sent
  inputOn,   \* keyboard_state.keyboard_input_on
  extended,  \* keyboard_state.read_extended_mode
  buffer     \* keyboard_state.keyboard_buffer, 0 for '\0'

keyboardVars == <<script, sent, full, inputOn, extended, buffer>>

(* What follows an extended byte is a press or a release.                  *)
Scripts ==
  {s \in [1 .. MAX_BYTES -> Kinds] :
     \A i \in 1 .. MAX_BYTES - 1 : s[i] = "extended" => s[i + 1] \in {"make", "break"}}

KeyboardInit ==
  /\ script \in Scripts
  /\ sent = 0 /\ full = FALSE
  /\ inputOn = FALSE /\ extended = FALSE /\ buffer = 0

(* The controller takes a byte when its buffer is empty, and only then     *)
(* raises its interrupt line.                                              *)
Load ==
  /\ ~full /\ sent < MAX_BYTES
  /\ sent' = sent + 1
  /\ full' = TRUE
  /\ UNCHANGED <<script, inputOn, extended, buffer>>

(* Whether keyboard_isr() reads the byte.  Mutated: it waits until the     *)
(* character before has been fetched.                                      *)
MutTakes == inputOn /\ buffer = 0

Takes == inputOn

(* read_extended_mode after a byte.                                        *)
NowExtended(kind) == kind = "extended"

(* keyboard_buffer after a byte.                                           *)
NowBuffer(kind) ==
  IF kind = "extended" \/ extended THEN buffer ELSE IF kind = "make" THEN sent ELSE 0

(* keyboard_isr(), but for the acknowledgement that ends it.               *)
KeyboardIsr ==
  /\ IF Takes
     THEN /\ full' = FALSE
          /\ extended' = NowExtended(script[sent])
          /\ buffer' = NowBuffer(script[sent])
     ELSE UNCHANGED <<full, extended, buffer>>
  /\ UNCHANGED <<script, sent, inputOn>>

SetInput(on) ==
  /\ inputOn' = on
  /\ UNCHANGED <<script, sent, full, extended, buffer>>

(* The second assignment of get_keyboard_buffer().  Mutated: missing.      *)
MutFlushedBuffer == buffer

FlushedBuffer == 0

FlushBuffer ==
  /\ buffer' = FlushedBuffer
  /\ UNCHANGED <<script, sent, full, inputOn, extended>>

-----------------------------------------------------------------------------
KeyboardTypeOK ==
  /\ script \in Scripts
  /\ sent \in 0 .. MAX_BYTES
  /\ full \in BOOLEAN /\ inputOn \in BOOLEAN /\ extended \in BOOLEAN
  /\ buffer \in {0} \cup {i \in 1 .. sent : script[i] = "make"}

(* The number of bytes the driver has read.                                *)
Taken == IF full THEN sent - 1 ELSE sent

(* read_extended_mode is set exactly when the last byte read was the       *)
(* extended byte, so the driver never takes the second byte of an arrow    *)
(* for a key, nor a key for an arrow.  (keyboard.c:61-70)                  *)
ExtendedTracks == extended <=> Taken > 0 /\ script[Taken] = "extended"

(* The character in the buffer is that of the last byte read, but for the  *)
(* bytes of arrow keys: neither an older press nor one that was released.  *)
(* (keyboard.c:68-95)                                                      *)
BufferIsLast ==
  buffer # 0 =>
    \A i \in buffer + 1 .. Taken : "extended" \in {script[i - 1], script[i]}

=============================================================================
