------------------------------ MODULE Keyboard ------------------------------
(***************************************************************************)
(* The keyboard in front of the Shell: the codes of keys pressed and       *)
(* released wait in the controller until poll_keyboard (kernel.c:72-88)    *)
(* reads them, one a call, follows the shift keys and hands the characters *)
(* on.  While a command runs nobody polls; a code for which there is no    *)
(* room is lost.                                                           *)
(***************************************************************************)
EXTENDS Shell

CONSTANT QueueMax   \* codes the keyboard holds

ASSUME KeyboardAssumption == QueueMax \in Nat \ {0} /\ Letters = {"a", "A"}

VARIABLES
  queue,            \* the codes to be read
  held,             \* how many of the two shift keys are down
  g_shift_pressed,
  sure              \* history: the shift codes that are or were queued tell held

keyboard == <<queue, held, g_shift_pressed, sure>>

(* The letter key stands for all whose two characters differ.              *)
keyboard_map(code) == code
keyboard_map_shift(code) == IF code = "a" THEN "A" ELSE code
Char(code, shift) == IF shift THEN keyboard_map_shift(code) ELSE keyboard_map(code)

KeyboardInit == Init /\ queue = <<>> /\ held = 0 /\ g_shift_pressed = FALSE /\ sure = TRUE

-----------------------------------------------------------------------------
(* The typist.  Keys that mean the same with shift are typed at an empty   *)
(* buffer, the words of commands to the shell, escape to nano and pictures.*)
Room == Len(queue) < QueueMax
Send(code, released, meant) ==
  queue' = IF Room THEN Append(queue, [code |-> code, released |-> released, meant |-> meant])
                   ELSE queue
DownLetter ==
  /\ Send("a", FALSE, IF sure THEN {Char("a", held > 0)} ELSE Letters)
  /\ UNCHANGED <<held, g_shift_pressed, sure, vars>>
DownOther(k) ==
  /\ queue = <<>> /\ (k \in CommandWords => mode = "shell") /\ (k = "esc" => mode \in {"nano", "view"})
  /\ Send(k, FALSE, {k})
  /\ UNCHANGED <<held, g_shift_pressed, sure, vars>>
UpLetter ==
  /\ queue = <<>>
  /\ Send("a", TRUE, {})
  /\ UNCHANGED <<held, g_shift_pressed, sure, vars>>
DownShift ==
  /\ held < 2 /\ held' = held + 1 /\ sure' = Room
  /\ Send("shift", FALSE, {})
  /\ UNCHANGED <<g_shift_pressed, vars>>
UpShift ==
  /\ held > 0 /\ held' = held - 1 /\ sure' = (Room /\ held' = 0)
  /\ Send("shift", TRUE, {})
  /\ UNCHANGED <<g_shift_pressed, vars>>

-----------------------------------------------------------------------------
(* poll_keyboard, and the reader that called it.                           *)
Shift_Sticky(released) == g_shift_pressed' = (g_shift_pressed \/ ~ released)
Shift(released) == g_shift_pressed' = ~ released
poll_keyboard ==
  /\ queue # <<>> /\ queue' = Tail(queue)
  /\ LET e == Head(queue)
     IN IF e.code = "shift"
        THEN Shift(e.released) /\ UNCHANGED vars
        ELSE /\ UNCHANGED g_shift_pressed
             /\ IF e.released THEN UNCHANGED vars ELSE Press(Char(e.code, g_shift_pressed))
  /\ UNCHANGED <<held, sure>>

KeyboardNext ==
  \/ DownLetter \/ UpLetter \/ DownShift \/ UpShift
  \/ \E k \in Keys \ Letters : DownOther(k)
  \/ poll_keyboard
  \/ Save(FALSE) /\ UNCHANGED keyboard
KeyboardSpec == KeyboardInit /\ [][KeyboardNext]_<<keyboard, vars>>

-----------------------------------------------------------------------------
(* A character is read as it was meant when its key went down, however     *)
(* late it is read, unless the shift codes before it do not tell: one was  *)
(* lost, or one shift key went up while the other stayed down              *)
(* (poll_keyboard, kernel.c:80-87).                                        *)
TypedAsMeant ==
  queue # <<>> /\ Head(queue).code # "shift" /\ ~ Head(queue).released
    => Char(Head(queue).code, g_shift_pressed) \in Head(queue).meant
=============================================================================
