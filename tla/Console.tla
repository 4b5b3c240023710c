------------------------------ MODULE Console -------------------------------
(***************************************************************************)
(* Input from the keyboard to a process that reads /dev/console:           *)
(* kernel/drivers/kbd_map.c, kernel/drivers/keyboard.c and con_read of     *)
(* kernel/fs/devfs.c.                                                      *)
(*                                                                         *)
(* Keys are pressed and released at any time; each puts one to four bytes  *)
(* on the wire.  The interrupt handler drains what has arrived, which may  *)
(* be part of a key's bytes.  Readers take characters one at a time with   *)
(* interrupts off and let interrupts in between; the one reader that holds *)
(* read_lock blocks when the ring is empty.                                *)
(*                                                                         *)
(* Left out: the alt keys, which the driver tracks and nobody asks about,  *)
(* the right ctrl key, which works like the left one, and the pause key.   *)
(*                                                                         *)
(* Every byte on the wire carries, for the properties only, the character  *)
(* its key stands for with the modifiers that were down when it was        *)
(* pressed; unread is the queue the ring stands for.                       *)
(***************************************************************************)
EXTENDS Integers, Sequences, SequencesExt, FiniteSets, FiniteSetsExt

CONSTANTS Reader,    \* threads that read the console
          RingSize,  \* RING_SIZE
          MaxLen,    \* longest read
          MaxKeys,   \* bound on key events
          WireMax,   \* bytes that wait when another key is pressed
          NULL

ConsoleAssumption ==
  RingSize \in Nat /\ RingSize >= 2 /\ MaxLen \in Nat \ {0} /\ NULL \notin Reader

VARIABLES held,      \* keys that are down, and "CAPS" when it is locked
          keys,      \* key events so far
          wire,      \* bytes the handler has not read
          state,     \* struct kbd_state
          ring, ring_head, ring_tail,
          reader,    \* the thread blocked waiting for input
          lockq,     \* read_lock: its holder, then who waits
          pc, n, len,
          unread     \* the characters that should be in the ring

kbd == <<held, keys, wire, state, ring, ring_head, ring_tail, unread>>
threads == <<reader, lockq, pc, n, len>>
vars == <<kbd, threads>>

-----------------------------------------------------------------------------
(* Translation                                                             *)

Down(code) == [code |-> code, release |-> FALSE]
Up(code) == [code |-> code, release |-> TRUE]
E0 == Down("E0")

\* A letter, another character, the slash (also of the keypad) and a key that
\* has no character; 0 is NUL.
NUL == "0"
Code == {"Q", "ONE", "SLASH", "LEFT"}
map_plain == [c \in Code |-> CASE c = "Q" -> "q" [] c = "ONE" -> "1" [] c = "SLASH" -> "/" [] OTHER -> NUL]
map_shift == [c \in Code |-> CASE c = "Q" -> "Q" [] c = "ONE" -> "!" [] c = "SLASH" -> "?" [] OTHER -> NUL]
Swapped == [c \in {"q", "Q"} |-> IF c = "q" THEN "Q" ELSE "q"]

shift_active(st) == st.shift_l \/ st.shift_r

\* The character a key that is no modifier gives.
Translate(st, sc) ==
  LET c == IF shift_active(st) THEN map_shift[sc.code] ELSE map_plain[sc.code] IN
  IF sc.release THEN NUL
  ELSE IF st.e0 THEN (IF sc.code = "SLASH" THEN "/" ELSE NUL)
  ELSE IF st.ctrl THEN (IF c \in DOMAIN Swapped THEN "^Q" ELSE NUL)
  ELSE IF st.caps /\ c \in DOMAIN Swapped THEN Swapped[c] ELSE c

\* Faulty: the fake shifts around extended keys count as shifts.
Bug_kbd_map_fake_shift(st, sc) ==
  LET down == ~sc.release
      t == [st EXCEPT !.e0 = FALSE]
      to(u, c) == [st |-> u, c |-> c]
  IN CASE sc = E0 -> to([st EXCEPT !.e0 = TRUE], NUL)
       [] sc.code = "LSHIFT" -> to([t EXCEPT !.shift_l = down], NUL)
       [] sc.code = "RSHIFT" -> to([t EXCEPT !.shift_r = down], NUL)
       [] sc.code = "CTRL" -> to([t EXCEPT !.ctrl = down], NUL)
       [] sc.code = "CAPS" -> to([t EXCEPT !.caps = IF down THEN ~@ ELSE @], NUL)
       [] OTHER -> to(t, Translate(st, sc))

\* The next state and the character, for one byte.
kbd_map_feed(st, sc) ==
  LET down == ~sc.release
      t == [st EXCEPT !.e0 = FALSE]
      to(u, c) == [st |-> u, c |-> c]
  IN CASE sc = E0 -> to([st EXCEPT !.e0 = TRUE], NUL)
       [] sc.code = "LSHIFT" -> to(IF st.e0 THEN t ELSE [t EXCEPT !.shift_l = down], NUL)
       [] sc.code = "RSHIFT" -> to(IF st.e0 THEN t ELSE [t EXCEPT !.shift_r = down], NUL)
       [] sc.code = "CTRL" -> to([t EXCEPT !.ctrl = down], NUL)
       [] sc.code = "CAPS" -> to([t EXCEPT !.caps = IF down THEN ~@ ELSE @], NUL)
       [] OTHER -> to(t, Translate(st, sc))

-----------------------------------------------------------------------------
(* The keyboard                                                            *)

Modifier == {"LSHIFT", "RSHIFT", "CTRL"}

\* What a key means with these modifiers: capital when shift or caps lock is
\* on and not both.  Keypad keys always mean the same.
Meaning(k) ==
  LET shift == held \cap {"LSHIFT", "RSHIFT"} # {} IN
  CASE k = "Q" -> IF "CTRL" \in held THEN "^Q" ELSE IF shift # ("CAPS" \in held) THEN "Q" ELSE "q"
    [] k = "ONE" -> IF "CTRL" \in held THEN NUL ELSE IF shift THEN "!" ELSE "1"
    [] OTHER -> NUL

Byte(sc, means) == [sc |-> sc, means |-> means]
Plain(scs) == [i \in DOMAIN scs |-> Byte(scs[i], NUL)]

Send(bytes) == /\ keys < MaxKeys /\ Len(wire) <= WireMax
               /\ keys' = keys + 1
               /\ wire' = wire \o bytes
               /\ UNCHANGED <<state, ring, ring_head, ring_tail, unread, threads>>

press_modifier(m) ==
  /\ Send(Plain(<<IF m \in held THEN Up(m) ELSE Down(m)>>))
  /\ held' = IF m \in held THEN held \ {m} ELSE held \cup {m}

press_caps ==
  /\ Send(Plain(<<Down("CAPS"), Up("CAPS")>>))
  /\ held' = IF "CAPS" \in held THEN held \ {"CAPS"} ELSE held \cup {"CAPS"}

press_key(k) ==
  /\ Send(<<Byte(Down(k), Meaning(k))>> \o Plain(<<Up(k)>>))
  /\ UNCHANGED held

\* An extended key's bytes are prefixed; depending on its lock and shift keys
\* the keyboard pretends that a shift changes before it and after it.
press_extended(k, fake) ==
  IF k \in held
  THEN Send(Plain(<<E0, Up(k), E0, fake>>)) /\ held' = held \ {k}
  ELSE /\ Send(Plain(<<E0, fake, E0>>) \o <<Byte(Down(k), IF k = "SLASH" THEN "/" ELSE NUL)>>)
       /\ held' = held \cup {k}

-----------------------------------------------------------------------------
(* The driver                                                              *)

\* The oldest character makes room.
ring_push(r, c) ==
  LET next == (r.head + 1) % RingSize IN
  [r EXCEPT !.ring[r.head] = c, !.head = next,
            !.tail = IF next = r.tail THEN (r.tail + 1) % RingSize ELSE r.tail]

\* Faulty: a character that does not wake the reader.
Bug_notify_none == UNCHANGED <<reader, pc>>

\* kbd_input_notify: wake the blocked reader.
kbd_input_notify ==
  /\ reader' = NULL
  /\ pc' = IF reader = NULL THEN pc ELSE [pc EXCEPT ![reader] = "reading"]

Newest(q) == SubSeq(q, Max({1, Len(q) - RingSize + 2}), Len(q))

\* The interrupt handler, with k bytes to drain.
keyboard_irq(k) ==
  LET in == SubSeq(wire, 1, k)
      after[i \in 0..k] ==  \* the driver's state after i bytes
        IF i = 0 THEN [st |-> state, ring |-> ring, head |-> ring_head, tail |-> ring_tail, pushed |-> FALSE]
        ELSE LET a == after[i - 1]
                 f == kbd_map_feed(a.st, in[i].sc)
                 u == [a EXCEPT !.st = f.st]
             IN IF f.c = NUL THEN u ELSE [ring_push(u, f.c) EXCEPT !.pushed = TRUE]
      r == after[k]
      meant == SelectSeq([i \in 1..k |-> in[i].means], LAMBDA c : c # NUL)
  IN /\ wire' = SubSeq(wire, k + 1, Len(wire))
     /\ state' = r.st
     /\ ring' = r.ring /\ ring_head' = r.head /\ ring_tail' = r.tail
     /\ IF r.pushed THEN kbd_input_notify ELSE UNCHANGED <<reader, pc>>
     /\ unread' = Newest(unread \o meant)
     /\ UNCHANGED <<held, keys, lockq, n, len>>

-----------------------------------------------------------------------------
(* con_read                                                                *)

Init == /\ held = {} /\ keys = 0 /\ wire = <<>>
        /\ state = [shift_l |-> FALSE, shift_r |-> FALSE, ctrl |-> FALSE, caps |-> FALSE, e0 |-> FALSE]
        /\ ring = [i \in 0..(RingSize - 1) |-> NUL] /\ ring_head = 0 /\ ring_tail = 0
        /\ reader = NULL /\ lockq = <<>> /\ unread = <<>>
        /\ pc = [t \in Reader |-> "idle"]
        /\ n = [t \in Reader |-> 0] /\ len = [t \in Reader |-> 0]

\* mutex_lock(&read_lock): in turn.
con_read(t, l) ==
  /\ pc[t] = "idle"
  /\ pc' = [pc EXCEPT ![t] = "reading"]
  /\ lockq' = Append(lockq, t)
  /\ n' = [n EXCEPT ![t] = 0] /\ len' = [len EXCEPT ![t] = l]
  /\ UNCHANGED <<kbd, reader>>

Holds(t) == pc[t] = "reading" /\ Head(lockq) = t

\* keyboard_getchar, with interrupts off.
take(t) ==
  /\ Holds(t) /\ n[t] < len[t] /\ ring_tail # ring_head
  /\ ring_tail' = (ring_tail + 1) % RingSize
  /\ n' = [n EXCEPT ![t] = @ + 1]
  /\ unread' = Tail(unread)
  /\ UNCHANGED <<held, keys, wire, state, ring, ring_head, reader, lockq, pc, len>>

\* Faulty: the read waits until its buffer is full.
Bug_wait_full(t) ==
  /\ Holds(t) /\ n[t] < len[t] /\ ring_tail = ring_head
  /\ reader' = t
  /\ pc' = [pc EXCEPT ![t] = "blocked"]
  /\ UNCHANGED <<kbd, lockq, n, len>>

\* Nothing there: publish the thread and block, with interrupts still off.
wait(t) ==
  /\ Holds(t) /\ n[t] = 0 /\ ring_tail = ring_head
  /\ reader' = t
  /\ pc' = [pc EXCEPT ![t] = "blocked"]
  /\ UNCHANGED <<kbd, lockq, n, len>>

\* The buffer is full, or a short read.
done(t) ==
  /\ Holds(t)
  /\ n[t] = len[t] \/ (n[t] > 0 /\ ring_tail = ring_head)
  /\ pc' = [pc EXCEPT ![t] = "idle"]
  /\ n' = [n EXCEPT ![t] = 0] /\ len' = [len EXCEPT ![t] = 0]
  /\ lockq' = Tail(lockq)
  /\ UNCHANGED <<kbd, reader>>

Step(t) == take(t) \/ wait(t) \/ done(t)
Irq == \E k \in 1..Len(wire) : keyboard_irq(k)

Next == \/ \E m \in Modifier : press_modifier(m)
        \/ press_caps
        \/ \E k \in {"Q", "ONE"} : press_key(k)
        \/ \E k \in {"SLASH", "LEFT"}, fake \in {Down("LSHIFT"), Up("LSHIFT")} : press_extended(k, fake)
        \/ Irq
        \/ \E t \in Reader : Step(t) \/ \E l \in 1..MaxLen : con_read(t, l)

\* The scheduler runs every ready thread (Scheduler) and the interrupt
\* controller delivers a pending interrupt.
Fairness == WF_vars(Irq) /\ \A t \in Reader : WF_vars(Step(t))

Spec == Init /\ [][Next]_vars /\ Fairness

-----------------------------------------------------------------------------
(* Properties                                                              *)

Contents == LET count == (ring_head + RingSize - ring_tail) % RingSize IN
            [i \in 1..count |-> ring[(ring_tail + i - 1) % RingSize]]

\* The ring holds the newest characters that nobody has read, in the order
\* they were typed and each as the keys that were down at the time say, also
\* when a key's bytes arrive in pieces and when the ring overflows
\* (keyboard.c:7).
InputExact == Contents = unread

\* A thread is blocked in con_read only while there is nothing to read, it is
\* the one in the slot the interrupt handler looks at, and it holds read_lock,
\* so that the one slot is enough (devfs.c:8, and the assertion at :69).
ReaderNotMissed ==
  /\ \A t \in Reader : pc[t] = "blocked" <=> reader = t
  /\ reader # NULL => Head(lockq) = reader /\ Contents = <<>>

\* A reader that has read_lock returns once there is input, in the ring or on
\* the wire.
ReadReturns == \A t \in Reader :
  (/\ lockq # <<>> /\ Head(lockq) = t
   /\ unread # <<>> \/ \E i \in DOMAIN wire : wire[i].means # NUL) ~> (pc[t] = "idle")
=============================================================================
