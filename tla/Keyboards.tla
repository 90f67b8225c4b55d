----------------------------- MODULE Keyboards ------------------------------
(***************************************************************************)
(* The keyboards of the tinyjl server: what is made for one when it is     *)
(* plugged in and given back when it goes away, which one is the seat's,   *)
(* and what the client with the keyboard focus hears of keys and of Alt.   *)
(*                                                                         *)
(* wlroots runs the handlers of a key while it notes the key: its keycodes *)
(* change first, then comes the key handler, then the modifiers change,    *)
(* then comes the modifiers handler.  A keyboard that goes away releases   *)
(* the keys that are down on it before it says so.                         *)
(***************************************************************************)
EXTENDS Naturals, Sequences, SequencesExt

CONSTANTS
  Keyboards,   \* input devices that are keyboards
  Surfaces,    \* what may have the keyboard focus
  None,        \* nil
  Lifts        \* the sets of rules of which one is lifted throughout

\* What does not happen, as long as the rule is not lifted:
\* "compiles"  xkbcommon cannot make a context or a keymap,
\* "sets"      wlr_keyboard_set_keymap cannot make a state.
Rules == {"compiles", "sets"}

ASSUME KeyboardsAssumption ==
  /\ None \notin Keyboards \cup Surfaces
  /\ Lifts \subseteq SUBSET Rules

Keys == {"alt", "f1", "letter"}   \* "f1" is bound, with Alt

VARIABLES
  lifted,      \* the rules that are lifted
  plugged,     \* the keyboards that are there
  listed,      \* (server :keyboards)
  listening,   \* keyboards whose three listeners are linked
  caps,        \* does the seat have the keyboard capability
  xkb,         \* keyboard -> what was made for it
  down,        \* keyboard -> its keycodes
  alt,         \* the keyboards whose modifiers have Alt
  seat,        \* its keyboard, the surface it focuses, and what that was told
  crashed

devices == <<plugged, listed, listening, caps, xkb>>
vars    == <<lifted, devices, down, alt, seat, crashed>>

NoXkb == [context |-> 0, keymap |-> 0, state |-> FALSE, freed |-> FALSE]

Init ==
  /\ lifted \in Lifts
  /\ plugged = {} /\ listed = <<>> /\ listening = {} /\ caps = FALSE
  /\ xkb = [k \in Keyboards |-> NoXkb]
  /\ down = [k \in Keyboards |-> {}] /\ alt = {}
  /\ seat = [keyboard |-> None, focused |-> None, keys |-> {}, alt |-> FALSE]
  /\ crashed = FALSE

----------------------------------------------------------------------------
\* xkbcommon.  Contexts and keymaps are counted; "freed" is set when one is
\* used that nobody holds.

Using(h, thing) == [h EXCEPT !.freed = @ \/ h[thing] = 0]

\* xkb-context-new, xkb-context-unref
NewContext(h)   == [h EXCEPT !.context = 1]
UnrefContext(h) == [Using(h, "context") EXCEPT !.context = IF @ = 0 THEN 0 ELSE @ - 1]

\* xkb-keymap-new-from-names, xkb-keymap-unref: a keymap holds its context.
NewKeymap(h)   == [Using(h, "context") EXCEPT !.context = @ + 1, !.keymap = 1]
UnrefKeymap(h) ==
  LET less == [Using(h, "keymap") EXCEPT !.keymap = IF @ = 0 THEN 0 ELSE @ - 1]
  IN  IF h.keymap = 1 THEN UnrefContext(less) ELSE less

\* wlr-keyboard-set-keymap: the keyboard holds the keymap, and a state of it.
SetKeymap(h, works) ==
  LET used == Using(h, "keymap")
  IN  IF works THEN [used EXCEPT !.keymap = @ + 1, !.state = TRUE] ELSE used

\* wlr_keyboard_finish
Finish(h) == IF h.state THEN [UnrefKeymap(h) EXCEPT !.state = FALSE] ELSE h

----------------------------------------------------------------------------
\* The seat.

\* wlr-seat-set-keyboard: another keyboard comes with its modifiers.
SetKeyboard(s, k) ==
  IF s.keyboard = k THEN s
  ELSE [s EXCEPT !.keyboard = k, !.alt = IF s.focused # None THEN k \in alt ELSE @]

\* wlr-seat-keyboard-notify-key, -notify-modifiers
NotifyKeys(s, pressed, released) ==
  IF s.focused = None THEN s ELSE [s EXCEPT !.keys = (@ \cup pressed) \ released]
NotifyModifiers(s, a) ==
  IF s.focused = None THEN s ELSE [s EXCEPT !.alt = a]

\* focus-view: a surface is entered with what is down on the seat's keyboard,
\* if it has one.
FocusView(s, surface, downs) ==
  IF s.keyboard = None \/ s.focused = surface THEN s
  ELSE [s EXCEPT !.focused = surface, !.keys = downs[s.keyboard],
                 !.alt = s.keyboard \in alt]

----------------------------------------------------------------------------
\* Devices.

\* handle-backend-new-input, when the device has been set up
SetCapabilities(keyboards) == caps' = (keyboards # <<>>)

NewPointer ==
  /\ SetCapabilities(listed)
  /\ UNCHANGED <<lifted, plugged, listed, listening, xkb, down, alt, seat, crashed>>

SetUp_KeymapFirst(works) ==
  UnrefContext(SetKeymap(UnrefKeymap(NewKeymap(NewContext(NoXkb))), works))

\* server-new-keyboard does not look whether the keymap could be set.
SetUp(works) ==
  UnrefContext(UnrefKeymap(SetKeymap(NewKeymap(NewContext(NoXkb)), works)))

NewKeyboard(k, works) ==
  /\ k \notin plugged
  /\ works \/ "sets" \in lifted
  /\ plugged' = plugged \cup {k}
  /\ xkb' = [xkb EXCEPT ![k] = SetUp(works)]
  /\ listening' = listening \cup {k}
  /\ seat' = SetKeyboard(seat, k)
  /\ listed' = Append(listed, k)
  /\ SetCapabilities(listed')
  /\ UNCHANGED <<lifted, down, alt, crashed>>

\* xkb-context-new or xkb-keymap-new-from-names raises, and the handler ends.
NewKeyboardFails(k) ==
  /\ "compiles" \in lifted
  /\ k \notin plugged
  /\ plugged' = plugged \cup {k}
  /\ xkb' \in {[xkb EXCEPT ![k] = made] : made \in {NoXkb, NewContext(NoXkb)}}
  /\ UNCHANGED <<lifted, listed, listening, caps, down, alt, seat, crashed>>

RemoveListeners_First(k) ==
  /\ listening' = listening \ {k}
  /\ listed' = IF listed = <<>> THEN listed ELSE Tail(listed)

\* handle-wlr-input-device-destroy
RemoveListeners(k) ==
  /\ listening' = listening \ {k}
  /\ listed' = RemoveFirst(listed, k)

----------------------------------------------------------------------------
\* Keys.

Bound_Releases(k, key, pressed) == k \in alt /\ key = "f1"

\* handle-keybinding, with Alt, and when the key is pressed
Bound(k, key, pressed) == pressed /\ k \in alt /\ key = "f1"

Forward_KeepsKeyboard(k, pressed, released) == NotifyKeys(seat, pressed, released)

Forward(k, pressed, released) == NotifyKeys(SetKeyboard(seat, k), pressed, released)

\* What the seat becomes in handle-wlr-keyboard-key: a key that is bound is
\* not forwarded, it focuses another view or does something else.
HandleKey(k, key, pressed, downs) ==
  IF Bound(k, key, pressed)
  THEN {seat} \cup {FocusView(seat, surface, downs) : surface \in Surfaces}
  ELSE {Forward(k, IF pressed THEN {key} ELSE {}, IF pressed THEN {} ELSE {key})}

\* handle-wlr-keyboard-modifiers
HandleModifiers(s, k, a) == NotifyModifiers(SetKeyboard(s, k), a)

\* handle-wlr-keyboard-key asks the state of xkbcommon for the symbols
\* first.  Without a state the modifiers of a keyboard do not change.
Key(k, key) ==
  LET pressed == key \notin down[k]
      downs   == [down EXCEPT ![k] = IF pressed THEN @ \cup {key} ELSE @ \ {key}]
      alters  == key = "alt" /\ xkb[k].state
  IN
  /\ k \in plugged
  /\ down' = downs
  /\ alt' = IF ~ alters THEN alt ELSE IF pressed THEN alt \cup {k} ELSE alt \ {k}
  /\ IF k \in listening
     THEN \E s \in HandleKey(k, key, pressed, downs) :
            seat' = IF alters THEN HandleModifiers(s, k, pressed) ELSE s
     ELSE UNCHANGED seat
  /\ crashed' = (k \in listening /\ ~ xkb[k].state)
  /\ UNCHANGED <<lifted, devices>>

\* The device goes away; the seat forgets it by itself.
Unplug(k) ==
  LET told == IF k \in listening /\ down[k] # {} THEN Forward(k, {}, down[k]) ELSE seat IN
  /\ k \in plugged
  /\ plugged' = plugged \ {k}
  /\ RemoveListeners(k)
  /\ xkb' = [xkb EXCEPT ![k] = Finish(@)]
  /\ down' = [down EXCEPT ![k] = {}]
  /\ alt' = alt \ {k}
  /\ seat' = [told EXCEPT !.keyboard = IF @ = k THEN None ELSE @]
  /\ crashed' = (k \in listening /\ down[k] # {} /\ ~ xkb[k].state)
  /\ UNCHANGED <<lifted, caps>>

----------------------------------------------------------------------------
\* Views: handle-surface-map, -unmap and handle-cursor-button focus them; the
\* seat forgets a surface that is destroyed.

Focus(surface) ==
  /\ seat' = FocusView(seat, surface, down)
  /\ UNCHANGED <<lifted, devices, down, alt, crashed>>

Unfocus ==
  /\ seat' = [seat EXCEPT !.focused = None, !.keys = {}, !.alt = FALSE]
  /\ UNCHANGED <<lifted, devices, down, alt, crashed>>

Running == ~ crashed

Next ==
  \/ Running /\ NewPointer
  \/ Running /\ \E k \in Keyboards, works \in BOOLEAN : NewKeyboard(k, works)
  \/ Running /\ \E k \in Keyboards : NewKeyboardFails(k)
  \/ Running /\ \E k \in Keyboards, key \in Keys : Key(k, key)
  \/ Running /\ \E k \in Keyboards : Unplug(k)
  \/ Running /\ \E surface \in Surfaces : Focus(surface)
  \/ Running /\ Unfocus

Spec == Init /\ [][Next]_vars

----------------------------------------------------------------------------
Keeping(rules) == lifted \cap rules = {}

\* handle-wlr-keyboard-key, handle-keybinding: a client never takes a key for
\* pressed that is not down on any keyboard, wherever the focus, the bindings
\* and the keyboards went between its press and its release.
NoStuckKeys == seat.keys \subseteq UNION {down[k] : k \in plugged}

\* server-new-keyboard, xkb-keymap-unref, xkb-context-unref: nothing is used
\* after it was freed, every keyboard that is listened to has the state that
\* the key handler looks symbols up in, and one that went away leaves nothing
\* behind.
XkbBalanced ==
  /\ \A k \in Keyboards : ~ xkb[k].freed
  /\ Keeping({"sets"}) => ~ crashed /\ \A k \in listening : xkb[k].state
  /\ Keeping({"compiles"}) =>
       \A k \in Keyboards \ plugged : xkb[k].context = 0 /\ xkb[k].keymap = 0

\* server-new-keyboard, handle-wlr-input-device-destroy, handle-backend-new-
\* input: the server lists the keyboards it listens to, each of them once and
\* only ones that are there; the seat's is one of them, and clients are told
\* that there are keyboards while there are any.
KeyboardsListed ==
  /\ ToSet(listed) = listening /\ IsInjective(listed)
  /\ listening \subseteq plugged
  /\ seat.keyboard \in listening \cup {None}
  /\ listening # {} => caps

\* handle-wlr-keyboard-key, handle-wlr-keyboard-modifiers: when a client gets
\* a key, it has been told the modifiers of the keyboard that the key is on,
\* whichever keyboard was used or unplugged before.
KeysCarryModifiers ==
  [][\A k \in listening \cap listening' :
       down'[k] # down[k] /\ seat'.keys # seat.keys /\ seat'.focused = seat.focused
       => seat'.alt = (k \in alt')]_vars
=============================================================================
