------------------------------- MODULE TextBox -------------------------------
(***************************************************************************)
(* The text box of the toolkit (kernel/widget.c) and the text editor       *)
(* (kernel/app.c): an array of characters up to a NUL, and the position of *)
(* the cursor in it.                                                       *)
(***************************************************************************)
EXTENDS Integers, Sequences, FiniteSetsExt

CONSTANTS Chars,    \* characters, "nl" the new line
          MaxText,  \* max_length of the box, EDITOR_MAX_CHARS - 1 of the editor
          Texts,    \* texts that callers set or insert
          NUL

ASSUME TextAssumption == /\ MaxText \in Nat /\ NUL \notin Chars /\ "nl" \in Chars
                         /\ \A s \in Texts : s \in Seq(Chars)

VARIABLES box,     \* [buffer, cursor, multiline, read_only] of the textbox_widget_t
          editor   \* [buffer, cursor, modified] of editor_state

textVars == <<box, editor>>

\* Key codes of include/input.h
KEY == [LEFT |-> 105, RIGHT |-> 106, HOME |-> 102, END |-> 107, BACKSPACE |-> 14, DELETE |-> 111,
        ENTER |-> 28, A |-> 30, Z |-> 44, SPACE |-> 57]

Strlen(b) == Min({i \in DOMAIN b : b[i] = NUL})
Shown(b)  == [i \in 1 .. Strlen(b) |-> b[i - 1]]
EmptyBuffer == [i \in 0 .. MaxText |-> NUL]

\* memmove of n characters from one place to another
Moved(b, from, n, to) == [i \in DOMAIN b |-> IF i \in to .. to + n - 1 THEN b[i - to + from] ELSE b[i]]

\* Mutant of ClosedUp: the NUL is not moved with the text.
ClosedUpShort(b, at) == Moved(b, at + 1, Strlen(b) - at - 1, at)

\* The tail, with its NUL, closes up over a character.
ClosedUp(b, at) == Moved(b, at + 1, Strlen(b) - at, at)

\* As much of s as fits goes in at the cursor, and the tail makes room.
Room(b, s) == Min({Len(s), MaxText - Strlen(b)})
TypedIn(b, at, s) == LET n == Room(b, s)
                          opened == Moved(b, at, Strlen(b) - at + 1, at + n)
                      IN  [i \in DOMAIN b |-> IF i \in at .. at + n - 1 THEN s[i - at + 1] ELSE opened[i]]

TextInit == /\ box = [buffer |-> EmptyBuffer, cursor |-> 0, multiline |-> FALSE, read_only |-> FALSE]
            /\ editor = [buffer |-> EmptyBuffer, cursor |-> 0, modified |-> FALSE]

(***************************************************************************)
(* The text box                                                            *)
(***************************************************************************)
TbInsert(s) == /\ ~box.read_only
               /\ box' = [box EXCEPT !.buffer = TypedIn(@, box.cursor, s),
                                     !.cursor = @ + Room(box.buffer, s)]
TbSetReadonly(r)  == box' = [box EXCEPT !.read_only = r]
TbSetMultiline(m) == box' = [box EXCEPT !.multiline = m]
\* strncpy fills the rest of the buffer with NUL.
TbSetText(s) ==
    LET n == Min({Len(s), MaxText})
    IN  box' = [box EXCEPT !.buffer = [i \in 0 .. MaxText |-> IF i < n THEN s[i + 1] ELSE NUL],
                           !.cursor = n]

\* The test for a character.  No code passes it: KEY_SPACE is above KEY_Z (include/input.h).
Typed(keycode) == keycode >= KEY.SPACE /\ keycode <= KEY.Z

TbHandleKey(keycode) ==
    LET len == Strlen(box.buffer)
        at(c) == box' = [box EXCEPT !.cursor = c]
    IN  ~box.read_only /\ (
        \/ keycode = KEY.LEFT  /\ box.cursor > 0 /\ at(box.cursor - 1)
        \/ keycode = KEY.RIGHT /\ box.cursor < len /\ at(box.cursor + 1)
        \/ keycode = KEY.HOME  /\ at(0)
        \/ keycode = KEY.END   /\ at(len)
        \/ /\ keycode = KEY.BACKSPACE /\ box.cursor > 0
           /\ box' = [box EXCEPT !.buffer = ClosedUp(@, box.cursor - 1), !.cursor = @ - 1]
        \/ /\ keycode = KEY.DELETE /\ box.cursor < len
           /\ box' = [box EXCEPT !.buffer = ClosedUp(@, box.cursor)]
        \/ keycode = KEY.ENTER /\ box.multiline /\ TbInsert(<<"nl">>)
        \/ keycode \in {KEY.A, KEY.SPACE}
           /\ IF Typed(keycode) THEN \E c \in Chars : TbInsert(<<c>>) ELSE UNCHANGED box)

(***************************************************************************)
(* The editor                                                              *)
(***************************************************************************)
EditorBackspace ==
    /\ editor.cursor > 0 /\ Strlen(editor.buffer) > 0
    /\ editor' = [buffer |-> ClosedUp(editor.buffer, editor.cursor - 1),
                  cursor |-> editor.cursor - 1, modified |-> TRUE]
EditorKey(c) ==
    /\ Strlen(editor.buffer) < MaxText
    /\ editor' = [buffer |-> TypedIn(editor.buffer, editor.cursor, <<c>>),
                  cursor |-> editor.cursor + 1, modified |-> TRUE]
\* A click on New, and the launch of another editor, which shares the state.
EditorNew == editor' = [buffer |-> EmptyBuffer, cursor |-> 0, modified |-> FALSE]

TextBoxCalls == /\ \/ \E s \in Texts : TbInsert(s) \/ TbSetText(s)
                   \/ \E m \in BOOLEAN : TbSetMultiline(m) \/ TbSetReadonly(m)
                   \/ \E k \in DOMAIN KEY : TbHandleKey(KEY[k])
                /\ UNCHANGED editor
EditorCalls == /\ EditorBackspace \/ EditorNew \/ \E c \in Chars : EditorKey(c)
               /\ UNCHANGED box

BoxLine    == INSTANCE TextLine WITH text <- Shown(box.buffer), at <- box.cursor
EditorLine == INSTANCE TextLine WITH text <- Shown(editor.buffer), at <- editor.cursor

(***************************************************************************)
(* Properties                                                              *)
(***************************************************************************)
\* The moves in the arrays do what an editor of a line does: no key loses or
\* doubles a character, and the cursor stays where the text was changed.
ImplementsLine == BoxLine!Line /\ EditorLine!Line
=============================================================================
