------------------------------- MODULE Editor -------------------------------
(***************************************************************************)
(* The text of a program in the editor, and its breakpoints.  They are     *)
(* numbers of lines, so at every edit EditorBreakpointManager works out,   *)
(* from what was selected when the key went down and from how many lines   *)
(* there are now, which of them to move and which to drop.                 *)
(*                                                                         *)
(* Selections count characters of the text; the ends of lines are counted  *)
(* in the text that setText has escaped for HTML.  An exception leaves the *)
(* handler of edits switched off (entered).                                *)
(*                                                                         *)
(* The assembler that setText calls is left out, and so are the edits that *)
(* no key announces: undo, dragging, and menus of the browser.  Backspace  *)
(* and delete take one character at a caret: with the control key they     *)
(* take a word, whose length is the browser's to say, and that is left out *)
(* too.                                                                    *)
(***************************************************************************)
EXTENDS Integers, Sequences, FiniteSets, Functions

CONSTANTS
  Codes,          (* programs that can be brought into the editor          *)
  Chars, NL, Space,
  Escaped,        (* length of a character once it is escaped              *)
  Texts,          (* texts the programs may have at first                  *)
  Disassembled,   (* texts of files that may be loaded                     *)
  Inserts,        (* what may be typed, or pasted, at once                 *)
  TabText,        (* what a tab inserts: spaces                            *)
  NoText, NoKey,  (* null                                                  *)
  Selections,     (* bound: what is selected without a key going down      *)
  MaxLength,      (* bound: length of a text                               *)
  MaxEdits,       (* bound: changes of the text                            *)
  MaxClicks       (* bound: what else the user does, in all                *)

Text == Seq(Chars)
Keys == {"Backspace", "Delete", "Enter", "Tab", "other"}

ASSUME EditorAssumption ==
  /\ NL \in Chars /\ Space \in Chars /\ NL # Space
  /\ Escaped \in [Chars -> Nat \ {0}] /\ Escaped[NL] = 1 /\ Escaped[Space] = 1
  /\ Texts \subseteq Text /\ Disassembled \subseteq Text \ {<<>>}
  /\ Inserts \subseteq Text /\ <<>> \notin Inserts
  /\ TabText \in Seq({Space})
  /\ NoText \notin Text /\ NoKey \notin Keys
  /\ Selections \subseteq Nat \X Nat /\ \A p \in Selections : p[1] <= p[2]
  /\ MaxLength \in Nat /\ MaxEdits \in Nat /\ MaxClicks \in Nat

VARIABLES
  asmText,        (* text of each program                                  *)
  breakpoints,    (* of each program, a list of line numbers               *)
  inEditor,       (* m_inEditor: the program that edits go to              *)
  listed,         (* m_breakpoints: whose list it is                       *)
  value,          (* asm_edit.value                                        *)
  lineOffsets,    (* of the last text setText saw that was not empty       *)
  lines,          (* how many line numbers are beside the text             *)
  marks,          (* those of them that are marked                         *)
  prevInText,     (* m_prevInText                                          *)
  saved,          (* selection and key when a key or button went down last *)
  enterDown,      (* the enter key is down                                 *)
  entered,        (* an edit is being worked on, or was when it threw      *)
  edit,           (* history: what the last change replaced, and what was  *)
                  (* thought to be selected                                *)
  edits, clicks

programs == <<asmText, breakpoints, inEditor, listed>>
page == <<value, lineOffsets, lines, marks>>
keyboard == <<saved, enterDown>>
vars == <<programs, page, prevInText, keyboard, entered, edit, edits, clicks>>

Current == breakpoints[listed]
NoEdit == [from |-> 0, to |-> 0, by |-> <<>>]

-----------------------------------------------------------------------------
(***************************************************************************)
(* Places in a list, and what stands at some of them.                      *)
(***************************************************************************)
Nth(S, n) == CHOOSE k \in S : Cardinality({j \in S : j <= k}) = n
Only(list, S) == [n \in 1 .. Cardinality(S) |-> list[Nth(S, n)]]

(***************************************************************************)
(* Lines.                                                                  *)
(***************************************************************************)

(* Where lines end: how many characters are before that place.             *)
EndPlaces(t) == {i \in 0 .. Len(t) : i = Len(t) \/ t[i + 1] = NL}
End(t, n) == Nth(EndPlaces(t), n)
Lines_LastLeftOut(t) == Cardinality(EndPlaces(t)) - 1

Lines(t) == Cardinality(EndPlaces(t))

(* The first i characters of a text, each as long as it is escaped.        *)
EscapedLength(t, i) == Cardinality(UNION {{j} \X (1 .. Escaped[t[j]]) : j \in 1 .. i})
LineOffsets(t) == [n \in 1 .. Lines(t) |-> EscapedLength(t, End(t, n))]

(* setText and makeLineNumberFragment: of an empty text only the numbers   *)
(* beside it are taken away.  New numbers are not marked; who calls it     *)
(* says which are marked after it.                                         *)
OffsetsAfter(t) == IF t = <<>> THEN lineOffsets ELSE LineOffsets(t)
Shown(t) == IF t = <<>> THEN 0 ELSE Lines(t)
SetText(t) == value' = t /\ lineOffsets' = OffsetsAfter(t) /\ lines' = Shown(t)

Init ==
  /\ asmText \in [Codes -> Texts] /\ inEditor \in Codes /\ listed = inEditor
  /\ breakpoints = [c \in Codes |-> <<>>]
  /\ value = asmText[inEditor] /\ value # <<>>
  /\ lineOffsets = LineOffsets(value) /\ lines = Lines(value)
  /\ marks = {} /\ prevInText = NoText
  /\ saved = [start |-> -1, end |-> -1, key |-> NoKey] /\ enterDown = FALSE
  /\ entered = FALSE
  /\ edit = NoEdit /\ edits = 0 /\ clicks = 0

-----------------------------------------------------------------------------
(***************************************************************************)
(* updateBreakpoints, of one breakpoint on line n, for the offsets before  *)
(* the edit, the selection and key k, and so many lines more than before.  *)
(***************************************************************************)
LineStart(n) == IF n = 1 THEN 0 ELSE lineOffsets[n - 1] + 1
LineEnd(n) == lineOffsets[n]

SelectedAway_StartsOnly(n, k) ==
  /\ k.start # k.end
  /\ k.start = LineStart(n) /\ k.end > LineEnd(n)

SelectedAway(n, k) ==
  /\ k.start # k.end
  /\ \/ k.start < LineStart(n) /\ k.end > LineStart(n)
     \/ k.start = LineStart(n) /\ k.end > LineEnd(n)

(* Line n, looked up in the text of the change before.  Past its end there *)
(* is no blank, or, if the build checks it, an exception.                  *)
OnLine(n) == LineStart(n) .. LineEnd(n) - 1
WithText(n) ==
  /\ prevInText # NoText
  /\ \E i \in OnLine(n) : i >= Len(prevInText) \/ prevInText[i + 1] \notin {Space, NL}
RunsOver(n) ==
  /\ prevInText # NoText /\ \E i \in OnLine(n) : i >= Len(prevInText)
  /\ \A i \in OnLine(n) : i < Len(prevInText) => prevInText[i + 1] \in {Space, NL}

ErasedAt(n, k, more) ==
  /\ more # 0 /\ ~SelectedAway(n, k)
  /\ k.start = k.end /\ k.start = LineStart(n)
  /\ k.key \in {"Backspace", "Delete"}

Dropped(n, k, more) == SelectedAway(n, k) \/ (ErasedAt(n, k, more) /\ ~WithText(n))
Moved_Strictly(n, k, more) ==
  IF k.start < LineStart(n) /\ k.end < LineStart(n) THEN n + more ELSE n

Moved(n, k, more) ==
  IF k.start <= LineStart(n) /\ k.end <= LineStart(n) THEN n + more ELSE n

(* The loop over the list, for k, the lines there are more, those shown,   *)
(* and whether the build checks.  It throws at a breakpoint on a line that *)
(* was not there before the edit, or is not after it; what comes later in  *)
(* the list then stays as it is.                                           *)
Fails(n, k, more, checked) ==
  n \notin DOMAIN lineOffsets \/ (checked /\ ErasedAt(n, k, more) /\ RunsOver(n))
Throws(n, k, more, shown, checked) ==
  Fails(n, k, more, checked) \/ (~Dropped(n, k, more) /\ Moved(n, k, more) \notin 1 .. shown)

Done(k, more, shown, checked) ==
  {i \in DOMAIN Current : \A j \in 1 .. i : ~Throws(Current[j], k, more, shown, checked)}
Kept(done, k, more) == {i \in DOMAIN Current : i \in done => ~Dropped(Current[i], k, more)}
Now(i, done, k, more, checked) ==
  IF 1 .. i - 1 \subseteq done /\ ~Fails(Current[i], k, more, checked)
  THEN Moved(Current[i], k, more) ELSE Current[i]

(* assemblyEditorChanged: the text is t, and k was saved.                  *)
Heard(t, k) ==
  /\ ~entered
  /\ SetText(t)
  /\ \E checked \in BOOLEAN :
       LET more == Len(OffsetsAfter(t)) - Len(lineOffsets)
           done == Done(k, more, Shown(t), checked)
           kept == Kept(done, k, more)
           now == [i \in DOMAIN Current |-> Now(i, done, k, more, checked)]
       IN /\ breakpoints' = [breakpoints EXCEPT ![listed] = Only(now, kept)]
          /\ marks' = {now[i] : i \in done \cap kept}
          /\ entered' = (done # DOMAIN Current)
          /\ IF entered' THEN UNCHANGED <<asmText, prevInText>>
             ELSE asmText' = [asmText EXCEPT ![inEditor] = t] /\ prevInText' = t
  /\ UNCHANGED <<inEditor, listed>>

Unheard(t) ==
  /\ entered
  /\ value' = t
  /\ UNCHANGED <<programs, lineOffsets, lines, marks, prevInText, entered>>

Changed(t, k) == Heard(t, k) \/ Unheard(t)

-----------------------------------------------------------------------------
(***************************************************************************)
(* The keyboard and the mouse.                                             *)
(***************************************************************************)
Edited(from, to, k) ==
  /\ edits < MaxEdits /\ edits' = edits + 1 /\ UNCHANGED clicks
  /\ edit' = [from |-> from, to |-> to, by |-> k]
Clicked ==
  /\ clicks < MaxClicks /\ clicks' = clicks + 1 /\ UNCHANGED edits
  /\ edit' = NoEdit

Replaced(t, from, to, new) == SubSeq(t, 1, from) \o new \o SubSeq(t, to + 1, Len(t))
Fits(t) == Len(t) <= MaxLength

(* A key goes down and the page changes what was selected; without a       *)
(* selection, backspace and delete take the character beside the caret.    *)
Erases(key) == key \in {"Backspace", "Delete"}
From(k) == IF k.start = k.end /\ k.key = "Backspace" THEN k.start - 1 ELSE k.start
To(k) == IF k.start = k.end /\ k.key = "Delete" THEN k.end + 1 ELSE k.end

Typed(key) == IF Erases(key) THEN {<<>>} ELSE IF key = "Enter" THEN {<<NL>>} ELSE Inserts

Type(k) ==
  /\ Edited(From(k), To(k), k)
  /\ 0 <= From(k) /\ From(k) <= To(k) /\ To(k) <= Len(value)
  /\ \E new \in Typed(k.key) :
       LET t == Replaced(value, From(k), To(k), new) IN Fits(t) /\ Changed(t, k)
  /\ saved' = k /\ enterDown' = (enterDown \/ k.key = "Enter")

(* fixTabKey does the change itself, and hears of the key before the       *)
(* selection is saved.                                                     *)
Tab(s) ==
  /\ Edited(s, s, saved)
  /\ LET t == Replaced(value, s, s, TabText) IN Fits(t) /\ Changed(t, saved)
  /\ LET caret == s + Len(TabText)
     IN saved' = [start |-> caret, end |-> caret, key |-> "Tab"]
  /\ UNCHANGED enterDown

(* fixIndent: the enter key goes up, the caret being at s.  The spaces     *)
(* that the line before the caret begins with are repeated.                *)
Opens(b, s) == (b = 0 \/ value[b] = NL) /\ \A j \in b + 1 .. s - 1 : value[j] # NL
Indented(s) == {i \in 1 .. s - 1 :
                  \E b \in 0 .. i - 1 : Opens(b, s) /\ \A j \in b + 1 .. i : value[j] = Space}
Indentation(s) == [i \in 1 .. Cardinality(Indented(s)) |-> Space]

Indent(s) ==
  /\ enterDown /\ enterDown' = FALSE
  /\ IF Indentation(s) = <<>>
     THEN Clicked /\ UNCHANGED <<programs, page, prevInText, entered>>
     ELSE /\ Edited(s, s, saved)
          /\ LET t == Replaced(value, s, s, Indentation(s)) IN Fits(t) /\ Changed(t, saved)
  /\ UNCHANGED saved

(* A button goes down or up, or a key that changes nothing.                *)
Select(s, e) ==
  /\ Clicked /\ saved' = [start |-> s, end |-> e, key |-> NoKey]
  /\ UNCHANGED <<programs, page, prevInText, enterDown, entered>>

(* toggleBreakpointEdit: a click on a line number.                         *)
First(list, n) == CHOOSE i \in DOMAIN list : list[i] = n /\ \A j \in 1 .. i - 1 : list[j] # n

Toggle(n) ==
  /\ Clicked
  /\ LET found == n \in Range(Current)
     IN /\ breakpoints' = [breakpoints EXCEPT ![listed] =
                             IF found THEN Only(@, DOMAIN @ \ {First(@, n)}) ELSE Append(@, n)]
        /\ marks' = IF found THEN marks \ {n} ELSE marks \cup {n}
  /\ UNCHANGED <<asmText, inEditor, listed, value, lineOffsets, lines, prevInText,
                 keyboard, entered>>

-----------------------------------------------------------------------------
(***************************************************************************)
(* Other texts.  A breakpoint on no line that is shown ends them halfway.  *)
(***************************************************************************)

(* What of a list is reached before such a breakpoint.                     *)
Reached(list, shown) ==
  {list[i] : i \in {i \in DOMAIN list : \A j \in 1 .. i : list[j] \in 1 .. shown}}
AllReached(list, shown) == Range(list) \subseteq 1 .. shown

(* changePlayer marks the lines of a program again.                        *)
MarkedAnew_Not(c) == {}
MarkedAnew(c) == Reached(breakpoints[c], lines')

(* j_srcSelectionChanged and playerSelectionChanged: a program's button is *)
(* clicked.                                                                *)
Switch(c) ==
  /\ Clicked
  /\ inEditor' = c
  /\ IF AllReached(Current, lines)
     THEN /\ SetText(asmText[c])
          /\ listed' = c /\ marks' = MarkedAnew(c)
     ELSE /\ marks' = marks \ Reached(Current, lines)
          /\ UNCHANGED <<listed, value, lineOffsets, lines>>
  /\ UNCHANGED <<asmText, breakpoints, prevInText, keyboard, entered>>

(* j_loadBinary and loadedNewBinary, for a file that disassembles to t:    *)
(* breakpoints no longer matter.                                           *)
Cleared_Not == breakpoints
Cleared == [breakpoints EXCEPT ![inEditor] = <<>>]

Load(t) ==
  /\ Clicked
  /\ breakpoints' = Cleared
  /\ IF AllReached(Cleared[listed], lines)
     THEN /\ SetText(t) /\ marks' = {}
          /\ listed' = inEditor /\ asmText' = [asmText EXCEPT ![inEditor] = t]
     ELSE /\ asmText' = [asmText EXCEPT ![inEditor] = <<>>]
          /\ marks' = marks \ Reached(Cleared[listed], lines)
          /\ UNCHANGED <<listed, value, lineOffsets, lines>>
  /\ UNCHANGED <<inEditor, prevInText, keyboard, entered>>

Places == 0 .. Len(value)
Next ==
  \/ \E s \in Places, key \in Keys \ {"Tab"} :
       \E e \in s .. Len(value) : Type([start |-> s, end |-> e, key |-> key])
  \/ \E s, e \in Places : <<s, e>> \in Selections /\ Select(s, e)
  \/ \E s \in Places : Tab(s)
  \/ \E s \in Places : Indent(s)
  \/ \E n \in 1 .. lines : Toggle(n)
  \/ \E c \in Codes : Switch(c)
  \/ \E t \in Disassembled : Load(t)

Spec == Init /\ [][Next]_vars

-----------------------------------------------------------------------------
(* The state keeps its types, whatever is typed, selected and clicked.     *)
TypeOK ==
  /\ asmText \in [Codes -> Text] /\ breakpoints \in [Codes -> Seq(Int)]
  /\ inEditor \in Codes /\ listed \in Codes
  /\ value \in Text /\ lineOffsets \in Seq(Nat) /\ lineOffsets # <<>>
  /\ lines \in Nat /\ marks \subseteq 1 .. lines
  /\ prevInText \in Text \cup {NoText}
  /\ saved \in [start : Int, end : Int, key : Keys \cup {NoKey}]
  /\ enterDown \in BOOLEAN /\ entered \in BOOLEAN
  /\ edit.from \in Nat /\ edit.to \in Nat
  /\ edits \in 0 .. MaxEdits /\ clicks \in 0 .. MaxClicks

(* While the editor listens, the breakpoints of every program are on lines *)
(* of its text, and the text shown is that of the program edits go to.     *)
BreakpointsOnLines ==
  ~entered =>
    /\ \A c \in Codes : Range(breakpoints[c]) \subseteq 1 .. Lines(asmText[c])
    /\ listed = inEditor /\ value = asmText[inEditor]

(* What marks the lines of breakpoints never forgets one, until two of     *)
(* them have come together on one line, and always after an edit.          *)
MarksFollow ==
  [][ ~entered' /\ marks = Range(Current)
        => \/ marks' = Range(Current')
           \/ ~IsInjective(Current) /\ edits' = edits ]_vars

(* An edit is worked on to its end, and the next is heard: unless it       *)
(* leaves no text, or the offsets are those of escaped characters, or the  *)
(* text remembered is another's, and too short to look at what is erased.  *)
Escapes(t) == \E i \in 1 .. Len(t) : Escaped[t[i]] # 1
EditorListens ==
  [][ entered' => \/ entered
                  \/ value' = <<>> \/ Escapes(value)
                  \/ prevInText # NoText /\ Len(prevInText) < Len(value) ]_vars

(* Lines of the text in the editor, as its selections see them.            *)
Starts(n) == IF n = 1 THEN 0 ELSE End(value, n - 1) + 1
Stops(n) == End(value, n)
Blank(n) == \A i \in Starts(n) + 1 .. Stops(n) : value[i] = Space

(* The selection used is that of the edit, or a caret.                     *)
Own(e) == e.by.start = e.by.end \/ (e.by.start = e.from /\ e.by.end = e.to)
(* What is remembered of the text, which erasing looks at, is this text.   *)
Remembered(e) == Erases(e.by.key) => prevInText = value
Untouched(e, n) == (Starts(n) < e.from /\ Stops(n) <= e.from) \/ Starts(n) >= e.to
BlankErased(e, n) == Erases(e.by.key) /\ Blank(n) /\ Starts(n) = e.by.start /\ e.by.start = e.by.end
Place(e, n, more) == IF Starts(n) >= e.to THEN n + more ELSE n

(* Breakpoints stay with their lines: of a line the edit leaves whole the  *)
(* breakpoint is kept, where the line is now; and a breakpoint is on the   *)
(* line where it was, which did not begin within what is replaced.  Only a *)
(* blank line may lose its breakpoint when it is erased at the caret.      *)
BreakpointsFollowLines ==
  [][ LET e == edit'
          more == Lines(value') - Lines(value)
      IN edits' # edits /\ ~entered /\ ~entered' /\ e.by # <<>>
           /\ ~Escapes(value) /\ Own(e) /\ Remembered(e)
         => /\ \A n \in Range(Current) : Untouched(e, n) /\ ~BlankErased(e, n)
                 => Place(e, n, more) \in Range(Current')
            /\ \A m \in Range(Current') : \E n \in Range(Current) :
                 /\ Starts(n) <= e.from \/ Starts(n) >= e.to
                 /\ m = Place(e, n, more) ]_vars
=============================================================================
