----------------------------- MODULE MCInterface -----------------------------
(***************************************************************************)
(* What programs use and draw: regions, widgets, texts, applications, the  *)
(* taskbar, fonts and images.  They share no state, so part is chosen at   *)
(* the start and only its module takes steps.                              *)
(***************************************************************************)
EXTENDS Regions, TextBox, Widgets, Applications, Fonts, Images

CONSTANTS NoWidgets, \* the program, the screen and the text of the other parts
          OtherWidth,
          OtherText

VARIABLE part

vars == <<regionVars, textVars, toolkitVars, viewVars, timerVars, appVars, taskbarVars, layoutVars,
          cacheVars, imageVars, part>>

Parts == {"regions", "textbox", "editor", "widgets", "list", "combo", "tree", "timers", "apps",
          "taskbar", "layout", "glyphs", "images", "columns", "rows"}

Init == /\ RegionInit /\ TextInit /\ WidgetInit /\ ListInit /\ ComboInit /\ TreeInit /\ TimersInit
        /\ AppsInit /\ TaskbarInit /\ LayoutInit /\ GlyphCacheInit /\ ImagesInit
        /\ part \in Parts
        /\ part # "widgets" => kind = NoWidgets
        /\ part # "taskbar" => screen_width = OtherWidth
        /\ part # "layout"  => text = OtherText /\ max_width = 0

\* Everything but the variables of one module
KeepDrawing  == UNCHANGED <<regionVars, taskbarVars>>
KeepWidgets  == UNCHANGED <<textVars, toolkitVars, viewVars>>
KeepPrograms == UNCHANGED <<timerVars, appVars>>
KeepFonts    == UNCHANGED <<layoutVars, cacheVars, imageVars>>

Drawing  == /\ \/ part = "regions" /\ RegionNext /\ UNCHANGED taskbarVars
               \/ part = "taskbar" /\ TaskbarNext /\ UNCHANGED regionVars
            /\ KeepWidgets /\ KeepPrograms /\ KeepFonts
Typing   == /\ \/ part = "textbox" /\ TextBoxCalls
               \/ part = "editor" /\ EditorCalls
            /\ UNCHANGED <<toolkitVars, viewVars>> /\ KeepDrawing /\ KeepPrograms /\ KeepFonts
Toolkits == /\ part = "widgets" /\ WidgetNext
            /\ UNCHANGED <<textVars, viewVars>> /\ KeepDrawing /\ KeepPrograms /\ KeepFonts
ViewsStep == /\ \/ part = "list" /\ ListNext /\ UNCHANGED <<combo, tree, live, lost>>
                \/ part = "combo" /\ ComboNext /\ UNCHANGED <<listVars, tree, live, lost>>
                \/ part = "tree" /\ TreeNext /\ UNCHANGED <<listVars, combo>>
             /\ UNCHANGED <<textVars, toolkitVars>> /\ KeepDrawing /\ KeepPrograms /\ KeepFonts
Running   == /\ \/ part = "timers" /\ TimersNext /\ UNCHANGED appVars
                \/ part = "apps" /\ AppsNext /\ UNCHANGED timerVars
             /\ KeepDrawing /\ KeepWidgets /\ KeepFonts
Fonts    == /\ \/ part = "layout" /\ LayoutNext /\ UNCHANGED cacheVars
               \/ part = "glyphs" /\ GlyphCacheNext /\ UNCHANGED layoutVars
            /\ UNCHANGED imageVars /\ KeepDrawing /\ KeepWidgets /\ KeepPrograms
Pictures == /\ \/ part = "images" /\ ImagesNext
               \/ part = "columns" /\ ColumnsNext
               \/ part = "rows" /\ RowsNext
            /\ UNCHANGED <<layoutVars, cacheVars>> /\ KeepDrawing /\ KeepWidgets /\ KeepPrograms
Next == (Drawing \/ Typing \/ Toolkits \/ ViewsStep \/ Running \/ Fonts \/ Pictures) /\ UNCHANGED part

\* The values of the constants
Rectangles == {Box(0,0,1,1), Box(1,0,1,1), Box(1,1,2,1), Box(0,1,2,1), Box(-1,0,3,2), Box(2,0,2,1), Box(0,0,0,1),
               Box(1,0,2,3)}
Inserts    == {<<"a">>, <<"b">>, <<"a", "b">>, <<>>}
NoKinds    == <<>>
Kinds      == {<<"checkbox", "scrollbar">>, <<"combobox", "tooltip">>, <<"tab", "progressbar">>,
               <<"slider", "menu">>, <<"button", "dialog">>, <<"toggle", "listview">>, NoKinds}
Overlapping == <<{1, 2}, {2}>>
Sentences  == UNION {[1 .. n -> {0, 1, 3}] : n \in 0 .. 6}
NoSentence == <<>>

Spec == Init /\ [][Next]_vars

(***************************************************************************)
(* What the run checks of several modules                                  *)
(***************************************************************************)
\* Regions hold what was added to them, and drawing stays inside (kernel/clip.c).
RegionsExact  == RegionCovers /\ DrawsClipped
\* Focus, selection, items and nodes of the widgets agree.
WidgetsAgree  == FocusAndSelection /\ ListKeepsItems /\ ComboSelects /\ TreeReachesLive
\* Timers and instances of programs are those their users count on, but for a timer
\* that replaced one whose callback ran (app_extra.c 381).
ProgramsKept  == TimersRing /\ WindowsHaveOwners
\* What the taskbar, the fonts and the images draw is what was asked for, from
\* blocks of the heap that each have one owner.
DrawnAsAsked  == DrawnIsHit /\ TextLaidOut /\ CacheHoldsCopies /\ ImagesOwned /\ ColumnsInside /\ RowsDecoded
=============================================================================
