------------------------------- MODULE Widgets -------------------------------
(***************************************************************************)
(* The widgets of programs: the toolkit, and the views with items.         *)
(***************************************************************************)
EXTENDS Integers, Sequences, SequencesExt, FiniteSetsExt, FiniteSets

(***************************************************************************)
(* The widget system of the toolkit (kernel/widget.c): one list of widgets *)
(* for all windows, one focus, and the dispatch of mouse and keys; with    *)
(* the values that the widgets of each type keep.                          *)
(***************************************************************************)
CONSTANTS Programs,   \* the widgets that a program makes: the type of each, by number
          Place,      \* widget |-> the positions it covers
          WidgetItems, \* LV_MAX_ITEMS, CB_MAX_ITEMS, TAB_MAX_TABS, MENU_MAX_ITEMS
          Values,     \* values and bounds that callers set
          HideAfter,  \* auto_hide_ms / 10
          MaxTime     \* bound: jiffies

ASSUME ToolkitAssumption == \A p \in Programs : p \in Seq(STRING)

NoWidget == 0 \* NULL

VARIABLES kind,           \* the types of the widgets of this program
          widget_list,    \* newest first
          focused_widget,
          wid,            \* widget |-> its fields
          now             \* get_jiffies()

toolkitVars == <<kind, widget_list, focused_widget, wid, now>>

Widgets == DOMAIN kind
Of(kinds) == {w \in ToSet(widget_list) : kind[w] \in kinds}
Field(w, changed) ==
    wid' = [wid EXCEPT ![w] = [f \in DOMAIN @ |-> IF f \in DOMAIN changed THEN changed[f] ELSE @[f]]]

WidgetInit == /\ kind \in Programs
              /\ widget_list = <<>> /\ focused_widget = NoWidget /\ now = 0
              /\ wid = [w \in Widgets |->
                    [visible |-> FALSE, focused |-> FALSE, on |-> FALSE, dragging |-> FALSE,
                     min |-> 0, max |-> 0, value |-> 0, count |-> 0, selected |-> 0, shown |-> 0]]

\* What the type sets in a new widget; the rest is zero.
StartsHidden(k) == k \in {"menu", "dialog", "tooltip"}
FirstMax(k)     == IF k \in {"scrollbar", "slider", "progressbar"} THEN 2 ELSE 0
FirstValue(k)   == IF k = "slider" THEN 1 ELSE 0

\* btn_create .. cbo_create with add_widget.  A kmalloc that fails makes none.
Create(w) ==
    /\ w \notin ToSet(widget_list)
    /\ widget_list' = <<w>> \o widget_list
    /\ Field(w, [visible |-> ~StartsHidden(kind[w]), max |-> FirstMax(kind[w]),
                 value |-> FirstValue(kind[w])])
    /\ UNCHANGED <<focused_widget, now>>

\* widget_at_pos: the first, so the newest, that shows there in any window.
Hits(p) == {i \in DOMAIN widget_list : wid[widget_list[i]].visible /\ p \in Place[widget_list[i]]}

\* Mutant of FocusTo: the widget that had the focus keeps its mark.
FocusToKept(w) == [wid EXCEPT ![w].focused = TRUE]

\* widget_set_focus
FocusTo(w) == [v \in Widgets |-> [wid[v] EXCEPT !.focused = IF v = w THEN TRUE
                                                           ELSE IF v = focused_widget THEN FALSE
                                                           ELSE @]]

\* widget_handle_mouse
WidgetHandleMouse(p, pressed) ==
    /\ Hits(p) # {}
    /\ LET w == widget_list[Min(Hits(p))] IN
       /\ focused_widget' = w
       /\ wid' = [FocusTo(w) EXCEPT
              ![w].on = IF kind[w] \in {"checkbox", "combobox", "toggle"} /\ ~pressed THEN ~@ ELSE @,
              ![w].dragging = IF kind[w] \in {"scrollbar", "slider", "button", "toggle"}
                              THEN pressed ELSE @]
    /\ UNCHANGED <<widget_list, now>>

WidgetSetFocus(w) ==
    /\ focused_widget' = w
    /\ wid' = FocusTo(w)
    /\ UNCHANGED <<widget_list, now>>

\* sb_set_value and sld_set_value clamp, pb_set_value does not, and no
\* set_range looks at the value.
Set(w, change) == /\ w \in ToSet(widget_list) /\ Field(w, change)
                  /\ UNCHANGED <<widget_list, focused_widget, now>>
Clamped(w, v) == LET low == Max({v, wid[w].min}) IN Min({low, wid[w].max})
SetRange(w, min, max) == kind[w] \in {"scrollbar", "slider", "progressbar"}
                         /\ Set(w, [min |-> min, max |-> max])
SetValue(w, v) == \/ kind[w] \in {"scrollbar", "slider"} /\ Set(w, [value |-> Clamped(w, v)])
                  \/ kind[w] = "progressbar" /\ Set(w, [value |-> v])

\* lv_add_item, cbo_add_item, tab_add and menu_add_item; lv_clear and cbo_clear.
AddItem(w) == /\ kind[w] \in {"listview", "combobox", "tab", "menu"}
              /\ wid[w].count < WidgetItems
              /\ Set(w, [count |-> wid[w].count + 1])
Clear(w)   == kind[w] \in {"listview", "combobox"} /\ Set(w, [count |-> 0, selected |-> -1])

\* Mutant of InList: the index one past the last item is taken.
InListOrNext(w, i) == i \in 0 .. wid[w].count

\* cbo_select, which also closes the list, and tab_set_active
InList(w, i) == i \in 0 .. wid[w].count - 1
Select(w, i) == /\ InList(w, i)
                /\ \/ kind[w] = "combobox" /\ Set(w, [selected |-> i, on |-> FALSE])
                   \/ kind[w] = "tab" /\ Set(w, [selected |-> i])

\* menu_show, dlg_show_modal, tt_show; menu_hide, dlg_close, tt_hide.  Hiding a
\* widget leaves it the focus.
Show(w) == kind[w] \in {"menu", "dialog", "tooltip"} /\ Set(w, [visible |-> TRUE, shown |-> now])
Hide(w) == kind[w] \in {"menu", "dialog", "tooltip"} /\ Set(w, [visible |-> FALSE])

\* widget_draw_all changes one thing: a tooltip that has been shown for longer
\* than its delay hides.
WidgetDrawAll ==
    /\ wid' = [w \in Widgets |-> IF /\ w \in Of({"tooltip"}) /\ wid[w].visible
                                    /\ now - wid[w].shown > HideAfter
                                 THEN [wid[w] EXCEPT !.visible = FALSE] ELSE wid[w]]
    /\ UNCHANGED <<widget_list, focused_widget, now>>

Tick == now < MaxTime /\ now' = now + 1 /\ UNCHANGED <<widget_list, focused_widget, wid>>

WidgetCalls ==
    \/ \E w \in Widgets :
          \/ Create(w) \/ AddItem(w) \/ Clear(w) \/ Show(w) \/ Hide(w)
          \/ \E v \in Values : SetValue(w, v) \/ Select(w, v) \/ \E max \in Values : SetRange(w, v, max)
    \/ \E w \in ToSet(widget_list) \cup {NoWidget} : WidgetSetFocus(w)
    \/ \E p \in UNION {Place[w] : w \in Widgets}, pressed \in BOOLEAN : WidgetHandleMouse(p, pressed)
    \/ WidgetDrawAll \/ Tick

WidgetNext == WidgetCalls /\ UNCHANGED kind

(***************************************************************************)
(* Properties                                                              *)
(***************************************************************************)
\* Whoever moved it, the mouse or a caller, the focus is marked on the one
\* widget that gets the keys; and what a list has selected is one of its items,
\* however it was filled and cleared (0 until it first has any).
FocusAndSelection ==
    /\ {w \in Widgets : wid[w].focused} = {focused_widget} \ {NoWidget}
    /\ \A w \in Of({"listview", "combobox", "tab"}) : wid[w].selected < Max({wid[w].count, 1})

(***************************************************************************)
(* List, combo and tree views (kernel/widget_views.c and                   *)
(* kernel/widget_tree.c): positions and pointers that must follow the      *)
(* items as they are added, removed and sorted.                            *)
(***************************************************************************)
CONSTANTS Labels,   \* texts of items, as numbers in their order
          MaxItems, \* LV_MAX_ITEMS and CB_MAX_ITEMS
          Nodes     \* tree nodes that kmalloc has

None == "none"

ASSUME ViewsAssumption == /\ Labels \subseteq Int /\ MaxItems \in Nat
                          /\ None \notin Nodes /\ IsFiniteSet(Nodes)

VARIABLES list,   \* [items, selected] of a listview_t in single mode
          added,  \* items added to it and not removed, as pairs (history)
          sorted, \* no item was added since the last sort (history)
          combo,  \* [count, selected, open] of a combobox_t
          tree,   \* [root, child, next, parent, count] of a treeview_t
          live,   \* nodes allocated and not freed
          lost    \* a node was removed that was neither a root nor a first child

listVars == <<list, added, sorted>>
viewVars == <<listVars, combo, tree, live, lost>>

(***************************************************************************)
(* The list view: an item has a text, an identity and its mark             *)
(***************************************************************************)
ListInit == list = [items |-> <<>>, selected |-> 0] /\ added = {} /\ sorted = FALSE

NewId == Min((1 .. MaxItems + 1) \ {a[2] : a \in added})

ListviewAddItem(text) ==
    /\ Len(list.items) < MaxItems
    /\ list' = [list EXCEPT !.items = Append(@, [text |-> text, id |-> NewId, marked |-> FALSE])]
    /\ added' = added \cup {<<text, NewId>>} /\ sorted' = FALSE

ListviewClear == list' = [items |-> <<>>, selected |-> -1] /\ added' = {} /\ UNCHANGED sorted

ListviewRemoveItem(i) ==
    /\ i \in DOMAIN list.items
    /\ LET left == Len(list.items) - 1
       IN  list' = [items |-> RemoveAt(list.items, i),
                    selected |-> IF list.selected >= left THEN left - 1 ELSE list.selected]
    /\ added' = added \ {<<list.items[i].text, list.items[i].id>>} /\ UNCHANGED sorted

\* Mutant of Marked: the mark of the item that was selected stays.
MarkedToo(items, i) == [items EXCEPT ![i].marked = TRUE]

Marked(items, i) == [j \in DOMAIN items |-> [items[j] EXCEPT !.marked = (j = i)]]

\* Also what a click on the item does.
ListviewSetSelected(i) ==
    /\ i \in DOMAIN list.items
    /\ list' = [items |-> Marked(list.items, i), selected |-> i - 1]
    /\ UNCHANGED <<added, sorted>>

Ordered(items, j) == IF items[j].text > items[j + 1].text
                     THEN [items EXCEPT ![j] = items[j + 1], ![j + 1] = items[j]] ELSE items

\* Mutant of LastPair: the last pair of a pass is left out.
LastPairEarly(n, i) == n - i - 1

\* Pass i of the bubble sort compares the pairs at 1 .. n - i.
LastPair(n, i) == n - i

Pass(items, i) ==
    LET last == LastPair(Len(items), i)
        after[j \in 0 .. last] == IF j = 0 THEN items ELSE Ordered(after[j - 1], j)
    IN  after[last]

Bubbled(items) ==
    LET after[i \in 0 .. Len(items) - 1] == IF i = 0 THEN items ELSE Pass(after[i - 1], i)
    IN  after[Len(items) - 1]

\* The position that is selected stays, whichever item comes to it.
ListviewSort == /\ Len(list.items) >= 2
                /\ list' = [list EXCEPT !.items = Bubbled(@)]
                /\ sorted' = TRUE /\ UNCHANGED added

ListNext == \/ \E text \in Labels : ListviewAddItem(text)
            \/ \E i \in 1 .. MaxItems : ListviewRemoveItem(i) \/ ListviewSetSelected(i)
            \/ ListviewClear \/ ListviewSort

(***************************************************************************)
(* The combo box                                                           *)
(***************************************************************************)
ComboInit == combo = [count |-> 0, selected |-> -1, open |-> FALSE]

ComboboxAddItem == /\ combo.count < MaxItems
                   /\ combo' = [combo EXCEPT !.count = @ + 1,
                                             !.selected = IF @ < 0 THEN 0 ELSE @]
ComboboxSetSelected(i)     == i < combo.count /\ combo' = [combo EXCEPT !.selected = i]
ComboboxHandleItemClick(i) == i < combo.count /\ combo' = [combo EXCEPT !.selected = i, !.open = FALSE]
ComboboxToggleDropdown     == combo' = [combo EXCEPT !.open = ~@]

\* Mutant of ComboboxClear: the selection of the items that went is kept.
ComboboxClearKept == combo' = [combo EXCEPT !.count = 0, !.open = FALSE]

ComboboxClear == combo' = [count |-> 0, selected |-> -1, open |-> FALSE]

ComboNext == \/ ComboboxAddItem \/ ComboboxToggleDropdown \/ ComboboxClear
             \/ \E i \in 0 .. MaxItems - 1 : ComboboxSetSelected(i) \/ ComboboxHandleItemClick(i)

(***************************************************************************)
(* The tree view: first child, next sibling and parent of every node       *)
(***************************************************************************)
TreeInit == /\ tree = [root |-> None, count |-> 0, child |-> [n \in Nodes |-> None],
                       next |-> [n \in Nodes |-> None], parent |-> [n \in Nodes |-> None]]
            /\ live = {} /\ lost = FALSE

\* The nodes that links lead to from some nodes: the least set that has these
\* and is closed.
Reached(from, links) ==
    LET Closed(S) == from \subseteq S /\ \A m \in S, link \in links : link[m] \in S \cup {None}
    IN  {n \in Nodes : \A S \in SUBSET Nodes : Closed(S) => n \in S}

Siblings(t, first) == Reached({first} \ {None}, {t.next})
\* The nodes below n, and n
Below(t, n) == {n} \cup Reached({t.child[n]} \ {None}, {t.child, t.next})
Linked(t)   == Reached({t.root} \ {None}, {t.child, t.next})

\* A new node goes behind the last of its siblings.
Appended(t, first, n) ==
    LET last == CHOOSE m \in Siblings(t, first) : t.next[m] = None IN  [t EXCEPT !.next[last] = n]

Fresh(t, n, p) == [t EXCEPT !.count = @ + 1, !.child[n] = None, !.next[n] = None, !.parent[n] = p]

TreeviewAddRoot(n) ==
    /\ n \notin live /\ live' = live \cup {n} /\ UNCHANGED lost
    /\ LET t == Fresh(tree, n, None)
       IN  tree' = IF t.root = None THEN [t EXCEPT !.root = n] ELSE Appended(t, t.root, n)

TreeviewAddChild(p, n) ==
    /\ p \in live /\ n \notin live /\ live' = live \cup {n} /\ UNCHANGED lost
    /\ LET t == Fresh(tree, n, p)
       IN  tree' = IF t.child[p] = None THEN [t EXCEPT !.child[p] = n]
                   ELSE Appended(t, t.child[p], n)

\* What is behind n takes its place: under the parent if n is the first child,
\* at the root if it is the first there, and behind the root that n follows.
\* A child that is not the first follows none: the tree still leads to it.
Unlinked(t, n) ==
    IF t.parent[n] # None /\ t.child[t.parent[n]] = n THEN [t EXCEPT !.child[t.parent[n]] = t.next[n]]
    ELSE IF t.root = n THEN [t EXCEPT !.root = t.next[n]]
    ELSE [t EXCEPT !.next = [m \in Nodes |-> IF m \in Siblings(t, t.root) /\ @[m] = n
                                             THEN @[n] ELSE @[m]]]

\* The children go first, and each of them is then a first child; so the whole
\* of it is one step from the outside.
Removed(t, n) == LET gone == Below(t, n)
                 IN  [Unlinked(t, n) EXCEPT !.count = @ - Cardinality(gone)]

\* Mutant of WithNode: the nodes below the one removed are not freed.
WithNodeOnly(n) == {n}

\* The nodes that go with n
WithNode(n) == Below(tree, n)

TreeviewRemoveNode(n) ==
    /\ n \in live
    /\ tree' = Removed(tree, n)
    /\ live' = live \ WithNode(n)
    /\ lost' = (tree.parent[n] # None /\ tree.child[tree.parent[n]] # n)

\* Every root is removed in turn.
TreeviewClear ==
    /\ tree' = [tree EXCEPT !.root = None, !.count = 0]
    /\ live' = live \ Linked(tree)
    /\ UNCHANGED lost

\* What happens on the nodes that were freed but are still linked is undefined:
\* the model stops there.
TreeNext == ~lost /\ (
    \/ \E n \in Nodes : \/ TreeviewAddRoot(n) \/ TreeviewRemoveNode(n)
                        \/ \E p \in Nodes : TreeviewAddChild(p, n)
    \/ TreeviewClear)

(***************************************************************************)
(* Properties                                                              *)
(***************************************************************************)
\* Removing, marking and sorting keep every item once; a sorted list stays
\* sorted until an item is added; at most one item is marked, and the selected
\* position is in the list.
ListKeepsItems ==
    /\ {<<i.text, i.id>> : i \in ToSet(list.items)} = added /\ Len(list.items) = Cardinality(added)
    /\ sorted => \A i \in 1 .. Len(list.items) - 1 : list.items[i].text <= list.items[i + 1].text
    /\ Cardinality({i \in DOMAIN list.items : list.items[i].marked}) <= 1
    /\ list.selected \in -1 .. Max({Len(list.items) - 1, 0})

\* A combo box has a selected item exactly when it has items.
ComboSelects == combo.selected \in IF combo.count = 0 THEN {-1} ELSE 0 .. combo.count - 1

\* As long as only roots and first children are removed, the tree leads to every
\* node that is allocated, to no freed one, and counts them.
TreeReachesLive == ~lost => Linked(tree) = live /\ tree.count = Cardinality(live)
=============================================================================
