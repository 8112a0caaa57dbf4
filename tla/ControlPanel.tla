---------------------------- MODULE ControlPanel ----------------------------
(***************************************************************************)
(* gui/gtkcontrolpanel.c: a container that draws a picture behind its      *)
(* children.  gtk_widget_set_parent() and gtk_widget_unparent() emit       *)
(* "parent-set" before put and remove come to the list of children, and    *)
(* forall calls back for each child, so all three may be under way at once *)
(* when the program calls the next operation: calls holds those that are,  *)
(* innermost last.                                                         *)
(***************************************************************************)
EXTENDS Naturals, FiniteSets, SequencesExt

CONSTANTS Panels,     \* the GtkControlPanel instances
          Widgets,    \* widgets to put on them
          Nodes,      \* addresses of a list node and its GtkControlPanelChild
          Places,     \* positions of a child
          Discreet,   \* whether callbacks keep to the rule of MayPut, MayRemove
          MaxDepth,   \* bound: operations under way
          None        \* NULL

ASSUME PanelAssumption ==
    /\ Discreet \in BOOLEAN
    /\ MaxDepth \in Nat
    /\ None \notin Panels \union Nodes \union [widget : Widgets, place : Places]

VARIABLES
    life,       \* each panel: "UNBORN", "ALIVE" or "DESTROYED"
    realized,   \* each panel: GTK_REALIZED
    pixbuf,     \* each panel: cp->pixbuf is not NULL
    pixmap,     \* each panel: cp->pixmap is not NULL
    pixbufRefs, \* references the panels have on the pixbuf they share
    pixmapRefs, \* each panel's references on the pixmap it has rendered
    children,   \* each panel: cp->children
    child,      \* each node: its widget and place, or None if it is free
    parent,     \* each widget: widget->parent
    calls,      \* the operations under way
    aborted     \* a g_assert() has failed

pictureVars == <<realized, pixbuf, pixmap, pixbufRefs, pixmapRefs>>
listVars    == <<children, child, parent>>
vars == <<life, pictureVars, listVars, calls, aborted>>

Frame == [op : {"put", "remove", "forall"}, panel : Panels, widget : Widgets,
          node : Nodes \union {None}, todo : SUBSET Nodes]

\* A mistake to look for: the search begins with the second node.
GetChildButHead(p, w) ==
    LET at == {i \in DOMAIN children[p] : i > 1 /\ child[children[p][i]].widget = w} IN
    IF at = {} THEN None ELSE children[p][CHOOSE i \in at : \A j \in at : i <= j]

\* get_child(): the first node for w, or None.
GetChild(p, w) ==
    LET at == {i \in DOMAIN children[p] : child[children[p][i]].widget = w} IN
    IF at = {} THEN None ELSE children[p][CHOOSE i \in at : \A j \in at : i <= j]

\* Where n is in a list.
Position(list, n) == CHOOSE i \in DOMAIN list : list[i] = n

\* The node after n in the list of p, or None.
Following(p, n) ==
    LET i == Position(children[p], n) IN
    IF i = Len(children[p]) THEN None ELSE children[p][i + 1]

Idle == ~aborted /\ Len(calls) < MaxDepth
Top  == Last(calls)

\* The program may do what it likes in a callback, but if it is discreet it
\* leaves the widget alone whose parent is just changing,
MayTouch(w) ==
    Discreet => \A i \in DOMAIN calls :
                    calls[i].op \in {"put", "remove"} => calls[i].widget # w
\* and takes no child from a list that forall goes through but the one that
\* forall has called for.
MayRemove(p, w) ==
    /\ MayTouch(w)
    /\ Discreet => \A i \in DOMAIN calls :
                    calls[i].op = "forall" /\ calls[i].panel = p => calls[i].widget = w

----------------------------------------------------------------------------
(* The picture.                                                            *)

\* gtk_control_panel_new()
New(p) ==
    /\ Idle /\ life[p] = "UNBORN"
    /\ life' = [life EXCEPT ![p] = "ALIVE"]
    /\ pixbuf' = [pixbuf EXCEPT ![p] = TRUE]
    /\ pixbufRefs' = pixbufRefs + 1
    /\ UNCHANGED <<realized, pixmap, pixmapRefs, listVars, calls, aborted>>

\* gdk_pixbuf_render_pixmap_and_mask_for_colormap(): a new pixmap with one
\* reference, from the pixbuf if there is one; it refuses NULL.
Render(p) ==
    /\ pixmap' = [pixmap EXCEPT ![p] = @ \/ pixbuf[p]]
    /\ pixmapRefs' = [pixmapRefs EXCEPT ![p] = IF pixbuf[p] THEN @ + 1 ELSE @]

\* "done with pixbuf"; g_object_unref() refuses NULL.
UnrefPixbuf(p) == pixbufRefs' = IF pixbuf[p] THEN pixbufRefs - 1 ELSE pixbufRefs

\* gtk_control_panel_realize(): the pixbuf is given up.
Realize(p) ==
    /\ Idle /\ life[p] = "ALIVE" /\ ~realized[p]
    /\ realized' = [realized EXCEPT ![p] = TRUE]
    /\ Render(p)
    /\ UnrefPixbuf(p)
    /\ pixbuf' = [pixbuf EXCEPT ![p] = FALSE]
    /\ UNCHANGED <<life, listVars, calls, aborted>>

\* gtk_widget_unrealize(), of GtkWidget.
Unrealize(p) ==
    /\ Idle /\ realized[p]
    /\ realized' = [realized EXCEPT ![p] = FALSE]
    /\ UNCHANGED <<life, pixbuf, pixmap, pixbufRefs, pixmapRefs, listVars, calls, aborted>>

\* forall calls back for the child of n, the next node in hand.
AtChild(p, n, todo) == [op |-> "forall", panel |-> p, widget |-> child[n].widget,
                        node |-> Following(p, n), todo |-> todo]

\* The start of forall.
StartForall(p) ==
    IF children[p] = << >> THEN calls' = calls
    ELSE calls' = Append(calls, AtChild(p, Head(children[p]), ToSet(Tail(children[p]))))

\* gtk_control_panel_destroy(), after gtk_widget_dispose() has unrealized the
\* panel; the parent class then goes through the children to destroy them.
Destroy(p) ==
    /\ Idle /\ life[p] # "UNBORN"
    /\ life' = [life EXCEPT ![p] = "DESTROYED"]
    /\ realized' = [realized EXCEPT ![p] = FALSE]
    /\ pixbufRefs' = IF pixbuf[p] THEN pixbufRefs + 1 ELSE pixbufRefs
    /\ pixmapRefs' = [pixmapRefs EXCEPT ![p] = IF pixmap[p] THEN @ + 1 ELSE @]
    /\ pixbuf' = [pixbuf EXCEPT ![p] = FALSE]
    /\ pixmap' = [pixmap EXCEPT ![p] = FALSE]
    /\ StartForall(p)
    /\ UNCHANGED <<listVars, aborted>>

----------------------------------------------------------------------------
(* The children.                                                           *)

\* gtk_control_panel_put() and _add(), up to the "parent-set" of a widget that
\* had no parent.
Put(p, w, x) ==
    /\ Idle /\ life[p] = "ALIVE" /\ parent[w] = None /\ MayTouch(w)
    /\ \E n \in Nodes :
         /\ child[n] = None
         /\ child' = [child EXCEPT ![n] = [widget |-> w, place |-> x]]
         /\ calls' = Append(calls, [op |-> "put", panel |-> p, widget |-> w,
                                    node |-> n, todo |-> {}])
    /\ parent' = [parent EXCEPT ![w] = p]
    /\ UNCHANGED <<life, pictureVars, children, aborted>>

\* ... and the rest of it.
FinishPut ==
    /\ calls # << >> /\ Top.op = "put"
    /\ children' = [children EXCEPT ![Top.panel] = Append(@, Top.node)]
    /\ calls' = Front(calls)
    /\ UNCHANGED <<life, pictureVars, child, parent, aborted>>

\* gtk_control_panel_move_internal(): gtk_control_panel_move() and the setters
\* of the child properties x and y.
Move(p, w, x) ==
    LET n == GetChild(p, w) IN
    /\ Idle /\ parent[w] = p /\ MayTouch(w)
    /\ IF n = None
         THEN aborted' = TRUE /\ child' = child
         ELSE aborted' = aborted /\ child' = [child EXCEPT ![n].place = x]
    /\ UNCHANGED <<life, pictureVars, children, parent, calls>>

\* gtk_control_panel_remove(), up to "parent-set"; gtk_container_remove() has
\* checked the parent.
RemoveChild(p, w) ==
    LET n == GetChild(p, w) IN
    /\ Idle /\ parent[w] = p /\ n # None /\ MayRemove(p, w)
    /\ parent' = [parent EXCEPT ![w] = None]
    /\ calls' = Append(calls, [op |-> "remove", panel |-> p, widget |-> w,
                               node |-> n, todo |-> {}])
    /\ UNCHANGED <<life, pictureVars, children, child, aborted>>

\* Mistakes to look for: g_list_free() of a node that is still linked frees
\* what follows it; the head of the list is taken for the node.
FreeTail(p, n) ==
    LET i == Position(children[p], n) IN
    /\ children' = [children EXCEPT ![p] = SubSeq(@, 1, i - 1)]
    /\ child' = [m \in Nodes |-> IF \E j \in i .. Len(children[p]) : children[p][j] = m
                                   THEN None ELSE child[m]]

UnlinkHead(p, n) ==
    /\ children' = [children EXCEPT ![p] = Tail(@)]
    /\ child' = [child EXCEPT ![n] = None]

\* g_list_remove_link(), g_list_free() and g_free().
Unlink(p, n) ==
    /\ children' = [children EXCEPT ![p] = RemoveAt(@, Position(@, n))]
    /\ child' = [child EXCEPT ![n] = None]

FinishRemove ==
    /\ calls # << >> /\ Top.op = "remove"
    /\ Unlink(Top.panel, Top.node)
    /\ calls' = Front(calls)
    /\ UNCHANGED <<life, pictureVars, parent, aborted>>

\* gtk_control_panel_forall()
Forall(p) ==
    /\ Idle /\ children[p] # << >>
    /\ StartForall(p)
    /\ UNCHANGED <<life, pictureVars, listVars, aborted>>

\* Its callback returns: it goes on with the node it has in hand.
ContinueForall ==
    LET n == Top.node IN
    /\ calls # << >> /\ Top.op = "forall"
    /\ calls' = IF n = None THEN Front(calls)
                ELSE [calls EXCEPT ![Len(calls)] = AtChild(Top.panel, n, Top.todo \ {n})]
    /\ UNCHANGED <<life, pictureVars, listVars, aborted>>

----------------------------------------------------------------------------
Init ==
    /\ life = [p \in Panels |-> "UNBORN"]
    /\ realized = [p \in Panels |-> FALSE]
    /\ pixbuf = [p \in Panels |-> FALSE]
    /\ pixmap = [p \in Panels |-> FALSE]
    /\ pixbufRefs = 0
    /\ pixmapRefs = [p \in Panels |-> 0]
    /\ children = [p \in Panels |-> << >>]
    /\ child = [n \in Nodes |-> None]
    /\ parent = [w \in Widgets |-> None]
    /\ calls = << >>
    /\ aborted = FALSE

Next ==
    \/ \E p \in Panels : New(p) \/ Realize(p) \/ Unrealize(p) \/ Destroy(p) \/ Forall(p)
    \/ \E p \in Panels, w \in Widgets :
         \/ \E x \in Places : Put(p, w, x) \/ Move(p, w, x)
         \/ RemoveChild(p, w)
    \/ FinishPut \/ FinishRemove \/ ContinueForall

Spec == Init /\ [][Next]_vars

----------------------------------------------------------------------------
(* Properties.                                                             *)

TypeOK ==
    /\ life \in [Panels -> {"UNBORN", "ALIVE", "DESTROYED"}]
    /\ {realized, pixbuf, pixmap} \subseteq [Panels -> BOOLEAN]
    /\ pixbufRefs \in Nat
    /\ pixmapRefs \in [Panels -> Nat]
    /\ children \in [Panels -> Seq(Nodes)]
    /\ child \in [Nodes -> [widget : Widgets, place : Places] \union {None}]
    /\ parent \in [Widgets -> Panels \union {None}]
    /\ calls \in Seq(Frame)
    /\ aborted \in BOOLEAN

Changing(w) == \E i \in DOMAIN calls : calls[i].op \in {"put", "remove"} /\ calls[i].widget = w

\* However callbacks nest, the list of a panel and the parent pointers of the
\* widgets agree: a widget whose parent is not just changing is in the list of
\* its parent, once, and in no other.
ListMatchesParent ==
    \A w \in Widgets, p \in Panels : ~Changing(w) =>
        Cardinality({i \in DOMAIN children[p] : child[children[p][i]] # None
                                                 /\ child[children[p][i]].widget = w})
            = IF parent[w] = p THEN 1 ELSE 0

\* forall never goes on to a node that was freed during its callbacks, and
\* every child that was there when it began and still is has been called for
\* or lies ahead.
ForallReachesAll ==
    \A i \in DOMAIN calls : calls[i].op = "forall" =>
        LET list  == children[calls[i].panel]
            next  == calls[i].node
            ahead == {list[j] : j \in {j \in DOMAIN list : \E k \in 1 .. j : list[k] = next}}
        IN
        /\ next # None => next \in ToSet(list) /\ child[next] # None
        /\ calls[i].todo \intersect ToSet(list) \subseteq ahead

\* The assertion in gtk_control_panel_move_internal().
ChildAsserted == ~aborted

=============================================================================
