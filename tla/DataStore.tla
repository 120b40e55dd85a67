------------------------------ MODULE DataStore ------------------------------
(***************************************************************************)
(* The window of the data store: the task instances within a few edges of  *)
(* the task pool that user interfaces are shown (data_store_mgr.py).       *)
(*                                                                         *)
(* A task that enters the pool walks the graph about it; walks are kept    *)
(* and used by later ones.  What a task that leaves the pool, or reaches   *)
(* the boundary of another's walk, makes superfluous is flagged, and       *)
(* pruned once in an iteration of the main loop, when all the deltas are   *)
(* applied.                                                                *)
(*                                                                         *)
(* A node is a task instance.  What it shows of the task, its jobs, its    *)
(* families and tasks that a reload took out of the graph are left out.    *)
(* Loops over sets take some fixed order.                                  *)
(***************************************************************************)
EXTENDS Naturals, Sequences, FiniteSets, FiniteSetsExt, SequencesExt

CONSTANTS
    Nodes,       \* the task instances
    Graph,       \* the edges, as <<parent, child>>
    Extents,     \* the values that n_edge_distance may get
    MaxWindowCommands   \* bound on the commands that change the window

ASSUME DataStoreAssumption ==
    /\ Graph \subseteq Nodes \X Nodes
    /\ Extents \subseteq Nat /\ Extents # {}
    /\ MaxWindowCommands \in Nat

Kids(n) == {k \in Nodes : <<n, k>> \in Graph}
Folks(n) == {k \in Nodes : <<k, n>> \in Graph}
MaxExtent == Max(Extents)

\* Where a node is, seen from the origin of a walk: <<"c", "p">> for a parent of
\* a child.
Locations == UNION {[1..i -> {"c", "p"}] : i \in 1..MaxExtent}

VARIABLES
    ds,        \* the data store manager
    extent,    \* n_edge_distance
    nextExtent,\* next_n_edge_distance; the extent is for none
    synced,    \* the deltas were applied since the pool changed
    nCommands, \* commands so far
    strayed    \* history: a task was spawned away from the pool at extent 2 or more

dvars == <<ds, extent, nextExtent, synced, nCommands, strayed>>

Walk ==
    [locs : [Locations -> SUBSET Nodes], doneLocs : SUBSET Locations,
     doneIds : SUBSET Nodes, ids : SUBSET Nodes,
     depths : [1..MaxExtent -> SUBSET Nodes]]
NoWalk ==
    [locs |-> [l \in Locations |-> {}], doneLocs |-> {}, doneIds |-> {}, ids |-> {},
     depths |-> [d \in 1..MaxExtent |-> {}]]

Store ==
    [pool : SUBSET Nodes,        \* all_task_pool
     shown : SUBSET Nodes,       \* the task proxies of data
     added : SUBSET Nodes,       \* the task proxies of added
     edges : SUBSET Graph,       \* the edges of data
     newEdges : SUBSET Graph,    \* the edges of added
     ends : [Nodes -> SUBSET Graph],      \* the edges of a task proxy in data
     newEnds : [Nodes -> SUBSET Graph],   \* the edges of a task proxy in updated
     known : SUBSET Graph,       \* n_window_edges
     all : SUBSET Nodes,         \* all_n_window_nodes
     win : [Nodes -> SUBSET Nodes],       \* n_window_nodes; {} is for none
     walks : [Nodes -> Walk],    \* n_window_node_walks; NoWalk is for none
     completed : SUBSET Nodes,   \* n_window_completed_walks
     triggers : [Nodes -> SUBSET Nodes],  \* prune_trigger_nodes; {} is for none
     flagged : SUBSET Nodes,     \* prune_flagged_nodes
     depths : [0..MaxExtent -> SUBSET Nodes],   \* n_window_depths
     depth : [Nodes -> 0..MaxExtent]]     \* graph_depth of a task proxy
-----------------------------------------------------------------------------
(* Nodes and edges. *)

\* generate_ghost_task.
Ghost(s, t, d) ==
    IF t \in s.shown \cup s.added THEN s
    ELSE [s EXCEPT !.added = @ \cup {t}, !.all = @ \cup {t},
                   !.depths[d] = @ \cup {t}, !.depth[t] = d]

\* generate_edge.
Edge(s, x, y) ==
    LET e == <<x, y>> IN
    IF e \in s.known \cup s.edges \cup s.newEdges THEN s
    ELSE [s EXCEPT !.newEdges = @ \cup {e}, !.known = @ \cup {e},
                   !.newEnds[x] = @ \cup {e}, !.newEnds[y] = @ \cup {e}]
-----------------------------------------------------------------------------
(* increment_graph_window. *)

\* The children and the parents of a node at depth d - 1 of the walk from a:
\* those of an earlier walk, if they are all there still, or generated anew.
Explore(s, a, node, d) ==
    LET walk == s.walks[node]
        known == node # a /\ walk # NoWalk
        IsDone(tag) == known /\ walk.locs[<<tag>>] # {} /\ walk.locs[<<tag>>] \subseteq s.all
        kids == IF IsDone("c") THEN {} ELSE Kids(node)
        folks == IF IsDone("p") THEN {} ELSE Folks(node)
        down == FoldSet(LAMBDA k, acc : Edge(Ghost(acc, k, d), node, k), s, kids)
        up == FoldSet(LAMBDA k, acc : Edge(Ghost(acc, k, d), k, node), down, folks)
        w == IF walk = NoWalk
             THEN [NoWalk EXCEPT !.ids = {node} \cup kids \cup folks] ELSE walk
        grown == [w EXCEPT
                    !.locs[<<"c">>] = IF kids = {} THEN @ ELSE kids,
                    !.locs[<<"p">>] = IF folks = {} THEN @ ELSE folks,
                    !.depths[1] = @ \cup kids \cup folks]
    IN  [s |-> IF IsDone("c") /\ IsDone("p") THEN s ELSE [up EXCEPT !.walks[node] = grown],
         c |-> IF IsDone("c") THEN walk.locs[<<"c">>] ELSE kids,
         p |-> IF IsDone("p") THEN walk.locs[<<"p">>] ELSE folks]

\* One location of the walk from a, <<>> for a itself.
WalkLocation(l, s, a) ==
    LET before == s.walks[a]
        nodes == (IF l = <<>> THEN {a} ELSE before.locs[l]) \ before.doneIds
        start == [s |-> [s EXCEPT !.walks[a].doneIds = @ \cup nodes,
                                  !.walks[a].doneLocs =
                                      IF l = <<>> THEN @ ELSE @ \cup {l}],
                  c |-> {}, p |-> {}]
        Join(acc, e) == [s |-> e.s, c |-> acc.c \cup e.c, p |-> acc.p \cup e.p]
        Located(t, c, p) ==
          [t EXCEPT !.walks[a] =
             [@ EXCEPT !.locs[Append(l, "c")] = @ \cup c,
                       !.locs[Append(l, "p")] = @ \cup p,
                       !.ids = @ \cup c \cup p,
                       !.depths[Len(l) + 1] = @ \cup c \cup p]]
        Walked(r) == Located(r.s, r.c \ r.s.walks[a].ids, r.p \ r.s.walks[a].ids)
    IN  Walked(FoldSet(LAMBDA n, acc : Join(acc, Explore(acc.s, a, n, Len(l) + 1)),
                       start, nodes))

RECURSIVE WalkOn(_, _, _)
\* The locations that are not fully explored, until a round finds nothing new.
WalkOn(s, a, n) ==
    LET w == s.walks[a]
        left == {l \in Locations : w.locs[l] # {} /\ Len(l) < n /\ l \notin w.doneLocs}
        next == IF w.doneIds = {} /\ left = {} /\ n # 0 THEN {<<>>} ELSE left
        Again(r) == IF r.walks[a].ids = w.ids THEN r ELSE WalkOn(r, a, n)
    IN  Again(FoldSet(LAMBDA l, acc : WalkLocation(l, acc, a), s, next))

\* What is known of a location l from the walks of the nodes one step nearer to
\* a.  If nothing of it was pruned that location counts as explored.
Prefill(l, s, a) ==
    LET w == s.walks[a]
        near == w.locs[Front(l)]
        found == UNION {s.walks[k].locs[<<Last(l)>>] : k \in near} \ w.ids
        explored == (\A k \in near : s.walks[k] # NoWalk) /\ found \subseteq s.all
    IN  IF near = {} \/ found = {} THEN s
        ELSE [s EXCEPT !.walks[a] =
                [w EXCEPT !.locs[l] = found, !.ids = @ \cup found,
                          !.depths[Len(l)] = @ \cup found,
                          !.doneLocs = IF explored THEN @ \cup {Front(l)} ELSE @,
                          !.doneIds = IF explored THEN @ \cup near ELSE @]]

\* The same for all locations, from the nearest.
RECURSIVE PrefillFrom(_, _, _, _)
PrefillFrom(s, a, d, n) ==
    IF d > n THEN s
    ELSE PrefillFrom(FoldSet(LAMBDA l, acc : Prefill(l, acc, a), s,
                             {l \in Locations : Len(l) = d}),
                     a, d + 1, n)

\* The edges between two nodes at the edge of the window.
OuterEdges(s, a, n) ==
    LET outer == IF n = 0 THEN {} ELSE s.walks[a].depths[n] IN
    FoldSet(LAMBDA e, acc : Edge(acc, e[1], e[2]), s, Graph \cap (outer \X outer))

\* The farthest descendants in the walk, which flag it when they enter the pool.
Boundary(w, a) ==
    LET down == {l \in Locations : w.locs[l] # {} /\ "p" \notin Range(l)}
        far == {l \in down : \A m \in down : Len(m) <= Len(l)}
    IN  IF down = {} THEN {a} ELSE UNION {w.locs[l] : l \in far}

SetTriggers(s, a, manual) ==
    LET ids == s.walks[a].ids
        set == [t \in Nodes |->
                  (IF t \in Boundary(s.walks[a], a) THEN (s.triggers[t] \cup ids) \ {t}
                                                    ELSE s.triggers[t])
                  \cup (IF manual /\ t = a THEN {a} ELSE {})]
    IN  [s EXCEPT !.triggers = [set EXCEPT ![a] = {}],
                  !.flagged = @ \cup set[a]]

IncrementGraphWindow(s, a, manual, n) ==
    LET again == s.walks[a] = NoWalk \/ a \in s.completed
        Begun == Ghost([s EXCEPT !.walks[a] = IF again THEN [NoWalk EXCEPT !.ids = {a}]
                                                       ELSE @], a, 0)
        Done(w) == [w EXCEPT !.completed = @ \cup {a}, !.win[a] = w.walks[a].ids]
    IN  SetTriggers(OuterEdges(Done(WalkOn(PrefillFrom(Begun, a, 2, n), a, n)), a, n),
                    a, manual)

\* add_pool_node and increment_graph_window.
AddToPool(s, t, manual, n) ==
    IncrementGraphWindow([s EXCEPT !.pool = @ \cup {t}], t, manual, n)

\* remove_pool_node.
RemovePoolNode(s, t) ==
    LET pool == s.pool \ {t}
        flags == IF t \in s.triggers[t] THEN s.triggers[t]
                 ELSE IF s.win[t] # {} /\ s.win[t] \cap pool = {} THEN {t}
                 ELSE s.walks[t].ids
    IN  [s EXCEPT !.pool = pool, !.flagged = @ \cup flags, !.triggers[t] = {}]
-----------------------------------------------------------------------------
(* update_data_structure. *)

Windows(s) == UNION {s.win[t] : t \in s.pool}

\* window_resize_rewalk: all walks anew.
Rewalk(s, n) ==
    LET clear == [s EXCEPT !.flagged = {}, !.triggers = [t \in Nodes |-> {}],
                           !.walks = [t \in Nodes |-> NoWalk]]
        Flag(w) == [w EXCEPT !.flagged = @ \cup (w.all \ Windows(w))]
    IN  Flag(FoldSet(LAMBDA t, acc : IncrementGraphWindow(acc, t, FALSE, n),
                     clear, s.pool))

\* A mutant: what other tasks of the pool still show is pruned.
SuperfluousOutsidePool(s) ==
    (s.flagged \cup UNION {s.win[t] : t \in s.flagged}) \ s.pool

\* The nodes that prune_data_store prunes.
Superfluous(s) ==
    (s.flagged \cup UNION {s.win[t] : t \in s.flagged}) \ Windows(s)

\* prune_data_store, dedupe_pruned_updated_task_proxies and the application of
\* the deltas: edges first, then nodes; additions, updates and removals.
Prune(s) ==
    LET out == IF s.flagged = {} THEN {} ELSE Superfluous(s)
        gone == out \cap (s.shown \cup s.added)
        cut == UNION {s.ends[t] \cup s.newEnds[t] : t \in gone}
        known == s.known \ cut
        all == IF s.flagged = {} THEN s.all ELSE Windows(s)
        shown == (s.shown \cup s.added) \ gone
    IN  [s EXCEPT
           !.all = all,
           !.flagged = @ \cap s.pool,
           !.triggers = [t \in Nodes |-> IF s.flagged # {} /\ t \notin all THEN {} ELSE @[t]],
           !.win = [t \in Nodes |-> IF t \in out THEN {} ELSE @[t]],
           !.walks = [t \in Nodes |-> IF t \in gone THEN NoWalk ELSE @[t]],
           !.completed = @ \ gone,
           !.known = known,
           !.edges = (@ \cup s.newEdges) \ cut,
           !.newEdges = {},
           !.ends = [t \in Nodes |-> IF t \in shown THEN (@[t] \ cut) \cup s.newEnds[t]
                                                    ELSE {}],
           !.newEnds = [t \in Nodes |-> {}],
           !.shown = shown, !.added = {}]

\* window_depth_finder.
FindDepths(s, n) ==
    LET At[d \in 0..MaxExtent] ==
          IF d = 0 THEN s.pool
          ELSE IF d > n THEN {}
          ELSE UNION {s.walks[t].depths[d] : t \in s.pool} \ UNION {At[k] : k \in 0..(d-1)}
    IN  [s EXCEPT !.depths = At,
                  !.depth = [t \in Nodes |->
                     IF \E d \in 0..MaxExtent : t \in At[d] \ s.depths[d]
                     THEN CHOOSE d \in 0..MaxExtent : t \in At[d] ELSE @[t]]]
-----------------------------------------------------------------------------
(* Actions. *)

EmptyStore ==
    [pool |-> {}, shown |-> {}, added |-> {}, edges |-> {}, newEdges |-> {},
     ends |-> [t \in Nodes |-> {}], newEnds |-> [t \in Nodes |-> {}],
     known |-> {}, all |-> {}, win |-> [t \in Nodes |-> {}],
     walks |-> [t \in Nodes |-> NoWalk], completed |-> {},
     triggers |-> [t \in Nodes |-> {}], flagged |-> {},
     depths |-> [d \in 0..MaxExtent |-> {}], depth |-> [t \in Nodes |-> 0]]

DInit ==
    /\ ds = EmptyStore
    /\ extent \in Extents /\ nextExtent = extent
    /\ synced = TRUE
    /\ nCommands = 0 /\ strayed = FALSE

Command ==
    /\ nCommands < MaxWindowCommands
    /\ nCommands' = nCommands + 1

\* create_data_store_elements: a parent in the pool spawns the task, or it has no
\* parents, or a command spawns it.
Spawn(t) ==
    /\ t \notin ds.pool
    /\ IF Folks(t) = {} \/ Folks(t) \cap ds.pool # {} THEN UNCHANGED <<nCommands, strayed>>
       ELSE Command /\ strayed' = (strayed \/ extent > 1)
    /\ ds' = AddToPool(ds, t, FALSE, extent)
    /\ synced' = FALSE
    /\ UNCHANGED <<extent, nextExtent>>

Leave(t) ==
    /\ t \in ds.pool
    /\ ds' = RemovePoolNode(ds, t)
    /\ synced' = FALSE
    /\ UNCHANGED <<extent, nextExtent, nCommands, strayed>>

SetGraphWindowExtent(n) ==
    /\ Command
    /\ n \notin {extent, nextExtent}   \* or nothing changes
    /\ nextExtent' = n
    /\ UNCHANGED <<ds, extent, synced, strayed>>

\* A reload: a new store, into which the tasks of the pool are put, those in
\* manual with is_manual_submit.  A new extent not yet applied is forgotten.
Reload(manual) ==
    /\ Command
    /\ ds' = FoldSet(LAMBDA t, acc : AddToPool(acc, t, t \in manual, extent),
                     EmptyStore, ds.pool)
    /\ nextExtent' = extent
    /\ synced' = FALSE
    /\ UNCHANGED <<extent, strayed>>

UpdateDataStructure ==
    /\ ~synced \/ extent # nextExtent
    /\ ds' = FindDepths(Prune(IF extent = nextExtent THEN ds
                                                    ELSE Rewalk(ds, nextExtent)),
                        nextExtent)
    /\ extent' = nextExtent
    /\ synced' = TRUE
    /\ UNCHANGED <<nextExtent, nCommands, strayed>>

DNext ==
    \/ \E t \in Nodes : Spawn(t) \/ Leave(t)
    \/ \E n \in Extents : SetGraphWindowExtent(n)
    \/ \E manual \in SUBSET ds.pool : Reload(manual)
    \/ UpdateDataStructure

DSpec == DInit /\ [][DNext]_dvars
-----------------------------------------------------------------------------
(* Properties. *)

DTypeOK ==
    /\ ds \in Store
    /\ extent \in Extents /\ nextExtent \in Extents
    /\ synced \in BOOLEAN /\ nCommands \in 0..MaxWindowCommands
    /\ strayed \in BOOLEAN

\* The nodes at most d edges from the pool.
Near[d \in 0..MaxExtent] ==
    IF d = 0 THEN ds.pool
    ELSE Near[d - 1] \cup UNION {Kids(t) \cup Folks(t) : t \in Near[d - 1]}

\* After an update the store shows the tasks within n edges of the pool and no
\* others, each at its distance, the edges that touch the pool, and no edge to a
\* task that is not there ("Generate graph window about active task proxy to
\* n-edge-distance", increment_graph_window).
WindowIsNear ==
    synced =>
        /\ ds.shown = Near[extent]
        /\ \A t \in ds.shown, d \in 1..MaxExtent :
              (ds.depth[t] >= d) = (t \notin Near[d - 1])
        /\ {e \in Graph : extent > 0 /\ {e[1], e[2]} \cap ds.pool # {}} \subseteq ds.edges
        /\ ds.edges \subseteq ds.shown \X ds.shown
        /\ ds.known = ds.edges

\* The same unless a command spawned a task away from the pool while the window
\* reached two edges or more: the walk begun for the task by an earlier one may
\* name tasks that were pruned since.
WindowIsNearBut == strayed \/ WindowIsNear
=============================================================================
