------------------------------ MODULE MCUserVm ------------------------------
(* UserVm for TLC, with four pages to a leaf table. *)
EXTENDS UserVm

MCSpans == <<16, 8, 4>>

(* One that is granted and two that are refused. *)
MCProtections == {{}, {"WRITE", "EXEC"}, {"SHARED"}}

(* The three next_table calls of vmm_map_page for page v, from level l on; *)
(* there is room for `room` tables in all.                                 *)
RECURSIVE next_table(_, _, _, _)
next_table(tables, room, v, l) ==
  LET t == <<l, v \div Spans[l]>> IN
  IF l > 3 THEN [tables |-> tables, ok |-> TRUE]
  ELSE IF t \notin tables /\ Cardinality(tables) = room
  THEN [tables |-> tables, ok |-> FALSE]
  ELSE next_table(tables \cup {t}, room, v, l + 1)

(* The loop of vmm_map_range from page a + j on, with its rollback. *)
RECURSIVE vmm_map_range(_, _, _, _, _)
vmm_map_range(sp, room, a, n, j) ==
  LET walk == next_table(sp.tables, room, a + j, 1) IN
  IF j = n THEN [leaf |-> sp.leaf, tables |-> sp.tables, ok |-> TRUE]
  ELSE IF walk.ok /\ sp.leaf[a + j] = NoLeaf
  THEN vmm_map_range([sp EXCEPT !.tables = walk.tables,
                                !.leaf[a + j] = [page |-> 1 + j, bits |-> {}]],
                     room, a, n, j + 1)
  ELSE [leaf |-> [v \in VPage |-> IF v \in a .. (a + j - 1) THEN NoLeaf
                                 ELSE sp.leaf[v]],
        tables |-> walk.tables, ok |-> FALSE]

(* MapStops, TablesLeft and Mapped say of vmm_map_range what its loop      *)
(* does, with whatever is mapped and however few pages are free            *)
(* (kernel/mm/vmm.c:200), for three pages in one leaf table and in two.    *)
MapRangeAgrees ==
  \A p \in Slots, a \in {MmapBase - 2, MmapBase} :
    vm[p].live = "yes" =>
      LET sp == vm[p]
          n == 3
          room == Cardinality(sp.tables) + Cardinality(Free(pmm))
          loop == vmm_map_range(sp, room, a, n, 0)
          stops == MapStops(sp, pmm, a, n)
      IN IF stops = {}
         THEN loop = [leaf |-> Mapped(sp.leaf, a, n, 1, {}), ok |-> TRUE,
                      tables |-> sp.tables \cup Missing(sp, a, n - 1)]
         ELSE \E j \in stops :
                /\ \A i \in stops : j <= i
                /\ loop = [leaf |-> sp.leaf, ok |-> FALSE,
                           tables |-> sp.tables \cup TablesLeft(sp, pmm, a, j)]
=============================================================================
