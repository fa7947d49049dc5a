---------------------------- MODULE MCHybridSearch ----------------------------
(* Three cases.  One query over every base of two vectors, every mode and  *)
(* setting, with a label (3) that the base does not know; the pre-filter   *)
(* over three vectors, more than K, with any distances; and a batch of     *)
(* three queries on two threads, where only who runs when matters.         *)
EXTENDS HybridSearch

CONSTANTS w1, w2

Orders(n) == Bijection(0 .. n - 1, 0 .. n - 1)
Same(n) == [k \in 0 .. n - 1 |-> k]

MCInstances ==
    {[queries |-> {0}, workers |-> {w1}, numPoints |-> 2,
      labels |-> {1, 2}, queryLabels |-> {1, 2, 3}, distances |-> {1},
      newToOlds |-> Orders(2), externals |-> Orders(2),
      modes |-> {"TFNG", "ALPS", "ALPS+", "ALPS-fixed"},
      baselines |-> {"prefilter", "favor", "favor_hnsw", "sorted_lng", "tfng2"},
      presets |-> {None, "prefilter", "tfng2", "legacy"},
      targets |-> {"favor_hnsw"}],
     [queries |-> {0}, workers |-> {w1}, numPoints |-> 3,
      labels |-> {1}, queryLabels |-> {1}, distances |-> Distance,
      newToOlds |-> Orders(3), externals |-> {Same(3)},
      modes |-> {"TFNG"}, baselines |-> {"prefilter"}, presets |-> {None}, targets |-> {"favor"}],
     [queries |-> {0, 1, 2}, workers |-> {w1, w2}, numPoints |-> 1,
      labels |-> {}, queryLabels |-> {}, distances |-> {1},
      newToOlds |-> Orders(1), externals |-> Orders(1),
      modes |-> {"ALPS+"}, baselines |-> {}, presets |-> {None}, targets |-> {"favor"}]}

=============================================================================
