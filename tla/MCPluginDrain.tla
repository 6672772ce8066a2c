---------------------------- MODULE MCPluginDrain ----------------------------
EXTENDS PluginDrain, TLC

CONSTANTS r1, r2, b1, b2, t1, t2

\* Every operation, one request at a time; and two requests at once: of the operations
\* that admit and drain, of those that rewrite or delete rows while a drain goes on, and
\* of those that start and stop the runtime meanwhile.
SmallSetups ==
  {[parallel |-> 1, ops |-> AllOps, jobs |-> {b1}, tasks |-> {b2}],
   [parallel |-> 2, jobs |-> {b1}, tasks |-> {},
    ops |-> {"subscribe", "unsubscribe", "schedule", "drain", "refresh"}],
   [parallel |-> 2, jobs |-> {}, tasks |-> {b1},
    ops |-> {"rotate", "unsubscribe", "delete", "drain", "refresh"}],
   [parallel |-> 2, jobs |-> {}, tasks |-> {},
    ops |-> {"install", "enable", "restart", "drain", "refresh", "uninstall"}]}
RequestSymmetry == Permutations({r1, r2})
=============================================================================
