------------------------- MODULE MCRuntimeScheduler -------------------------
EXTENDS RuntimeScheduler

\* One schedule of every type; the cron expression has no time after its second.
SmallSchedules ==
    {[type |-> "once", expr |-> {1}], [type |-> "interval", expr |-> {1}],
     [type |-> "cron", expr |-> {1, 2}]}
=============================================================================
