------------------------------- MODULE RtosFfi -------------------------------
(***************************************************************************)
(* The functions of the C interface of shawncore-rtos-sync that take       *)
(* pointers.  A number among the arguments that the wrapper or the method  *)
(* refuses (a priority, a state, an index) makes the method fail.          *)
(***************************************************************************)
EXTENDS FfiChecks

\* A function that changes one object, and one that leaves it: none of the objects of
\* this crate has a Drop of its own.
Changing(role) == Function({role}, {}, {role}, {role}, {}, {})

Reading(role) == Function({role}, {}, {role}, {}, {}, {})

\* The object and the region it will manage are given together.
WithBacking(role) ==
    Function({role, "memory_base"}, {}, {role}, {role}, {"memory_base"},
             With(role, {"memory_base"}))

\* The item is copied before anything of the object changes, so the two are not compared:
\* a task's TCB before the scheduler is borrowed, an item to push after the queue is
\* borrowed for sharing and before its push.
Pushing(role, item) == Function({role, item}, {}, {role, item}, {role}, {}, {})

Copied == {"event", "item", "tcb"}

\* The item is written to the host after the object has given it up.
Popping(role, out) ==
    Function({role, out}, {}, {role, out}, {role}, {out}, With(role, {out}))

-----------------------------------------------------------------------------
scheduler_init == Changing("scheduler")
scheduler_destroy == Reading("scheduler")
scheduler_create_task == Pushing("scheduler", "tcb")
scheduler_tick == Changing("scheduler")
scheduler_set_critical_task_mask == Changing("scheduler")
scheduler_task_check_in == Changing("scheduler")

tcb_new == Function({"out_tcb"}, {}, {"out_tcb"}, {}, {"out_tcb"}, {})
tcb_get_rsp == Reading("tcb")
tcb_set_rsp == Changing("tcb")

dmapool2k_init == WithBacking("pool")
dmapool2k_destroy == Reading("pool")
dmapool2k_free == Changing("pool")

dmapool2k_allocate ==
    Function({"pool", "out_idx", "out_generation", "out_ptr"}, {},
             {"pool", "out_idx", "out_generation", "out_ptr"}, {"pool"},
             {"out_idx", "out_generation", "out_ptr"},
             With("pool", {"out_idx", "out_generation", "out_ptr"})
             \cup With("out_idx", {"out_generation", "out_ptr"})
             \cup With("out_generation", {"out_ptr"}))

spsc_telemetry_init == WithBacking("queue")
spsc_telemetry_destroy == Reading("queue")
spsc_telemetry_push == Pushing("queue", "event")
spsc_telemetry_pop == Popping("queue", "out_event")

ringbuffer_ew_init == WithBacking("rb")
ringbuffer_ew_destroy == Reading("rb")
ringbuffer_ew_push == Pushing("rb", "item")
ringbuffer_ew_pop == Popping("rb", "out_item")

\* peek leaves the object as it is; the ranges are compared all the same.
ringbuffer_ew_peek ==
    Function({"rb", "out_item"}, {}, {"rb", "out_item"}, {}, {"out_item"},
             With("rb", {"out_item"}))

spsc_fft_init == WithBacking("queue")
spsc_fft_destroy == Reading("queue")
spsc_fft_push == Pushing("queue", "item")
spsc_fft_pop == Popping("queue", "out_item")

state_machine_init == Changing("machine")
state_machine_destroy == Reading("machine")
state_machine_try_advance == Changing("machine")

latency_tracker_init == Changing("tracker")
latency_tracker_destroy == Reading("tracker")
latency_tracker_mark_start == Changing("tracker")
latency_tracker_mark_end == Changing("tracker")
=============================================================================
