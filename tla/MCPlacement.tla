---------------------------- MODULE MCPlacement -----------------------------
(***************************************************************************)
(* Reports and tasks for model-checking Placement.  A second has four      *)
(* milliseconds; the clock runs from 41 to 44, which is eleven seconds, so *)
(* that hints expire on the way; 20 separates the units.                   *)
(***************************************************************************)
EXTENDS Placement

CONSTANTS chat, summarize, p1, p2, m1, m2, f1, f2, f3, i1, i2

Cand(prefix, expires, clock, instance, fp, sim) ==
    [prefix_sha256 |-> prefix, prefix_bytes |-> 1, expires_at |-> expires, clock |-> clock,
     runtime_instance |-> instance, model_fingerprint |-> fp, simulated |-> sim,
     malformed |-> {}]
Rt(id, state, busy, sim, loaded, cache, fp, switch) ==
    [id |-> id, state |-> state, busy |-> busy, simulated |-> sim, loaded_model |-> loaded,
     prefix_cache |-> cache, runtime_instance |-> i1, model_fingerprint |-> fp,
     supports_model_switch |-> switch, malformed |-> {}]
Mod(id, runtime, resident, available, sim, fp) ==
    [id |-> id, runtime |-> runtime, capabilities |-> {chat}, resident |-> resident,
     available |-> available, simulated |-> sim, fingerprint |-> fp, malformed |-> {}]
Report(n, runtimes, models) ==
    [node_id |-> n, active_requests |-> 0, runtimes |-> runtimes, models |-> models,
     malformed |-> {}]

InSeconds == Cand(p1, 11, "seconds", i1, f1, FALSE)
InMillis  == Cand(p1, 42, "milliseconds", i1, f1, FALSE)
OldProcess == Cand(p1, 11, "seconds", i2, f1, FALSE)

\* One runtime with two models: cold, warm, warm with the other model's or the old
\* process's cache, with a file that was replaced, busy.
Both(rt, fp) == <<Mod(m1, 1, rt.loaded_model = m1, TRUE, FALSE, fp),
                  [Mod(m2, 1, rt.loaded_model = m2, TRUE, FALSE, f2)
                      EXCEPT !.capabilities = {chat, summarize}]>>
Single(n, rt, fp) == Report(n, <<rt>>, Both(rt, fp))

Cold     == Single(1, Rt(1, "unloaded", FALSE, FALSE, None, {}, None, TRUE), f1)
Warm     == Single(1, Rt(1, "ready", FALSE, FALSE, m1, {InSeconds}, f1, TRUE), f1)
Restarted == Single(1, Rt(1, "ready", FALSE, FALSE, m1, {OldProcess}, f1, TRUE), f1)
Replaced == Single(1, Rt(1, "ready", FALSE, FALSE, m1, {InMillis}, f1, TRUE), f3)
Other    == Single(1, Rt(1, "ready", FALSE, FALSE, m2, {InSeconds}, f2, TRUE), f1)
Busy     == Single(1, Rt(1, "ready", TRUE, FALSE, m1, {}, f1, TRUE), f1)
TooMany  == Single(1, Rt(1, "ready", FALSE, FALSE, m1,
                         {InSeconds, InMillis, OldProcess}, f1, TRUE), f1)
NoLoad   == [Warm EXCEPT !.malformed = {"load"}]

\* Two runtimes: an attached one and a simulated one with a hint.
Mixed == Report(2, <<Rt(1, "ready", FALSE, FALSE, m1, {InMillis}, f1, FALSE),
                     Rt(2, "ready", FALSE, TRUE, m2,
                        {Cand(p1, 11, "seconds", i1, f2, TRUE)}, f2, TRUE)>>,
                <<Mod(m1, 1, TRUE, TRUE, FALSE, f1), Mod(m2, 2, TRUE, TRUE, TRUE, None)>>)
Failed == Report(2, <<Rt(1, "error", FALSE, FALSE, None, {}, None, TRUE)>>,
                 <<Mod(m1, 1, FALSE, TRUE, FALSE, f1), Mod(m2, 2, FALSE, TRUE, FALSE, f2)>>)

Reports == {Cold, Warm, Restarted, Replaced, Other, Busy, TooMany, NoLoad, Mixed, Failed}

Task(prefix, model, simulated) ==
    [fields |-> {"capability", "prompt"}, malformed |-> {}, capability |-> chat,
     prefix |-> prefix, prefix_bytes |-> 1, model_id |-> model, allow_simulated |-> simulated]

SomeTasks == {Task(None, None, FALSE), Task(p1, None, FALSE), Task(p1, m1, TRUE),
              Task(p2, m2, TRUE), [Task(p1, None, TRUE) EXCEPT !.capability = summarize],
              [Task(p1, None, FALSE) EXCEPT !.fields = {"priority"}]}
=============================================================================
