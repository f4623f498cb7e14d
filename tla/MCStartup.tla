----------------------------- MODULE MCStartup -----------------------------
(* Command lines for Startup, and six experts in two layers.               *)
EXTENDS Startup, TLC

Shipped == [args |-> "ok", ui |-> "auto", block |-> TRUE, dspark |-> "vram", slots |-> 1, commit_all |-> FALSE,
            pcache |-> TRUE, profile |-> "container", pool |-> -1, moves |-> TRUE, trace |-> FALSE,
            keepalive |-> FALSE, path |-> "serve", forced |-> FALSE,
            reps |-> FALSE]
MCOptions ==
  {[Shipped EXCEPT !.args = a] : a \in {"ok", "bad", "help", "nofile", "dump"}}
  \cup {[Shipped EXCEPT !.dspark = "ram", !.ui = u, !.path = p] : u \in {"off", "dash"}, p \in {"serve", "oneshot"}}
  \cup {[Shipped EXCEPT !.slots = 2, !.commit_all = a, !.dspark = "off", !.keepalive = TRUE] : a \in BOOLEAN}
  \cup {[Shipped EXCEPT !.path = p, !.profile = "override", !.pool = 4, !.trace = TRUE] : p \in {"topk", "oneshot"}}
  \cup {[Shipped EXCEPT !.block = FALSE, !.path = "oneshot", !.pool = 0],
        [Shipped EXCEPT !.forced = TRUE, !.path = "oneshot", !.moves = FALSE],
        [Shipped EXCEPT !.reps = TRUE, !.path = "oneshot"]}

MCRank == [container |-> <<<<0, 0>>, <<1, 0>>, <<0, 1>>, <<1, 1>>>>,
           override |-> <<<<1, 1>>, <<1, 0>>, <<0, 0>>, <<0, 1>>>>]
MCDraftRank == <<<<0, 0>>, <<0, 1>>, <<0, 2>>>>
=============================================================================
