----------------------------- MODULE Dashboard -----------------------------
(***************************************************************************)
(* Who has the terminal, and where a line of output goes (src/ui/log.cpp,  *)
(* src/ui/dashboard.cpp, src/ui/term.cpp).  The dashboard takes the screen *)
(* and the process's output for as long as it runs; it gives both back     *)
(* when it is stopped, by main or by whichever thread dies of a fatal      *)
(* error, and a signal gives back the screen alone.                        *)
(*                                                                         *)
(* Main and a connection's thread log; both may end the process.  Writing  *)
(* to the terminal does not fail here.                                     *)
(***************************************************************************)
EXTENDS Naturals, Sequences

CONSTANTS
  PaneMax,      \* lines the console pane keeps (600)
  MaxSaid       \* bound: lines a thread logs

ASSUME DashAssumption == PaneMax \in Nat

Talker == {"main", "conn"}
Streams == {"out", "err"}

VARIABLES
  upc,          \* where each thread is
  saw,          \* whether ui::out found a sink
  thenDo,       \* what follows a thread's stop(): it returns, or it aborts
  running,      \* running_
  gSink,        \* g_sink is set
  drawing,      \* the render thread
  entered,      \* Terminal::active_
  gActive,      \* g_active
  caught,       \* the signal handlers are installed
  gQuit,        \* g_quit
  onScreen, rawTty,  \* the terminal itself
  pane, tokenOpen,   \* log and token_open
  said,         \* for each thread, the stream of each line it has logged
  printed,      \* what reached the streams
  dropped,      \* what the pane had no room for
  proc          \* the process

uiVars == <<upc, saw, thenDo, running, gSink, drawing, entered, gActive, caught, gQuit, onScreen, rawTty,
            pane, tokenOpen, said, printed, dropped, proc>>
termVars == <<entered, gActive, onScreen, rawTty>>
linesVars == <<pane, tokenOpen, printed, dropped>>

DashInit ==
  /\ upc = [t \in Talker |-> IF t = "main" THEN "plain" ELSE "none"]
  /\ saw = [t \in Talker |-> FALSE] /\ thenDo = [t \in Talker |-> "none"]
  /\ running = FALSE /\ gSink = FALSE /\ drawing = "no"
  /\ entered = FALSE /\ gActive = FALSE /\ caught = FALSE /\ gQuit = FALSE
  /\ onScreen = "main" /\ rawTty = FALSE
  /\ pane = <<>> /\ tokenOpen = FALSE /\ said = [t \in Talker |-> <<>>] /\ printed = <<>> /\ dropped = {}
  /\ proc = "up"

Moves(t, to) == upc' = [upc EXCEPT ![t] = to]
Here(t, here) == proc = "up" /\ upc[t] = here

-----------------------------------------------------------------------------
(* start().                                                                *)

\* --ui plain, or no terminal to draw on.
StayPlain ==
  /\ Here("main", "plain") /\ Moves("main", "run")
  /\ UNCHANGED <<saw, thenDo, running, gSink, drawing, termVars, caught, gQuit, linesVars, said, proc>>

\* Terminal::enter: keys unechoed if they come from a terminal, the handlers, and the
\* other screen.
EnterRaw ==
  /\ Here("main", "plain") /\ Moves("main", "handlers")
  /\ rawTty' \in BOOLEAN
  /\ UNCHANGED <<saw, thenDo, running, gSink, drawing, entered, gActive, onScreen, caught, gQuit, linesVars, said, proc>>

Install ==
  /\ Here("main", "handlers") /\ caught' = TRUE /\ Moves("main", "switch")
  /\ UNCHANGED <<saw, thenDo, running, gSink, drawing, termVars, gQuit, linesVars, said, proc>>

Switch ==
  /\ Here("main", "switch") /\ onScreen' = "alt" /\ Moves("main", "arm")
  /\ UNCHANGED <<saw, thenDo, running, gSink, drawing, entered, gActive, rawTty, caught, gQuit, linesVars, said, proc>>

\* The screen is the dashboard's: the sink, and the thread that draws.
TakeScreen ==
  /\ Here("main", "arm") /\ entered' = TRUE /\ gActive' = TRUE
  /\ running' = TRUE /\ gSink' = TRUE /\ drawing' = "yes" /\ Moves("main", "run")
  /\ UNCHANGED <<saw, thenDo, onScreen, rawTty, caught, gQuit, linesVars, said, proc>>

-----------------------------------------------------------------------------
(* out, err and tok.                                                       *)

\* out and err: the first look at the sink.
Look(t) ==
  /\ proc = "up" /\ upc[t] \in {"run", "summary"} /\ Len(said[t]) < MaxSaid
  /\ \E to \in Streams : said' = [said EXCEPT ![t] = Append(@, to)]
  /\ saw' = [saw EXCEPT ![t] = gSink]
  /\ Moves(t, IF upc[t] = "run" THEN "say" ELSE "sum up")
  /\ UNCHANGED <<thenDo, running, gSink, drawing, termVars, caught, gQuit, linesVars, proc>>

Back(t) == Moves(t, IF upc[t] \in {"say", "push"} THEN "run" ELSE "summary")
Latest(t) == [from |-> t, n |-> Len(said[t]), to |-> said[t][Len(said[t])]]

\* No sink: straight to the stream.
ToStream(t) ==
  /\ proc = "up" /\ upc[t] \in {"say", "sum up"} /\ ~saw[t]
  /\ printed' = Append(printed, Latest(t)) /\ Back(t)
  /\ UNCHANGED <<saw, thenDo, running, gSink, drawing, termVars, caught, gQuit, pane, tokenOpen, said, dropped, proc>>

\* restore_now, in one go.
RestoreNow ==
  /\ gActive' = FALSE
  /\ IF gActive THEN onScreen' = "main" /\ rawTty' = FALSE ELSE UNCHANGED <<onScreen, rawTty>>

\* The process dies of a signal; the handler gives the screen back if it is installed.
DiesOf(trapped) ==
  /\ proc' = "killed"
  /\ IF trapped THEN RestoreNow ELSE UNCHANGED <<gActive, onScreen, rawTty>>
  /\ UNCHANGED entered

\* A sink was seen; the pointer is read again for the call, and may be null by now.
CallSink(t) ==
  /\ proc = "up" /\ upc[t] \in {"say", "sum up"} /\ saw[t]
  /\ IF gSink THEN Moves(t, IF upc[t] = "say" THEN "push" ELSE "push up") /\ UNCHANGED <<termVars, proc>>
     ELSE DiesOf(caught) /\ UNCHANGED upc
  /\ UNCHANGED <<saw, thenDo, running, gSink, drawing, caught, gQuit, linesVars, said>>

\* What the pane keeps of some lines: the last PaneMax.
Kept(lines) == IF Len(lines) > PaneMax THEN SubSeq(lines, Len(lines) - PaneMax + 1, Len(lines)) ELSE lines
Cut(lines) == {lines[k] : k \in 1..(Len(lines) - Len(Kept(lines)))}
Into(line) ==
  /\ pane' = Kept(Append(pane, line))
  /\ dropped' = dropped \cup {l \in Cut(Append(pane, line)) : l.to # "token"}

\* Impl::push: a line closes the tokens' line.
Push(t) ==
  /\ proc = "up" /\ upc[t] \in {"push", "push up"}
  /\ Into(Latest(t)) /\ tokenOpen' = FALSE /\ Back(t)
  /\ UNCHANGED <<saw, thenDo, running, gSink, drawing, termVars, caught, gQuit, said, printed, proc>>

\* Tokens are main's: a piece of a line goes on with it, and one with a newline begins
\* another.  Without a dashboard they are stdout's.
Tok(newline) ==
  /\ Here("main", "run") /\ gSink
  /\ tokenOpen' = TRUE
  /\ IF tokenOpen /\ ~newline THEN UNCHANGED <<pane, dropped>> ELSE Into([from |-> "main", n |-> 0, to |-> "token"])
  /\ UNCHANGED <<upc, saw, thenDo, running, gSink, drawing, termVars, caught, gQuit, said, printed, proc>>

-----------------------------------------------------------------------------
(* stop(), and the ways to it.                                             *)

\* main's return, asked for or not, and any thread's ui::fatal.
Stop(t) ==
  /\ Here(t, "run")
  /\ \E next \in (IF t = "main" THEN {"return", "abort"} ELSE {"abort"}) : thenDo' = [thenDo EXCEPT ![t] = next]
  /\ Moves(t, "off")
  /\ UNCHANGED <<saw, running, gSink, drawing, termVars, caught, gQuit, linesVars, said, proc>>

\* The sink is left where it is: what the thread that draws put there outlives the thread.
OffKeepsSink(t) ==
  /\ Here(t, "off")
  /\ running' = FALSE /\ gSink' = gSink
  /\ IF running THEN Moves(t, "join") ELSE Moves(t, "stopped")
  /\ UNCHANGED <<saw, thenDo, drawing, termVars, caught, gQuit, linesVars, said, proc>>
\* Idempotent: whoever comes second goes on at once.
Off(t) ==
  /\ Here(t, "off")
  /\ running' = FALSE
  /\ IF running THEN gSink' = FALSE /\ Moves(t, "join") ELSE UNCHANGED gSink /\ Moves(t, "stopped")
  /\ UNCHANGED <<saw, thenDo, drawing, termVars, caught, gQuit, linesVars, said, proc>>

\* The render thread ends its frame and sees the flag, and is joined.
RenderEnds ==
  /\ proc = "up" /\ drawing = "yes" /\ ~running
  /\ drawing' = "no"
  /\ UNCHANGED <<upc, saw, thenDo, running, gSink, termVars, caught, gQuit, linesVars, said, proc>>

Join(t) ==
  /\ Here(t, "join") /\ drawing = "no" /\ Moves(t, "leave")
  /\ UNCHANGED <<saw, thenDo, running, gSink, drawing, termVars, caught, gQuit, linesVars, said, proc>>

\* leave and restore_now: the flag, and then the terminal.
Leave(t) ==
  /\ Here(t, "leave") /\ entered' = FALSE
  /\ IF entered /\ gActive THEN gActive' = FALSE /\ Moves(t, "restore") ELSE Moves(t, "replay") /\ UNCHANGED gActive
  /\ UNCHANGED <<saw, thenDo, running, gSink, drawing, onScreen, rawTty, caught, gQuit, linesVars, said, proc>>
Restore(t) ==
  /\ Here(t, "restore") /\ onScreen' = "main" /\ rawTty' = FALSE /\ Moves(t, "replay")
  /\ UNCHANGED <<saw, thenDo, running, gSink, drawing, entered, gActive, caught, gQuit, linesVars, said, proc>>

\* What the pane held goes to the streams it came from.
Replayed(lines) ==
  LET put[k \in 0..Len(lines)] ==
        IF k = 0 THEN <<>> ELSE IF lines[k].to = "token" THEN put[k - 1] ELSE Append(put[k - 1], lines[k])
  IN put[Len(lines)]
Replay(t) ==
  /\ Here(t, "replay")
  /\ printed' = printed \o Replayed(pane)
  /\ pane' = <<>> /\ Moves(t, "stopped")
  /\ UNCHANGED <<saw, thenDo, running, gSink, drawing, termVars, caught, gQuit, tokenOpen, said, dropped, proc>>

\* main sums up; whoever aborts has its message on stderr, and SIGABRT's handler runs.
SumUp ==
  /\ Here("main", "stopped") /\ thenDo["main"] = "return" /\ Moves("main", "summary")
  /\ UNCHANGED <<saw, thenDo, running, gSink, drawing, termVars, caught, gQuit, linesVars, said, proc>>
Return ==
  /\ Here("main", "summary") /\ proc' = "exited"
  /\ UNCHANGED <<upc, saw, thenDo, running, gSink, drawing, termVars, caught, gQuit, linesVars, said>>
Abort(t) ==
  /\ Here(t, "stopped") /\ thenDo[t] = "abort" /\ DiesOf(caught)
  /\ UNCHANGED <<upc, saw, thenDo, running, gSink, drawing, caught, gQuit, linesVars, said>>

\* The first interrupt asks, the second does not wait.
Interrupt ==
  /\ proc = "up" /\ (rawTty \/ caught)
  /\ IF caught /\ ~gQuit THEN gQuit' = TRUE /\ UNCHANGED <<termVars, proc>>
     ELSE DiesOf(caught) /\ UNCHANGED gQuit
  /\ UNCHANGED <<upc, saw, thenDo, running, gSink, drawing, caught, linesVars, said>>

Connected ==
  /\ Here("main", "run") /\ upc["conn"] = "none" /\ Moves("conn", "run")
  /\ UNCHANGED <<saw, thenDo, running, gSink, drawing, termVars, caught, gQuit, linesVars, said, proc>>

DashNext ==
  \/ StayPlain \/ EnterRaw \/ Install \/ Switch \/ TakeScreen \/ Connected
  \/ \E t \in Talker : \/ Look(t) \/ ToStream(t) \/ CallSink(t) \/ Push(t)
                       \/ Stop(t) \/ Off(t) \/ Join(t) \/ Leave(t) \/ Restore(t) \/ Replay(t) \/ Abort(t)
  \/ \E newline \in BOOLEAN : Tok(newline)
  \/ RenderEnds \/ SumUp \/ Return \/ Interrupt

DashSpec == DashInit /\ [][DashNext]_uiVars

-----------------------------------------------------------------------------
In(places) == \E t \in Talker : upc[t] \in places

\* However the process ends, the operator has the terminal as it was found, but for a
\* signal inside enter or leave and a main that returns while another thread stops the
\* dashboard.
Found == onScreen = "main" /\ ~rawTty
ScreenGivenBack ==
  /\ proc = "killed" => Found \/ In({"handlers", "switch", "arm", "restore"})
  /\ proc = "exited" => Found \/ In({"join", "leave", "restore"})

\* If nobody else was dying, each line main logged that the pane had room for is on its
\* own stream once, in order, when main returns.
LinesGivenBack ==
  LET logged == {[from |-> "main", n |-> k, to |-> said["main"][k]] : k \in DOMAIN said["main"]}
      mine == {k \in DOMAIN printed : printed[k].from = "main"}
  IN proc = "exited" /\ thenDo["conn"] = "none" =>
       /\ {printed[k] : k \in mine} = logged \ dropped
       /\ \A j, k \in mine : j < k => printed[j].n < printed[k].n

\* log.h and dashboard.h, "an early return out of main cannot leave the screen switched",
\* and neither the screen nor a line is lost on the way out.
GivenBack == ScreenGivenBack /\ LinesGivenBack
=============================================================================
