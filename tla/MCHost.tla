------------------------------- MODULE MCHost -------------------------------
(* Six parts of the host that share no state in the code, one of them      *)
(* exercised in each behaviour while the others are over: a request from   *)
(* its bytes to its reply, aff-quantize making the containers the engine   *)
(* loads, the engine's start and its return, the staging ring (two slots,  *)
(* so that three experts do not fit and two dispatches overlap), the       *)
(* dashboard's canvas (two rows, in windows four and five columns wide, of *)
(* a wide glyph, a mark and glyphs of one column in two colours and two    *)
(* weights), and who has the terminal.                                     *)
EXTENDS RequestText, MCContainer, MCStartup, SsdStage, Canvas, Dashboard

-----------------------------------------------------------------------------
(* Conversations, turns and a vocabulary for RequestText: texts that hold  *)
(* quotes, backslashes, braces and halves of every marker.                 *)

\* Tokens that hold a quote, a backslash or a brace, and merges that overlap.
Entry(text, id) == json_quote(text) \o <<":", id>>
MCTokenizerJson == Object(<<
    Member("added_tokens", Array([k \in 1..3 |-> Object(<<Member("id", <<"0">>),
        Member("content", json_quote(<<ThinkEnd, <<"<think>">>, <<"BOS">>>>[k]))>>)])),
    Member("vocab", Object(<<Entry(<<DQ>>, "0"), Entry(<<BS>>, "1"), Entry(<<"}">>, "2"), Entry(<<",">>, "0")>>)),
    Member("merges", Array(<<json_quote(<<"<", SP, "/">>), json_quote(<<"/", SP, ">">>),
                             json_quote(<<LF, SP, LF>>)>>))>>)

Plain0 == [path |-> "chat", messages |-> <<Said("user", <<"hi">>)>>, tools |-> <<>>, choice |-> "",
           format |-> <<>>, stop |-> <<>>, mode |-> "thinking", n |-> "1", stream |-> TRUE, chunked |-> FALSE]
Odd == <<"}", DQ, BS, LF, "{", "1", "2", "0", "1", "kanji", "lead", "trail", SP, SP, "hi">>
Fn == <<"{">> \o Commas(<<Member("name", json_quote(<<"get">>)), Member("stop", Array(<<json_quote(<<"n">>)>>))>>) \o <<"}">>
Args == <<"{", DQ, "k", DQ, ":", SP, DQ, "v", BS, DQ, DQ, ",", SP, DQ, "m", DQ, ":", SP, "[", "1", "]", "}">>
Call == [name |-> <<"get">>, arguments |-> Args]
Bare == [name |-> <<"get">>, arguments |-> <<"{", "}">>]

Waiting == [Plain0 EXCEPT !.stream = FALSE]
MCRequests == {
    Plain0,
    [Waiting EXCEPT !.messages = <<Said("developer", Odd), Said("user", Odd)>>, !.chunked = TRUE],
    [Plain0 EXCEPT !.tools = <<Fn, Fn>>, !.messages = <<Said("system", <<"be">>), Said("user", <<"hi">>)>>],
    [Waiting EXCEPT !.tools = <<Fn>>, !.choice = "auto", !.format = Fn,
        !.messages = <<Said("user", <<"hi">>),
                       [Said("assistant", <<>>) EXCEPT !.reasoning = <<"so">>, !.calls = <<Call, Bare>>],
                       Said("tool", Odd), Said("function", <<"hi">>)>>],
    [Plain0 EXCEPT !.mode = "chat", !.stop = <<<<"ab", "ab", "c">>, <<"<", "x">>>>, !.chunked = TRUE,
        !.messages = <<[Said("user", <<>>) EXCEPT !.typed = TRUE, !.texts = <<Odd, <<>>, <<"hi">>>>]>>],
    [Plain0 EXCEPT !.path = "completions", !.mode = "chat"],
    [Waiting EXCEPT !.tools = <<Fn>>, !.choice = "none"],
    [Plain0 EXCEPT !.n = "2"], [Waiting EXCEPT !.choice = "required", !.tools = <<Fn>>],
    [Plain0 EXCEPT !.messages = <<Said("critic", <<"hi">>)>>],
    [Waiting EXCEPT !.messages = <<Said("user", <<>>)>>],
    [Waiting EXCEPT !.messages = <<>>],
    [Plain0 EXCEPT !.path = "options"], [Plain0 EXCEPT !.path = "models"], [Plain0 EXCEPT !.path = "other"]}

Answers == {<<"ok", LF, LF>>, <<"ab", "ab", "ab", "c", "ok">>, <<"<", "/", "x", "lead", "trail", LF, LF, "<">>,
            <<"ok", "DSML">>}
Deeds == {render_tool_calls(<<Call, Bare>>), <<"ok">> \o render_tool_calls(<<Bare>>)}
MCTurns(thinking, tools) ==
    LET spoken == Answers \cup (IF tools THEN Deeds ELSE {}) IN
    IF ~thinking THEN spoken
    ELSE {<<"so", "<">> \o ThinkEnd \o t : t \in spoken} \cup {<<"so", "lead", "trail", "<", "/">>}
         \cup (IF tools THEN {<<"so">> \o render_tool_calls(<<Call>>)} ELSE {})
MCFollowups == {<<>>, <<Said("user", <<"hi">>)>>, <<Said("tool", Odd)>>}

-----------------------------------------------------------------------------
(* Frames for Canvas.                                                      *)

Glyphs(s, fg, weight) == [s |-> s, fg |-> fg, bg |-> "panel", attr |-> weight]
Rows == {<<>>, <<"a">>, <<"W">>, <<"m", "a", "W">>, <<"W", "W">>, <<"W", "a", "W">>, <<"a", "b", "a", "b">>}
MCFrames ==
  {<<above, below>> :
     above \in {Glyphs(s, "red", weight) : s \in Rows, weight \in {0, 1}}
               \cup {Glyphs(s, "blue", 0) : s \in {<<"a">>, <<"W", "a", "W">>}},
     below \in {Glyphs(<<>>, "red", 0), Glyphs(<<"W", "b">>, "red", 1)}}

-----------------------------------------------------------------------------
(* The parts, over.                                                        *)

RequestDone ==
  /\ phase = "gone" /\ ask = NONE /\ wire = NONE /\ got = 0 /\ req = NONE /\ prompt = <<>> /\ turn = <<>>
  /\ out = NONE /\ made = 0 /\ heard = NONE /\ status = "" /\ past = NONE

ContainerDone ==
  /\ which = 1 /\ disk = <<>> /\ lockpath = <<>> /\ inodes = 0 /\ flock = <<>>
  /\ qz = [q \in Quantiser |-> [pc |-> "exit", ino |-> 0]]

StartupDone ==
  /\ step = "gone" /\ opts = <<>> /\ live = <<>> /\ threads = {} /\ resident = {} /\ draft_resident = {}
  /\ host_pool = NoPool /\ draft_pool = NoPool /\ registered = FALSE /\ mem = Reserve /\ code = 0

StageDone ==
  /\ idx = [s \in StageSlot |-> None] /\ bytes = [s \in StageSlot |-> None]
  /\ claimed = [s \in StageSlot |-> FALSE] /\ armed = [s \in StageSlot |-> FALSE]
  /\ ev = [s \in StageSlot |-> [c \in Card |-> 0]]
  /\ queue = [c \in Card |-> <<>>]
  /\ launched = [c \in Card |-> 0] /\ done = [c \in Card |-> 0]
  /\ begun = Dispatches /\ sel = {} /\ hpc = "idle" /\ dv = 1 /\ todo = {} /\ took = {}
  /\ want = <<None, 1>> /\ handled = {} /\ given = [c \in Card |-> {}]
  /\ failed = FALSE

CanvasDone ==
  /\ frameAt = "off" /\ winch = FALSE /\ dirtyAll = FALSE
  /\ tty = [w |-> 0] /\ canvasW = 0 /\ cells = <<>> /\ prevCells = <<>>

DashDone ==
  /\ upc = [t \in Talker |-> "none"] /\ saw = [t \in Talker |-> FALSE]
  /\ thenDo = [t \in Talker |-> "none"] /\ said = [t \in Talker |-> <<>>]
  /\ running = FALSE /\ gSink = FALSE /\ drawing = "no"
  /\ entered = FALSE /\ gActive = FALSE /\ caught = FALSE /\ gQuit = FALSE
  /\ onScreen = "main" /\ rawTty = FALSE /\ pane = <<>> /\ tokenOpen = FALSE
  /\ printed = <<>> /\ dropped = {} /\ proc = "over"

-----------------------------------------------------------------------------
HostInit ==
  \/ RequestInit /\ ContainerDone /\ StartupDone /\ StageDone /\ CanvasDone /\ DashDone
  \/ ContainerInit /\ RequestDone /\ StartupDone /\ StageDone /\ CanvasDone /\ DashDone
  \/ StartupInit /\ RequestDone /\ ContainerDone /\ StageDone /\ CanvasDone /\ DashDone
  \/ StageInit /\ RequestDone /\ ContainerDone /\ StartupDone /\ CanvasDone /\ DashDone
  \/ CanvasInit /\ RequestDone /\ ContainerDone /\ StartupDone /\ StageDone /\ DashDone
  \/ DashInit /\ RequestDone /\ ContainerDone /\ StartupDone /\ StageDone /\ CanvasDone

HostProgramNext ==
  \/ RequestNext /\ UNCHANGED <<cvars, svars, stageVars, canvasVars, uiVars>>
  \/ ContainerNext /\ UNCHANGED <<rvars, svars, stageVars, canvasVars, uiVars>>
  \/ StartupNext /\ UNCHANGED <<rvars, cvars, stageVars, canvasVars, uiVars>>
  \/ StageNext /\ UNCHANGED <<rvars, cvars, svars, canvasVars, uiVars>>
  \/ CanvasNext /\ UNCHANGED <<rvars, cvars, svars, stageVars, uiVars>>
  \/ DashNext /\ UNCHANGED <<rvars, cvars, svars, stageVars, canvasVars>>

(* The staging ring's fairness: the host runs, and a card finishes what it *)
(* has been given.                                                         *)
HostProgram ==
  /\ HostInit /\ [][HostProgramNext]_<<rvars, cvars, svars, stageVars, canvasVars, uiVars>>
  /\ WF_stageVars(HostNext) /\ \A c \in Card : WF_stageVars(CardDone(c))
=============================================================================
