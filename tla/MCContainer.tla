---------------------------- MODULE MCContainer ----------------------------
(* Checkpoints for ModelLoad: one sound one, and one for each way a         *)
(* checkpoint can fall short.                                              *)
EXTENDS ModelLoad

Cfg == [n_layer |-> 2, n_expert |-> 2, hidden |-> 128, inter |-> 128, vocab |-> 2, n_hc |-> 1, qr |-> 128,
        orank |-> 16, hd |-> 128, nh |-> 1, ihd |-> 128, inh |-> 1, n_used |-> 1, n_hash |-> 1,
        ratios |-> <<4, 128, 0>>, taps |-> <<1, 0>>, mrank |-> 2, codes |-> 4, block |-> 2]

\* What a tensor of the container is made from.
Source(d) == [name |-> d.name, shape |-> <<d.rows, d.cols>>,
              dtype |-> CASE d.quant = "bf16" -> "BF16" [] d.quant = "fp8_e4m3" -> "F8_E4M3"
                          [] d.name[3] = "ffn_gate_hash" -> "I64" [] OTHER -> "F32"]
TileScale(d) == [name |-> ScaleOf(d.name), shape |-> <<d.rows \div 128, d.cols \div 128>>, dtype |-> "F8_E8M0"]
Wanted(c, stages) == Tail(TensorDecls(c, FALSE, c.n_layer)) \o Tail(TensorDecls(c, TRUE, stages))
TileScales(ds) == [k \in DOMAIN ds |-> TileScale(ds[k])]
SourcesOf(wanted, bf16) ==
  [k \in DOMAIN wanted |-> IF wanted[k].name \in bf16 THEN [Source(wanted[k]) EXCEPT !.dtype = "BF16"] ELSE Source(wanted[k])]
  \o TileScales(SelectSeq(wanted, LAMBDA d : d.quant = "fp8_e4m3"))
ExpertSource(m, l, x, w) == <<[name |-> <<m, l, w, x>>, shape |-> <<128, 64>>, dtype |-> "I8"],
                        [name |-> <<m, l, w, x, "scale">>, shape |-> <<128, 4>>, dtype |-> "F8_E8M0"]>>
ExpertTensors(m, layers) ==
  FlattenSeq([k \in 1..(6 * layers) |->
      ExpertSource(m, (k - 1) \div 6, ((k - 1) \div 3) % 2, <<"w1", "w3", "w2">>[((k - 1) % 3) + 1])])

\* A shard that holds the tensors one after the other.
Packed(ts) ==
  FoldLeft(LAMBDA file, t :
             LET end == file.bytes + numel(t) * st_dtype_size[t.dtype] IN
             [bytes |-> end, entries |-> Append(file.entries, [from |-> file.bytes, to |-> end] @@ t)],
           [bytes |-> 0, entries |-> <<>>], ts)

\* One shard for each layer, one for each draft stage, and one for the experts.
ShardName(n) == IF Len(n) > 4 \/ n[3] \in Matrices3 THEN "experts" ELSE n[1] \o ToString(n[2])
Sharded(c, readable, clip, kept, names) ==
  [readable |-> readable, cfg |-> c,
   index |-> [n \in names |-> ShardName(n)],
   shards |-> [s \in {ShardName(n) : n \in names} |->
                 LET file == Packed(SelectSeq(kept, LAMBDA t : ShardName(t.name) = s)) IN
                 [file EXCEPT !.bytes = IF s = "experts" THEN @ - clip ELSE @]]]
WithNames(c, readable, clip, kept) == Sharded(c, readable, clip, kept, {kept[k].name : k \in DOMAIN kept})

\* A checkpoint of config c: stages of a draft, tensors left out, tensors of a type the
\* quantiser does not expect, bytes missing at the end of the experts.
Variant(c) == [cfg |-> c, stages |-> 1, without |-> {}, bf16 |-> {}, clip |-> 0, readable |-> TRUE]
Make(v) ==
  WithNames(v.cfg, v.readable, v.clip,
       SelectSeq(SourcesOf(Wanted(v.cfg, v.stages), v.bf16)
                 \o ExpertTensors("blk", v.cfg.n_layer) \o ExpertTensors("mtp", v.stages),
                 LAMBDA t : t.name \notin v.without))

Variants == <<
  Variant(Cfg),
  [Variant([Cfg EXCEPT !.ratios = <<0, 4>>, !.n_hash = 2]) EXCEPT !.stages = 0],
  Variant([Cfg EXCEPT !.taps = <<>>]),
  Variant([Cfg EXCEPT !.ratios = <<128, 0, 4>>]),
  [Variant(Cfg) EXCEPT !.readable = FALSE],
  [Variant(Cfg) EXCEPT !.clip = 1],
  [Variant(Cfg) EXCEPT !.without = {<<"blk", 1, "w3", 1>>}],
  [Variant(Cfg) EXCEPT !.without = {<<"blk", 0, "output_norm">>}],
  [Variant(Cfg) EXCEPT !.bf16 = {<<"blk", 1, "attn_kv">>}]>>
MCCheckpoints == [i \in DOMAIN Variants |-> Make(Variants[i])]

PlainJob == [out |-> "model", dspark |-> FALSE, codebook |-> NoCodebook, layers |-> 0, imatrix |-> FALSE]
DraftJob == [PlainJob EXCEPT !.out = "draft", !.dspark = TRUE, !.codebook = "model", !.imatrix = TRUE]
MCJobs == <<{[PlainJob EXCEPT !.imatrix = TRUE], [PlainJob EXCEPT !.layers = 1]},
            {PlainJob, DraftJob, [DraftJob EXCEPT !.codebook = NoCodebook]}>>
MCOrder == <<{}, {1}>>

\* Two runs at once, on the smallest checkpoint.
OneLayer == <<Make([Variant([Cfg EXCEPT !.n_layer = 1, !.n_expert = 1, !.ratios = <<0>>]) EXCEPT !.stages = 0])>>
OneJob == <<{PlainJob}, {PlainJob}>>
AtOnce == <<{}, {}>>
=============================================================================
