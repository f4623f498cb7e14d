----------------------------- MODULE ModelLoad -----------------------------
(***************************************************************************)
(* Loading a container (src/engine/model.cpp: Binder, bind_layer_common,   *)
(* Model::load, Model::load_dspark; src/engine/config.cpp): which tensors  *)
(* are bound, how each is read, and what refuses the load.  What is not    *)
(* refused here is served.                                                 *)
(***************************************************************************)
EXTENDS Container

\* std::sort, by rank: at k stands the value that fewer than k are below and k or more
\* are not above.
Ascending(s) ==
  [k \in DOMAIN s |-> CHOOSE v \in {s[j] : j \in DOMAIN s} :
     /\ Cardinality({j \in DOMAIN s : s[j] < v}) < k
     /\ k <= Cardinality({j \in DOMAIN s : s[j] <= v})]

\* ModelConfig's initialisers: a key the metadata lacks keeps them.
DefaultShape == [n_layer |-> 43, n_hash |-> 3, ratios |-> <<>>, taps |-> <<>>, block |-> 0, hidden |-> 4096]
parse_model_config(f) ==
  IF HasPart(f, <<"meta", 0, 0, 0>>)
  THEN [n_layer |-> ck.cfg.n_layer, n_hash |-> ck.cfg.n_hash, ratios |-> ck.cfg.ratios,
        taps |-> Ascending(ck.cfg.taps), block |-> ck.cfg.block, hidden |-> ck.cfg.hidden]
  ELSE DefaultShape
\* A model of no layers or no width is refused.
config_refused(c) == c.n_layer = 0 \/ c.hidden = 0

\* The layers of the file bound the layers of the config.
layer_count(f) == NLayer(WriterOf(f))
Config(f) ==
  LET c == parse_model_config(f) IN
  [c EXCEPT !.n_layer = IF layer_count(f) < @ THEN layer_count(f) ELSE @]

-----------------------------------------------------------------------------
(* Binder: f32 reads any tensor, bf16 and dense abort on a format they do  *)
(* not decode, and all three leave a null for a tensor that is absent.     *)

Has(dir, name) == name \in DOMAIN dir
bf16_aborts(dir, name) == Has(dir, name) /\ dir[name].quant # "bf16"
dense_aborts(dir, name) == Has(dir, name) /\ dir[name].quant \notin {"fp8_e4m3", "bf16"}

Named(m, l, parts) == {<<m, l, p>> : p \in parts}

LayerDense == {"attn_q_a", "attn_q_b", "attn_kv", "attn_out_a", "attn_out_b",
               "shexp_gate", "shexp_up", "shexp_down", "hc_attn_fn", "hc_ffn_fn"}
LayerVectors == {"attn_norm", "ffn_norm", "attn_sinks", "attn_q_norm", "attn_kv_norm",
                 "hc_attn_base", "hc_attn_scale", "hc_ffn_base", "hc_ffn_scale"}

\* bind_layer_common: what it may abort on, and what it must find.  The gate of an
\* older container is f32 and is converted.
CommonAborts(dir, m, l) ==
  \/ \E n \in Named(m, l, LayerDense) : dense_aborts(dir, n)
  \/ Has(dir, <<m, l, "ffn_gate_inp">>) /\ dir[<<m, l, "ffn_gate_inp">>].quant \notin {"bf16", "f32"}
CommonFound(dir, m, l) == \A n \in Named(m, l, LayerDense \cup LayerVectors \cup {"ffn_gate_inp"}) : Has(dir, n)

CompressorDense == {"comp_wkv", "comp_wgate"}
CompressorAll == CompressorDense \cup {"comp_ape", "comp_norm"}
IndexerDense == {"idx_wq_b", "idx_proj", "idx_comp_wkv", "idx_comp_wgate"}
IndexerAll == IndexerDense \cup {"idx_comp_ape", "idx_comp_norm"}

LayerLoads(dir, c, l) ==
  /\ ~CommonAborts(dir, "blk", l) /\ CommonFound(dir, "blk", l)
  /\ \A n \in Named("blk", l, CompressorDense \cup IndexerDense) : ~dense_aborts(dir, n)
  /\ RatioOf(c.ratios, l) # 0 => \A n \in Named("blk", l, CompressorAll) : Has(dir, n)
  /\ RatioOf(c.ratios, l) = 4 => \A n \in Named("blk", l, IndexerAll) : Has(dir, n)
  /\ IF l < c.n_hash THEN Has(dir, <<"blk", l, "ffn_gate_hash">>) ELSE Has(dir, <<"blk", l, "ffn_gate_bias">>)

\* Model::load.
ModelBinds(dir, c) ==
  /\ Has(dir, CodebookName)
  /\ ~bf16_aborts(dir, <<"blk", 0, "token_embd">>)
  /\ \A n \in Named("blk", 0, {"output", "hc_head_fn"}) : ~dense_aborts(dir, n)
  /\ \A n \in Named("blk", 0, {"token_embd", "output", "output_norm", "hc_head_fn", "hc_head_base",
                               "hc_head_scale"}) : Has(dir, n)
  /\ \A l \in 0..(c.n_layer - 1) : LayerLoads(dir, c, l)
Loads(f) ==
  Accepts(f) /\ ~config_refused(parse_model_config(f)) /\ ModelBinds(Directory(f), Config(f))

\* Model::load_dspark, after the model has loaded: only the config decides whether a
\* draft is there at all.
StageLoads(dir, l) ==
  ~CommonAborts(dir, "mtp", l) /\ CommonFound(dir, "mtp", l) /\ Has(dir, <<"mtp", l, "ffn_gate_bias">>)

DraftBinds(dir, c, stages) ==
  /\ stages # 0
  /\ c.block # 0 /\ c.taps # <<>>
  /\ \A k \in DOMAIN c.taps : c.taps[k] >= 0 /\ c.taps[k] < c.n_layer
  /\ Has(dir, CodebookName)
  /\ \A l \in 0..(stages - 1) : StageLoads(dir, l)
  /\ \A n \in Named("mtp", 0, {"main_proj", "hc_head_fn", "markov_w1", "markov_w2"}) : ~dense_aborts(dir, n)
  /\ ~bf16_aborts(dir, <<"mtp", 0, "confidence">>)
  /\ \A n \in Named("mtp", 0, {"main_proj", "main_norm", "norm", "hc_head_fn", "hc_head_base", "hc_head_scale",
                               "markov_w1", "markov_w2", "confidence"}) : Has(dir, n)
  /\ dir[<<"mtp", 0, "main_proj">>].cols = c.hidden * Len(c.taps)
SameCodebook(f, fdir, d, ddir) == CodebookOf(d, ddir) = CodebookOf(f, fdir)
DraftLoads(f, d) ==
  /\ Accepts(d)
  /\ DraftBinds(Directory(d), Config(f), layer_count(d))
  /\ SameCodebook(f, Directory(f), d, Directory(d))

-----------------------------------------------------------------------------
(* Properties.                                                             *)

\* aff_writer.cpp lays everything out before a byte is written, and aff_format.h:217 and
\* aff_reader.h:130 address it by arithmetic: whatever is declared, no two of the places
\* written overlap and none runs past the size the file is given.
Apart(q) ==
  LET at == Plan(q).extents IN
  \A i \in DOMAIN at : at[i][1] + at[i][2] <= (IF i < Len(at) THEN at[i + 1][1] ELSE disk[Out(q)].size)

\* A file the engine opens holds every declared tensor and every section of every
\* expert, each in a place of its own and all put there by one run of aff-quantize,
\* whenever runs die: nothing decodes zeros or another's bytes.
AcceptedIsWhole ==
  /\ \A q \in Quantiser : PcIs(q, "header") => Apart(q)
  /\ \A f \in DOMAIN disk : Accepts(f) =>
       LET w == WriterOf(f)
           places == {TensorPlace(k) : k \in DOMAIN Tensors(w)}
                     \cup {ExpertPlace(x[1], x[2], k) : x \in AllExperts(w), k \in 1..9}
       IN \A p \in places : HasPart(f, p) /\ disk[f].parts[p].by = w

\* What aff-quantize finishes the engine loads: the two lists of tensors, the formats
\* and the config keys agree for every schedule of ratios and hash layers, and a draft
\* made from the finished model loads beside it unless its taps were cut off.
LastOn(q) == \A r \in Quantiser : r # q /\ Out(r) = Out(q) => PcIs(r, "new") \/ r \in Order[q]
FinishedContainerLoads ==
  \A q \in Quantiser : PcIs(q, "done") /\ LastOn(q) =>
    IF ~Dspark(q) THEN Loads(Out(q))
    ELSE LET m == qz[q].job.codebook IN
         Accepts(m) /\ WriterOf(m) = qz[q].cb /\ PcIs(qz[q].cb, "done") =>
           \/ DraftLoads(m, Out(q))
           \/ \E k \in DOMAIN ck.cfg.taps : ck.cfg.taps[k] >= layer_count(m)

\* aff_quantize.cpp:452: "Two quantisers writing one container interleave their expert
\* payloads and produce a file that still LOADS ... so the collision is refused here":
\* once the runs are over, a file the engine opens holds the bytes of one of them.
CollisionRefused ==
  (\A q \in Quantiser : ~Running(q)) =>
    \A f \in DOMAIN disk : Accepts(f) => \A p \in DOMAIN disk[f].parts : disk[f].parts[p].by = WriterOf(f)
=============================================================================
