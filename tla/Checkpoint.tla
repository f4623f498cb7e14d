----------------------------- MODULE Checkpoint -----------------------------
(***************************************************************************)
(* What aff-quantize reads and what it declares: the safetensors reader    *)
(* (src/model/safetensors.cpp), the tensors of a container                 *)
(* (tools/aff_quantize.cpp) and how each is made from its source.          *)
(*                                                                         *)
(* A checkpoint is [cfg, index, shards]: config.json, the weight map, and  *)
(* for each shard the bytes after its header and the header's entries.     *)
(* A tensor is named <<model, layer, part>>, an expert's matrix            *)
(* <<model, layer, part, expert>>, with model "blk" or "mtp".              *)
(***************************************************************************)
EXTENDS AffFormat, Functions

NoTensor == [name |-> <<>>]

st_dtype_size ==
  [BF16 |-> 2, F16 |-> 2, F32 |-> 4, F64 |-> 8, I8 |-> 1, U8 |-> 1, I16 |-> 2, I32 |-> 4,
   I64 |-> 8, F8_E4M3 |-> 1, F8_E5M2 |-> 1, F8_E8M0 |-> 1, BOOL |-> 1]

numel(t) == FoldSeq(LAMBDA d, acc : d * acc, 1, t.shape)

\* SafeTensorsFile::open refuses the file at the first entry it cannot trust.
EntryIsSound(t, size) ==
  /\ t.dtype \in DOMAIN st_dtype_size
  /\ t.to <= size
  /\ numel(t) * st_dtype_size[t.dtype] = t.to - t.from
StOpens(file) == \A k \in DOMAIN file.entries : EntryIsSound(file.entries[k], file.bytes)

\* A name listed twice is the later entry's.
StFind(file, name) ==
  LET at == {k \in DOMAIN file.entries : file.entries[k].name = name} IN
  IF at = {} THEN NoTensor ELSE file.entries[CHOOSE k \in at : \A j \in at : j <= k]

ScaleOf(name) == Append(name, "scale")

-----------------------------------------------------------------------------
(* The tensors declared, in order.                                         *)

Decl(model, l, part, rows, cols, quant) ==
  [name |-> <<model, l, part>>, rows |-> rows, cols |-> cols, quant |-> quant]
Vec(model, l, part, cols) == Decl(model, l, part, 1, cols, "f32")

\* How many stages the draft has is counted in the index, and a layer's ratio is
\* looked up past the model's layers for a stage.
MtpStages(ck) ==
  LET has == {l \in 0..Cardinality(DOMAIN ck.index) :
                \A j \in 0..l : <<"mtp", j, "attn_kv">> \in DOMAIN ck.index}
  IN Cardinality(has)
RatioOf(ratios, l) == IF l < Len(ratios) THEN ratios[l + 1] ELSE 0
StageRatio(c, dspark, l) == RatioOf(c.ratios, IF dspark THEN c.n_layer + l ELSE l)

ModelTensors(c) ==
  <<Decl("blk", 0, "token_embd", c.vocab, c.hidden, "bf16"), Decl("blk", 0, "output", c.vocab, c.hidden, "bf16"),
    Vec("blk", 0, "output_norm", c.hidden),
    Decl("blk", 0, "hc_head_fn", c.n_hc, c.n_hc * c.hidden, "bf16"),
    Vec("blk", 0, "hc_head_base", c.n_hc), Vec("blk", 0, "hc_head_scale", 1)>>

DraftTensors(c) ==
  <<Decl("mtp", 0, "main_proj", c.hidden, c.hidden * Len(c.taps), "fp8_e4m3"),
    Vec("mtp", 0, "main_norm", c.hidden), Vec("mtp", 0, "norm", c.hidden),
    Decl("mtp", 0, "hc_head_fn", c.n_hc, c.n_hc * c.hidden, "bf16"),
    Vec("mtp", 0, "hc_head_base", c.n_hc), Vec("mtp", 0, "hc_head_scale", 1),
    Decl("mtp", 0, "markov_w1", c.vocab, c.mrank, "bf16"), Decl("mtp", 0, "markov_w2", c.vocab, c.mrank, "bf16"),
    Decl("mtp", 0, "confidence", 1, c.hidden + c.mrank, "bf16")>>

\* The gate, its base and its scale of the attention's and the feed-forward's mixing.
HcParts == <<<<"hc_attn_fn", "hc_attn_base", "hc_attn_scale">>, <<"hc_ffn_fn", "hc_ffn_base", "hc_ffn_scale">>>>
HcTensors(m, l, part, c) ==
  LET hc == 2 * c.n_hc + c.n_hc * c.n_hc IN
  <<Decl(m, l, part[1], hc, c.n_hc * c.hidden, "bf16"), Vec(m, l, part[2], hc), Vec(m, l, part[3], 3)>>

\* A compressor, of the keys and values or of the indexer's.
CompParts == <<"comp_wkv", "comp_wgate", "comp_ape", "comp_norm">>
IdxCompParts == <<"idx_comp_wkv", "idx_comp_wgate", "idx_comp_ape", "idx_comp_norm">>
Compressor(m, l, part, c, head, ratio) ==
  LET wide == (IF ratio = 4 THEN 2 ELSE 1) * head IN
  <<Decl(m, l, part[1], wide, c.hidden, "bf16"), Decl(m, l, part[2], wide, c.hidden, "bf16"),
    Decl(m, l, part[3], ratio, wide, "f32"), Vec(m, l, part[4], head)>>

\* The hash table on a hash layer only, the selection bias on the others.
RouterExtraSwapped(c, dspark, m, l) ==
  IF ~dspark /\ l <= c.n_hash THEN Decl(m, l, "ffn_gate_hash", c.vocab, c.n_used, "f32")
  ELSE Vec(m, l, "ffn_gate_bias", c.n_expert)
RouterExtra(c, dspark, m, l) ==
  IF ~dspark /\ l < c.n_hash THEN Decl(m, l, "ffn_gate_hash", c.vocab, c.n_used, "f32")
  ELSE Vec(m, l, "ffn_gate_bias", c.n_expert)

LayerTensors(c, dspark, l) ==
  LET m == IF dspark THEN "mtp" ELSE "blk"
      ratio == StageRatio(c, dspark, l)
      fp8(part, rows, cols) == Decl(m, l, part, rows, cols, "fp8_e4m3")
  IN <<Vec(m, l, "attn_norm", c.hidden), Vec(m, l, "ffn_norm", c.hidden), Vec(m, l, "attn_sinks", c.nh),
       fp8("attn_q_a", c.qr, c.hidden), fp8("attn_q_b", c.nh * c.hd, c.qr), fp8("attn_kv", c.hd, c.hidden),
       fp8("attn_out_a", 8 * c.orank, c.hidden), fp8("attn_out_b", c.hidden, 8 * c.orank),
       Vec(m, l, "attn_q_norm", c.qr), Vec(m, l, "attn_kv_norm", c.hd),
       Decl(m, l, "ffn_gate_inp", c.n_expert, c.hidden, "bf16"), RouterExtra(c, dspark, m, l),
       fp8("shexp_gate", c.inter, c.hidden), fp8("shexp_up", c.inter, c.hidden), fp8("shexp_down", c.hidden, c.inter)>>
     \o HcTensors(m, l, HcParts[1], c) \o HcTensors(m, l, HcParts[2], c)
     \o (IF ratio # 0 THEN Compressor(m, l, CompParts, c, c.hd, ratio) ELSE <<>>)
     \o (IF ratio = 4
         THEN <<fp8("idx_wq_b", c.inh * c.ihd, c.qr), Decl(m, l, "idx_proj", c.inh, c.hidden, "bf16")>>
              \o Compressor(m, l, IdxCompParts, c, c.ihd, ratio)
         ELSE <<>>)

TensorDecls(c, dspark, layers) ==
  <<Decl("blk", 0, "__codebook", 1, c.codes, "f32")>>
  \o (IF dspark THEN DraftTensors(c) ELSE ModelTensors(c))
  \o FlattenSeq([l \in 1..layers |-> LayerTensors(c, dspark, l - 1)])

ExpertQuant == "q2p875q4"     \* kExpertQuant, one for every routed expert
LayerDecls(c, layers) ==
  [l \in 1..layers |-> [n_experts |-> c.n_expert,
                        geom |-> [hidden |-> c.hidden, inter |-> c.inter, quant |-> ExpertQuant]]]

-----------------------------------------------------------------------------
(* How a declared tensor is made: "refused" ends the run, "zeros" is a      *)
(* warning.                                                                *)

NoShard == ""
ShardOf(ck, name) == IF name \in DOMAIN ck.index THEN ck.index[name] ELSE NoShard

fp8_passthrough_ok(t, scale) ==
  /\ t # NoTensor /\ scale # NoTensor
  /\ t.dtype = "F8_E4M3" /\ Len(t.shape) = 2
  /\ t.shape[1] % 128 = 0 /\ t.shape[2] % 128 = 0

load_as_f32(t, scale, weights) ==
  /\ t # NoTensor /\ numel(t) = weights
  /\ \/ t.dtype \in {"BF16", "F32", "I64"}
     \/ t.dtype = "F8_E4M3" /\ scale # NoTensor /\ Len(t.shape) = 2

MadeFrom(decl, t, scale) ==
  CASE decl.quant = "fp8_e4m3" -> IF fp8_passthrough_ok(t, scale) THEN "copied" ELSE "refused"
    [] decl.name[3] = "__codebook" -> "codebook"
    [] OTHER -> IF load_as_f32(t, scale, decl.rows * decl.cols) THEN "converted" ELSE "zeros"
TensorMade(shards, shard, decl) ==
  LET find(name) == IF shard = NoShard THEN NoTensor ELSE StFind(shards[shard], name)
      t == find(decl.name)
  IN MadeFrom(decl, t, IF t # NoTensor /\ t.dtype = "F8_E4M3" THEN find(ScaleOf(decl.name)) ELSE NoTensor)

\* A matrix dequantises from a weight and its scales, an expert from its three.
Matrices3 == {"w1", "w3", "w2"}
MatrixReadable(file, name) ==
  LET t == StFind(file, name) IN
  /\ t # NoTensor /\ StFind(file, ScaleOf(name)) # NoTensor
  /\ (t.shape[2] * 2) % 32 = 0
ExpertReadable(ck, model, l, x) ==
  \A w \in Matrices3 : MatrixReadable(ck.shards[ShardOf(ck, <<model, l, "w1", x>>)], <<model, l, w, x>>)
=============================================================================
