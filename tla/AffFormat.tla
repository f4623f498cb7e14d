----------------------------- MODULE AffFormat -----------------------------
(***************************************************************************)
(* The layout of a .aff container (src/format/aff_format.h, .cpp and the   *)
(* layout half of AffWriter::begin): where every section, tensor and       *)
(* expert lies, computed once before a byte is written.  Sizes are bytes.  *)
(***************************************************************************)
EXTENDS Integers, Sequences, FiniteSets, SequencesExt

kPoolAlign == 2097152
kExpertAlign == 4096
kBlockAlign == 256

align_up(v, a) == ((v + a - 1) \div a) * a

\* kQuantTable: weights in a super-block, bytes of codes, of block scales, and of
\* scale a row.  The formats no container of the engine holds are left out.
kQuantTable ==
  [f32       |-> [block |-> 1,     data |-> 4,     scale |-> 0,  row |-> 0],
   bf16      |-> [block |-> 1,     data |-> 2,     scale |-> 0,  row |-> 0],
   fp8_e4m3  |-> [block |-> 16384, data |-> 16384, scale |-> 1,  row |-> 0],
   q2p875    |-> [block |-> 256,   data |-> 80,    scale |-> 12, row |-> 2],
   q2p875q4  |-> [block |-> 256,   data |-> 80,    scale |-> 12, row |-> 2]]

\* A partial super-block still occupies a whole one.
SuperBlocks(q, weights) == (weights + kQuantTable[q].block - 1) \div kQuantTable[q].block
quant_data_bytes(q, weights) == SuperBlocks(q, weights) * kQuantTable[q].data
quant_scale_bytes(q, weights) == SuperBlocks(q, weights) * kQuantTable[q].scale
quant_row_scale_bytes(q, rows) == rows * kQuantTable[q].row

\* sizeof of the structures on disk.
SizeofHeader == 192
SizeofLayerDesc == 240
SizeofTensorEntry == 208

-----------------------------------------------------------------------------
(* compute_expert_layout: nine sections, the three matrices' codes first,  *)
(* then their block scales, then their row scales.                         *)

Matrices == <<"gate", "up", "down">>
SectionTiers == <<"data", "scale", "rscale">>
SectionNames == [k \in 1..9 |-> <<Matrices[((k - 1) % 3) + 1], SectionTiers[((k - 1) \div 3) + 1]>>]

\* gate and up are inter x hidden, down is hidden x inter.
SectionSize(geom, k) ==
  LET rows == IF SectionNames[k][1] = "down" THEN geom.hidden ELSE geom.inter IN
  CASE SectionNames[k][2] = "data"   -> quant_data_bytes(geom.quant, geom.hidden * geom.inter)
    [] SectionNames[k][2] = "scale"  -> quant_scale_bytes(geom.quant, geom.hidden * geom.inter)
    [] SectionNames[k][2] = "rscale" -> quant_row_scale_bytes(geom.quant, rows)

\* The running offset after each section.
Place(size) ==
  LET end[k \in 0..9] == IF k = 0 THEN 0 ELSE align_up(end[k - 1] + size[k], kBlockAlign) IN end

ExpertLayout(geom) ==
  LET size == [k \in 1..9 |-> SectionSize(geom, k)] IN
  [off |-> [k \in 1..9 |-> Place(size)[k - 1]], size |-> size,
   stride |-> align_up(Place(size)[9], kExpertAlign)]

\* A tensor's blob: codes, block scales and row scales, each on a 256-byte line.
TensorDesc(t) ==
  LET data == quant_data_bytes(t.quant, t.rows * t.cols)
      scale == quant_scale_bytes(t.quant, t.rows * t.cols)
      rscale == quant_row_scale_bytes(t.quant, t.rows)
      scale_off == align_up(data, kBlockAlign)
      rscale_off == align_up(scale_off + scale, kBlockAlign)
  IN [size |-> <<data, scale, rscale>>, off |-> <<0, scale_off, rscale_off>>,
      bytes |-> rscale_off + rscale]

\* blob_off of each declared tensor, and after the last the size of the section.
Blobs(tensors) ==
  LET end[i \in 0..Len(tensors)] ==
        IF i = 0 THEN 0 ELSE align_up(end[i - 1] + TensorDesc(tensors[i]).bytes, kBlockAlign)
  IN end

\* base_off of each layer, and after the last the size of the pool.
Pools(layers) ==
  LET end[l \in 0..Len(layers)] ==
        IF l = 0 THEN 0
        ELSE end[l - 1] + layers[l].n_experts * ExpertLayout(layers[l].geom).stride
  IN end

\* n_experts of all layers.
TotalExperts(layers) ==
  LET sum[l \in 0..Len(layers)] == IF l = 0 THEN 0 ELSE sum[l - 1] + layers[l].n_experts
  IN sum[Len(layers)]

\* The header begin() computes: sections in the order of the file.
FileLayout(meta_size, layers, tensors) ==
  LET tensor_dir_off == align_up(SizeofHeader + meta_size, 8)
      layer_dir_off == tensor_dir_off + Len(tensors) * SizeofTensorEntry
      profile_off == layer_dir_off + Len(layers) * SizeofLayerDesc
      profile_size == TotalExperts(layers) * 4
      tensor_data_off == align_up(profile_off + profile_size, kBlockAlign)
      tensor_data_size == Blobs(tensors)[Len(tensors)]
      expert_pool_off == align_up(tensor_data_off + tensor_data_size, kPoolAlign)
      expert_pool_size == Pools(layers)[Len(layers)]
  IN [meta_off |-> SizeofHeader, meta_size |-> meta_size,
      tensor_dir_off |-> tensor_dir_off, tensor_count |-> Len(tensors),
      layer_dir_off |-> layer_dir_off, layer_count |-> Len(layers),
      profile_off |-> profile_off, profile_size |-> profile_size,
      tensor_data_off |-> tensor_data_off, tensor_data_size |-> tensor_data_size,
      expert_pool_off |-> expert_pool_off, expert_pool_size |-> expert_pool_size,
      file_size |-> expert_pool_off + expert_pool_size]

-----------------------------------------------------------------------------
(* What a reader addresses, <<first byte, bytes>>.                         *)

\* expert_file_offset, and section k of the expert.
ExpertExtent(h, layers, l, x, k) ==
  LET L == ExpertLayout(layers[l].geom) IN
  <<h.expert_pool_off + Pools(layers)[l - 1] + x * L.stride + L.off[k], L.size[k]>>

TensorExtent(h, tensors, i, k) ==
  LET d == TensorDesc(tensors[i]) IN
  <<h.tensor_data_off + Blobs(tensors)[i - 1] + d.off[k], d.size[k]>>

\* Every extent a container's parts are written to, in the order of the file.
Extents(h, layers, tensors) ==
  <<<<0, SizeofHeader>>, <<h.meta_off, h.meta_size>>,
    <<h.tensor_dir_off, h.tensor_count * SizeofTensorEntry>>,
    <<h.layer_dir_off, h.layer_count * SizeofLayerDesc>>, <<h.profile_off, h.profile_size>>>>
  \o FlattenSeq([i \in 1..Len(tensors) |-> [k \in 1..3 |-> TensorExtent(h, tensors, i, k)]])
  \o FlattenSeq([l \in 1..Len(layers) |->
       FlattenSeq([x \in 1..layers[l].n_experts |-> [k \in 1..9 |-> ExpertExtent(h, layers, l, x - 1, k)]])])
=============================================================================
