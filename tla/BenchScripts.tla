---------------------------- MODULE BenchScripts ----------------------------
(* The benchmark campaigns of src/day0/scripts/run_*.py as data: what a script
   waits for, how it finds stray clients, how it runs one cell, what its RESULT
   line reads, and the cells it measures, in order.  The scripts are copies of one
   program that drifted apart; BenchRunner is that program, and these records are
   where the copies differ.                                                     *)
EXTENDS Integers, Sequences

Routers == {"llmd", "dynamo"}       \* http://127.0.0.1:8088 and :8089
Servers == {"llmd-w1", "llmd-w2", "dynamo-w1", "dynamo-w2"}

\* What cleanup_stray_aiperf looks for in /proc/*/cmdline.  "title": the path of the
\* aiperf binary or the process titles of its children; "port": the port of this
\* script's router, which only the command line of the client itself holds.
Nothing == [by |-> "nothing", first |-> FALSE]
ByTitle == [by |-> "title", first |-> FALSE]
ByTitleFirst == [by |-> "title", first |-> TRUE]    \* main() starts with a cleanup
ByPort == [by |-> "port", first |-> FALSE]

\* How run_aiperf runs a cell: with a timeout, after the engine drained, in an empty
\* result directory.
Plain == [limited |-> FALSE, drains |-> FALSE, wipes |-> FALSE]
Limited == [limited |-> TRUE, drains |-> FALSE, wipes |-> FALSE]
LimitedDrainedWiped == [limited |-> TRUE, drains |-> TRUE, wipes |-> TRUE]

\* What the RESULT line reads: aiperf's export alone, or the server's metrics too, and
\* the hit rates it looks up in the router's statistics.
Client(hits) == [metrics |-> FALSE, hits |-> hits]
Server(hits) == [metrics |-> TRUE, hits |-> hits]
Vllm == "vllm_kv_hit_pct"
Sglang == "sglang_kv_hit_pct"

\* One call of run_aiperf for every concurrency of a loop.
Sweep(name, router, stage, concs) ==
    [i \in DOMAIN concs |-> [tag |-> <<name, concs[i]>>, router |-> router,
                             stage |-> stage, conc |-> concs[i]]]
-----------------------------------------------------------------------------
\* run_llmd_stages_1_to_4.py
Llmd14Waits == {"llmd-w1", "llmd-w2"}
Llmd14Cell == Plain
Llmd14Result == Client({Vllm})
Llmd14Plan ==
    Sweep("llmd_scaffold_hydrate", "llmd", 4, <<64, 128, 256>>)
    \o Sweep("llmd_scaffold_stage4_1000mbps", "llmd", 4, <<16, 32, 64, 128, 256>>)
    \o Sweep("llmd_scaffold_stage3_pd_disagg", "llmd", 3, <<16, 32, 64, 128, 256>>)
    \o Sweep("llmd_scaffold_stage2_kv_routing", "llmd", 2, <<64, 128, 256>>)
    \o Sweep("llmd_scaffold_stage1_naive_rr", "llmd", 1, <<64, 128, 256>>)

\* run_dynamo_stages_1_to_4.py
Dynamo14Waits == {"dynamo-w1", "dynamo-w2"}
Dynamo14Cell == Plain
Dynamo14Result == Client({})
Dynamo14Plan ==
    Sweep("dynamo_hydrate", "dynamo", 4, <<64, 128>>)
    \o Sweep("dynamo_stage4_1000mbps", "dynamo", 4, <<16, 32, 64, 128>>)
    \o Sweep("dynamo_stage3_pd_disagg", "dynamo", 3, <<16, 32, 64, 128>>)
    \o Sweep("dynamo_stage2_kv_routing", "dynamo", 2, <<32, 64, 128>>)
    \o Sweep("dynamo_stage1_naive_rr", "dynamo", 1, <<32, 64, 128>>)

\* run_llmd_stages_4_and_5.py
Llmd45Kills == ByPort
Llmd45Waits == {"llmd-w1", "llmd-w2"}
Llmd45Cell == Limited
Llmd45Result == Client({Vllm})
Llmd45Plan ==
    Sweep("llmd_dsv4_hydrate", "llmd", 4, <<64, 128, 256>>)
    \o Sweep("llmd_scaffold_stage4_native_dram", "llmd", 4, <<16, 32, 64, 128, 256>>)
    \o Sweep("llmd_scaffold_stage5_mooncake_lustre", "llmd", 5, <<16, 32, 64, 128, 256>>)

\* run_dynamo_stages_4_and_5.py
Dynamo45Kills == ByPort
Dynamo45Waits == {"dynamo-w1", "dynamo-w2"}
Dynamo45Cell == Limited
Dynamo45Result == Client({Sglang})
Dynamo45Plan ==
    Sweep("dynamo_dsv4_hydrate", "dynamo", 4, <<64, 128>>)
    \o Sweep("dynamo_stage4_hicache_dram", "dynamo", 4, <<16, 32, 64, 128>>)
    \o Sweep("dynamo_stage5_mooncake_lustre", "dynamo", 5, <<16, 32, 64, 128>>)

\* run_dynamo_dsv4_remaining.py: starts at once, waits for no backend.
RemainingKills == ByTitle
RemainingCell == Limited
RemainingResult == Client({Sglang, Vllm})
RemainingPlan ==
    Sweep("llmd_scaffold_stage4_native_dram", "llmd", 4, <<256>>)
    \o Sweep("dynamo_stage4_hicache_dram", "dynamo", 4, <<64, 128>>)
    \o Sweep("dynamo_stage5_mooncake_lustre", "dynamo", 5, <<16, 64, 128>>)

\* run_dsv4_sequential_stages_4_and_5.py; its RESULT line looks up the hit rate that
\* main() names for the stack of the cell.
SequentialKills == ByTitleFirst
SequentialWaits == Servers
SequentialCell == Limited
SequentialResult == Client({Sglang, Vllm})
SequentialPlan ==
    Sweep("dynamo_stage4_hicache_dram", "dynamo", 4, <<16, 32, 64, 128>>)
    \o Sweep("dynamo_stage5_mooncake_lustre", "dynamo", 5, <<16, 32, 64, 128>>)
    \o Sweep("llmd_dsv4_hydrate", "llmd", 4, <<64, 128, 256>>)
    \o Sweep("llmd_scaffold_stage4_native_dram", "llmd", 4, <<16, 32, 64, 128, 256>>)
    \o Sweep("llmd_scaffold_stage5_mooncake_lustre", "llmd", 5, <<16, 32, 64, 128, 256>>)

\* run_dsv4_upgraded_sweep.py
UpgradedKills == ByTitleFirst
UpgradedWaits == Servers
UpgradedCell == Limited
UpgradedResult == Client({Sglang, Vllm})
UpgradedPlan ==
    Sweep("dynamo_dsv4_hydrate", "dynamo", 5, <<64, 128>>)
    \o Sweep("dynamo_stage5_mooncake_lustre", "dynamo", 5, <<2, 8, 16, 32, 64, 128>>)
    \o Sweep("dynamo_stage4_hicache_dram", "dynamo", 4, <<2, 8, 16, 32, 64, 128>>)
    \o Sweep("dynamo_stage3_pd_disagg", "dynamo", 3, <<2, 8, 16, 32, 64, 128>>)
    \o Sweep("dynamo_stage2_kv_routing", "dynamo", 2, <<8, 16, 32, 64, 128>>)
    \o Sweep("dynamo_stage1_naive_rr", "dynamo", 1, <<8, 16, 32, 64, 128>>)
    \o Sweep("llmd_dsv4_hydrate", "llmd", 5, <<64, 128>>)
    \o Sweep("llmd_scaffold_stage5_mooncake_lustre", "llmd", 5, <<2, 8, 16, 32, 64, 128, 256>>)
    \o Sweep("llmd_scaffold_stage4_native_dram", "llmd", 4, <<2, 8, 16, 32, 64, 128, 256>>)
    \o Sweep("llmd_scaffold_stage3_pd_disagg", "llmd", 3, <<2, 8>>)
    \o Sweep("llmd_scaffold_stage2_kv_routing", "llmd", 2, <<8, 16>>)
    \o Sweep("llmd_scaffold_stage1_naive_rr", "llmd", 1, <<8, 16>>)

\* run_glm53_llmd_stages_1_to_4.py
GlmLlmd14Kills == ByTitle
GlmLlmd14Waits == {"llmd-w1", "llmd-w2"}
GlmLlmd14Cell == Limited
GlmLlmd14Result == Client({Vllm})
GlmLlmd14Plan ==
    Sweep("glm53_llmd_hydrate", "llmd", 4, <<64, 128, 256>>)
    \o Sweep("glm53_llmd_stage4_1000mbps", "llmd", 4, <<16, 32, 64, 128, 256>>)
    \o Sweep("glm53_llmd_stage3_pd_disagg", "llmd", 3, <<16, 32, 64, 128, 256>>)
    \o Sweep("glm53_llmd_stage2_kv_routing", "llmd", 2, <<64, 128, 256>>)
    \o Sweep("glm53_llmd_stage1_naive_rr", "llmd", 1, <<64, 128, 256>>)

\* run_glm53_dynamo_stages_1_to_4.py
GlmDynamo14Kills == ByTitle
GlmDynamo14Waits == {"dynamo-w1", "dynamo-w2"}
GlmDynamo14Cell == Limited
GlmDynamo14Result == Client({Sglang})
GlmDynamo14Plan ==
    Sweep("glm53_dynamo_hydrate", "dynamo", 4, <<64, 128>>)
    \o Sweep("glm53_dynamo_stage4_1000mbps", "dynamo", 4, <<16, 32, 64, 128>>)
    \o Sweep("glm53_dynamo_stage3_pd_disagg", "dynamo", 3, <<16, 32, 64, 128>>)
    \o Sweep("glm53_dynamo_stage2_kv_routing", "dynamo", 2, <<32, 64, 128>>)
    \o Sweep("glm53_dynamo_stage1_naive_rr", "dynamo", 1, <<32, 64, 128>>)

\* run_glm53_llmd_stages_4_and_5.py
GlmLlmd45Kills == ByTitle
GlmLlmd45Waits == {"llmd-w1", "llmd-w2"}
GlmLlmd45Cell == Limited
GlmLlmd45Result == Client({Vllm})
GlmLlmd45Plan ==
    Sweep("glm53_llmd_stage4_native_dram", "llmd", 4, <<16, 32, 64, 128, 256>>)
    \o Sweep("glm53_llmd_stage5_mooncake_lustre", "llmd", 5, <<16, 32, 64, 128, 256>>)

\* run_glm53_dynamo_stages_1_to_5.py
GlmDynamo15Kills == ByTitle
GlmDynamo15Waits == {"dynamo-w1", "dynamo-w2"}
GlmDynamo15Cell == Limited
GlmDynamo15Result == Client({Sglang})
GlmDynamo15Plan ==
    Sweep("glm53_dynamo_hydrate", "dynamo", 5, <<64, 128, 256>>)
    \o Sweep("glm53_dynamo_stage5_mooncake_lustre", "dynamo", 5, <<16, 32, 64, 128, 256>>)
    \o Sweep("glm53_dynamo_stage4_hicache_dram", "dynamo", 4, <<16, 32, 64, 128, 256>>)
    \o Sweep("glm53_dynamo_stage3_pd_disagg", "dynamo", 3, <<16, 32, 64, 128, 256>>)
    \o Sweep("glm53_dynamo_stage2_kv_routing", "dynamo", 2, <<16, 32, 64, 128, 256>>)
    \o Sweep("glm53_dynamo_stage1_naive_rr", "dynamo", 1, <<16, 32, 64, 128, 256>>)

\* run_glm53_upgraded_sweep.py: one script, two modes, each with its own backends.
GlmUpgradedKills == ByTitle
GlmUpgradedWaits(router) ==
    IF router = "llmd" THEN {"llmd-w1", "llmd-w2"} ELSE {"dynamo-w1", "dynamo-w2"}
GlmUpgradedCell == Limited
GlmUpgradedResult == Client({Sglang, Vllm})
GlmUpgradedDynamoPlan ==
    Sweep("glm53_dynamo_hydrate", "dynamo", 5, <<64, 128, 256>>)
    \o Sweep("glm53_dynamo_stage4_hicache_dram", "dynamo", 4, <<2, 8, 16, 32, 64, 128, 256>>)
    \o Sweep("glm53_dynamo_stage5_mooncake_lustre", "dynamo", 5, <<2, 8, 16, 32, 64, 128, 256>>)
    \o Sweep("glm53_dynamo_stage3_pd_disagg", "dynamo", 3, <<2, 8, 16, 32, 64, 128, 256>>)
    \o Sweep("glm53_dynamo_stage2_kv_routing", "dynamo", 2, <<8, 16, 32, 64, 128, 256>>)
    \o Sweep("glm53_dynamo_stage1_naive_rr", "dynamo", 1, <<8, 16, 32, 64, 128, 256>>)
GlmUpgradedLlmdPlan ==
    Sweep("glm53_llmd_hydrate", "llmd", 5, <<64, 128>>)
    \o Sweep("glm53_llmd_stage4_native_dram", "llmd", 4, <<2, 8, 16, 32, 64, 128, 256>>)
    \o Sweep("glm53_llmd_stage5_mooncake_lustre", "llmd", 5, <<2, 8, 16, 32, 64, 128, 256>>)
    \o Sweep("glm53_llmd_stage3_pd_disagg", "llmd", 3, <<2, 8>>)
    \o Sweep("glm53_llmd_stage2_kv_routing", "llmd", 2, <<8>>)
    \o Sweep("glm53_llmd_stage1_naive_rr", "llmd", 1, <<8>>)

\* run_kimik3_dynamo_stages_1_to_5.py: one backend, two nodes wide.
KimiDynamoKills == ByTitle
KimiDynamoWaits == {"dynamo-w1"}
KimiDynamoCell == Limited
KimiDynamoResult == Server({Sglang})
KimiDynamoPlan ==
    Sweep("kimik3_dynamo_hydrate", "dynamo", 5, <<32, 64, 128>>)
    \o Sweep("kimik3_dynamo_stage5_mooncake_lustre", "dynamo", 5, <<8, 16, 32, 64, 128>>)
    \o Sweep("kimik3_dynamo_stage4_hicache_dram", "dynamo", 4, <<8, 16, 32, 64, 128>>)
    \o Sweep("kimik3_dynamo_stage3_pd_disagg", "dynamo", 3, <<8, 16, 32, 64, 128>>)
    \o Sweep("kimik3_dynamo_stage2_kv_routing", "dynamo", 2, <<8, 16, 32, 64, 128>>)
    \o Sweep("kimik3_dynamo_stage1_naive_rr", "dynamo", 1, <<8, 16, 32, 64, 128>>)

\* run_kimik3_llmd_stages_1_to_5.py: the only script that drains and wipes.
KimiLlmdKills == ByTitle
KimiLlmdWaits == {"llmd-w1"}
KimiLlmdCell == LimitedDrainedWiped
KimiLlmdResult == Server({Vllm})
KimiLlmdPlan ==
    Sweep("kimik3_llmd_stage5_mooncake_lustre", "llmd", 5, <<1, 4, 8, 16, 32, 64, 128>>)
    \o Sweep("kimik3_llmd_stage4_native_dram", "llmd", 4, <<8, 16, 32, 64, 128>>)
    \o Sweep("kimik3_llmd_stage3_pd_disagg", "llmd", 3, <<8, 16, 32, 64, 128>>)
    \o Sweep("kimik3_llmd_stage2_kv_routing", "llmd", 2, <<8, 16, 32, 64, 128>>)
    \o Sweep("kimik3_llmd_stage1_naive_rr", "llmd", 1, <<8, 16, 32, 64, 128>>)
-----------------------------------------------------------------------------
Program(kills, waits, cell, result, plan) ==
    [kills |-> kills, waits |-> waits, cell |-> cell, result |-> result, plan |-> plan]

Llmd14 == Program(Nothing, Llmd14Waits, Llmd14Cell, Llmd14Result, Llmd14Plan)
Dynamo14 == Program(Nothing, Dynamo14Waits, Dynamo14Cell, Dynamo14Result, Dynamo14Plan)
Llmd45 == Program(Llmd45Kills, Llmd45Waits, Llmd45Cell, Llmd45Result, Llmd45Plan)
Dynamo45 == Program(Dynamo45Kills, Dynamo45Waits, Dynamo45Cell, Dynamo45Result, Dynamo45Plan)
Remaining == Program(RemainingKills, {}, RemainingCell, RemainingResult, RemainingPlan)
Sequential ==
    Program(SequentialKills, SequentialWaits, SequentialCell, SequentialResult, SequentialPlan)
Upgraded == Program(UpgradedKills, UpgradedWaits, UpgradedCell, UpgradedResult, UpgradedPlan)
GlmLlmd14 == Program(GlmLlmd14Kills, GlmLlmd14Waits, GlmLlmd14Cell, GlmLlmd14Result, GlmLlmd14Plan)
GlmDynamo14 ==
    Program(GlmDynamo14Kills, GlmDynamo14Waits, GlmDynamo14Cell, GlmDynamo14Result, GlmDynamo14Plan)
GlmLlmd45 == Program(GlmLlmd45Kills, GlmLlmd45Waits, GlmLlmd45Cell, GlmLlmd45Result, GlmLlmd45Plan)
GlmDynamo15 ==
    Program(GlmDynamo15Kills, GlmDynamo15Waits, GlmDynamo15Cell, GlmDynamo15Result, GlmDynamo15Plan)
GlmUpgradedDynamo == Program(GlmUpgradedKills, GlmUpgradedWaits("dynamo"), GlmUpgradedCell,
                             GlmUpgradedResult, GlmUpgradedDynamoPlan)
GlmUpgradedLlmd == Program(GlmUpgradedKills, GlmUpgradedWaits("llmd"), GlmUpgradedCell,
                           GlmUpgradedResult, GlmUpgradedLlmdPlan)
KimiDynamo ==
    Program(KimiDynamoKills, KimiDynamoWaits, KimiDynamoCell, KimiDynamoResult, KimiDynamoPlan)
KimiLlmd == Program(KimiLlmdKills, KimiLlmdWaits, KimiLlmdCell, KimiLlmdResult, KimiLlmdPlan)

Scripts ==
    [llmd_1_to_4 |-> Llmd14, dynamo_1_to_4 |-> Dynamo14, llmd_4_and_5 |-> Llmd45,
     dynamo_4_and_5 |-> Dynamo45, dynamo_dsv4_remaining |-> Remaining,
     dsv4_sequential |-> Sequential, dsv4_upgraded |-> Upgraded, glm53_llmd_1_to_4 |-> GlmLlmd14,
     glm53_dynamo_1_to_4 |-> GlmDynamo14, glm53_llmd_4_and_5 |-> GlmLlmd45,
     glm53_dynamo_1_to_5 |-> GlmDynamo15, glm53_upgraded_dynamo |-> GlmUpgradedDynamo,
     glm53_upgraded_llmd |-> GlmUpgradedLlmd, kimik3_dynamo |-> KimiDynamo,
     kimik3_llmd |-> KimiLlmd]
=============================================================================
