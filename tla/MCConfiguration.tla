--------------------------- MODULE MCConfiguration ---------------------------
(****************************************************************************)
(* The parameters of the stack, the presets and the compose projects that   *)
(* run on the parameters, side by side: a behaviour is one of the three,    *)
(* with the others at one of their initial states.                          *)
(* StackConfig has one key of every kind: a parameter that belongs to the   *)
(* preset, an ordinary one and an image, each with an old name, a key that  *)
(* is dropped, two secrets, and the keys a launch sets itself.              *)
(****************************************************************************)
EXTENDS StackConfig, PresetStore, MonitoringStack, TLC

CONSTANTS EP, LEP,     \* ENABLE_EXPERT_PARALLEL, SLGPU_ENABLE_EXPERT_PARALLEL
          SEQ, LSEQ,   \* MAX_NUM_SEQS, SLGPU_VLLM_MAX_NUM_SEQS
          IMG, LIMG,   \* LOKI_IMAGE, SLGPU_LOKI_IMAGE
          PORT,        \* VLLM_PORT
          LITE, HF,    \* LITELLM_API_KEY, HF_TOKEN
          TP, DEV,     \* TP, NVIDIA_VISIBLE_DEVICES
          APORT, SPORT,\* LLM_API_PORT, LLM_API_PORT_SGLANG
          t2, g2,      \* "2" and "0,1"
          v1, v2,
          c1, c2, c3,  \* sets of parameters
          d1, d2,      \* data directories
          p1, p2, p3   \* places of buckets and databases

mcKeys   == {EP, LEP, SEQ, LSEQ, IMG, LIMG, PORT, LITE, HF, TP, DEV, APORT, SPORT}
mcVllm   == {<<EP, LEP>>, <<SEQ, LSEQ>>}
mcImages == {<<IMG, LIMG>>}

With(f) == f @@ NoRow
Old(m, l, i) == [row |-> With(m), lite |-> l, installed |-> i]
mcOlds == {Old(<<>>, Absent, FALSE),
           Old(SEQ :> v1 @@ IMG :> v1 @@ LITE :> v1, v2, FALSE),
           Old(LEP :> v1 @@ LSEQ :> v1 @@ SEQ :> v2 @@ LIMG :> v1 @@ PORT :> v1 @@ HF :> v1
                   @@ TP :> v1 @@ DEV :> v1 @@ SPORT :> v1, v1, TRUE)}
mcMainEnvs == {With(SEQ :> v1 @@ IMG :> v1 @@ HF :> v1 @@ LITE :> Empty),
               With(LEP :> v1 @@ SEQ :> Empty @@ LSEQ :> v2 @@ LIMG :> v2 @@ HF :> v2)}
mcPresets == {NoRow, With(TP :> v1 @@ EP :> v2 @@ SEQ :> v1 @@ DEV :> v2),
              With(TP :> v1 @@ LEP :> v2 @@ LSEQ :> v1 @@ APORT :> v2)}
mcGpuLists == {[tp |-> t2, devices |-> g2]}
(* c2 has the same directory and another name for the database, c3 has its  *)
(* data elsewhere.                                                          *)
mcDirOf   == [c \in Configs |-> IF c = c3 THEN d2 ELSE d1]
mcPlaceOf == [c \in Configs |-> IF c = c3 THEN [b \in Bootstraps |-> p3]
                ELSE [b \in Bootstraps |-> IF c = c2 /\ b = "litellm-pg-init" THEN p2 ELSE p1]]
Symmetry  == Permutations(Requests) \cup Permutations(Names)

VARIABLE part
mcVars == <<part, vars, presetVars, stackVars>>

MCInit ==
    /\ part \in {"parameters", "presets", "projects"}
    /\ Init /\ PresetInit /\ StackInit
    /\ part # "parameters" => row = NoRow
    /\ part # "presets" => \A n \in Names : rows[n] = NoPreset
    /\ part # "projects" => cfg = c1 /\ config = "file" /\ git /\ gpu
MCNext ==
    /\ part' = part
    /\ \/ part = "parameters" /\ Next /\ UNCHANGED <<presetVars, stackVars>>
       \/ part = "presets" /\ PresetNext /\ UNCHANGED <<vars, stackVars>>
       \/ part = "projects" /\ StackNext /\ UNCHANGED <<vars, presetVars>>
MCSpec == MCInit /\ [][MCNext]_mcVars
=============================================================================
