--------------------------- MODULE OpenCodeDeployment ---------------------------
(***************************************************************************)
(* Which selections an OpenCode deployment serves, and the models a served *)
(* one is rendered with: validateOpenCodeDeployment of runner.ts, checked  *)
(* when a cycle is prepared, beside renderOpenCodeConfigForCycle of        *)
(* runtimes/opencode/render.ts, which the runtime uses.  The two resolve   *)
(* the small model, which names the title agent's, each by itself.         *)
(*                                                                         *)
(* A model is named with or without its provider.  A provider is sound if  *)
(* its gateway or proxy URL and its token are; renders says whether all    *)
(* there is in the file besides models can be written as configuration.    *)
(***************************************************************************)
CONSTANTS
  Providers,     \* provider ids
  Models         \* model ids

Unnamed == "unnamed"

ASSUME DeploymentAssumption == Unnamed \notin Providers \cup Models

Names == [provider : Providers \cup {Unnamed}, id : Models]
NoModel == [provider |-> Unnamed, id |-> Unnamed]

(* What the configuration service prepared for the cycle. *)
Runtimes == {"claude-agent", "opencode", "unknown"}
Selected == [runtime : Runtimes, provider : Providers, model : Names]

(* The deployment file with the VERTEX_ALLOWED_MODELS of the environment;     *)
(* provider, model and small may be left out.                                 *)
Deployed ==
  [provider : Providers \cup {Unnamed}, model : Names \cup {NoModel},
   small : Names \cup {NoModel}, declared : UNION {[P -> SUBSET Models] : P \in SUBSET Providers},
   allowed : SUBSET Models, sound : SUBSET Providers, renders : BOOLEAN]

Gateways == {"rehor-openai", "rehor-openai-chat"}
Preferred == "claude-sonnet-4-6"
-------------------------------------------------------------------------------
Qualified(name, provider) ==
  IF name.provider = Unnamed THEN [name EXCEPT !.provider = provider] ELSE name

(* resolveDefaultSmallModel: a utility model only where the deployment        *)
(* declares it and the environment allows it.                                 *)
DefaultSmallModel(deployed, selected) ==
  CASE selected.provider = "vertex" ->
         IF Preferred \in deployed.allowed \cap deployed.declared["vertex"]
         THEN [provider |-> "vertex", id |-> Preferred]
         ELSE Qualified(selected.model, "vertex")
    [] selected.provider \in Gateways -> Qualified(selected.model, selected.provider)
    [] OTHER -> NoModel

SmallModel(deployed, selected) ==
  IF deployed.small # NoModel THEN deployed.small ELSE DefaultSmallModel(deployed, selected)

(* The models of the rendered configuration: the agents' and the title        *)
(* agent's.                                                                   *)
Rendered(deployed, selected) ==
  LET small == SmallModel(deployed, selected)
  IN {Qualified(selected.model, selected.provider)}
       \cup IF small = NoModel THEN {} ELSE {Qualified(small, selected.provider)}

(* Mutant: the selected model is looked at, and not the small one. *)
MutantVertexAllows(deployed, selected) == selected.model.id \in deployed.allowed

VertexAllows(deployed, selected) ==
  LET small == SmallModel(deployed, selected)
  IN /\ {selected.model.id, small.id} \subseteq deployed.allowed
     /\ small.id \in deployed.declared["vertex"] \cup {selected.model.id}

(* The settings that reach a provider: the gateways' and Vertex's go through   *)
(* the proxy, and nothing is asked of another's.                              *)
Sound(deployed, provider) ==
  provider \in Gateways \cup {"vertex"} => provider \in deployed.sound

(* All of the file is rendered, the providers that are not selected as well;  *)
(* and no model named with another provider than the selected one.            *)
Renders(deployed, selected) ==
  /\ deployed.renders
  /\ \A model \in Rendered(deployed, selected) : model.provider = selected.provider

Serves(deployed, selected) ==
  \/ selected.runtime # "opencode"
  \/ /\ deployed.provider \in {Unnamed, selected.provider}
     /\ deployed.model \in {NoModel, selected.model}
     /\ selected.provider \in DOMAIN deployed.declared
     /\ Sound(deployed, selected.provider)
     /\ selected.provider \in {"rehor-openai-chat", "vertex"} =>
          selected.model.id \in deployed.declared[selected.provider]
     /\ selected.provider = "vertex" => VertexAllows(deployed, selected)
     /\ Renders(deployed, selected)
===============================================================================
