------------------------------- MODULE MCRes2 -------------------------------
(* Instances of Res2 for TLC: which assets there are, what their           *)
(* signatures are, how those load and what they bind.                      *)
EXTENDS Res2

CONSTANTS A1, A2, A3, A4, A5, A6, S1, S2, S3, S4, S5, S6, S7, White

BindsNothing == [s \in Sigs |-> <<>>]

(* Assets that resolve to S1, or to S2 once the database has changed; the  *)
(* loader loads S1 by itself.                                              *)
SharedVersions == [a \in Assets |-> {S1, S2}]
DirectAndCallback == [s \in Sigs |-> IF s = S1 THEN "direct" ELSE "callback"]

(* A1 is a pipeline whose shaders are A2 and A3, A4 a material both        *)
(* textures of which are A5; A6 is another texture, with two versions.     *)
FileVersions ==
  [a \in Assets |-> CASE a = A1 -> {S1} [] a = A2 -> {S2} [] a = A3 -> {S3} [] a = A4 -> {S4}
                      [] a = A5 -> {S5} [] OTHER -> {S6, S7}]
FileKind ==
  [s \in Sigs |-> CASE s = S1 -> "pipeline" [] s \in {S2, S3} -> "direct"
                    [] s = S4 -> "composite" [] OTHER -> "callback"]
FileBinds ==
  [s \in Sigs |-> CASE s = S1 -> <<A2, A3>> [] s = S4 -> <<A5, A5>> [] OTHER -> <<>>]

(* Two layers, and one more for what is made by hand; the files of above.  *)
FlatLayers ==
  [r \in Res |-> CASE r \in Assets -> 1 [] r \in Sigs \union {White} -> 0 [] OTHER -> 2]
FileLayers ==
  [r \in Res |-> CASE r \in {A1, A4} -> 3 [] r \in {S1, S4} \union (Hands \ {White}) -> 2
                   [] r \in {A2, A3, A5, A6} -> 1 [] OTHER -> 0]

(* Textures A1, with two versions, and A2.                                 *)
TextureVersions == [a \in Assets |-> IF a = A1 THEN {S1, S2} ELSE {S3}]
AllCallback == [s \in Sigs |-> "callback"]
(* The applications.                                                       *)
App(assets, textures, does, fails) ==
  [assets |-> assets, textures |-> textures, does |-> does, fails |-> fails]

EverythingApps ==
  {App({A1, A2}, {}, {"onDemand", "releaseInFlight", "hotReload", "hotReloadUnready"}, {"engine"})}

FilesAndMaterialApps ==
  {App({A1, A4}, {}, {"onDemand", "hotReload"}, {}),
   App({A5, A6}, {A5, A6, White}, {"onDemand", "materials"}, {"engine", "loader"})}

OnDemandApps == {App({A1, A2}, {}, {"onDemand"}, {})}
ReleasingApps == {App({A1}, {}, {"releaseInFlight"}, {})}
FailingApps == {App({A1}, {}, {}, {"loader"})}
ReloadingApps == {App({A1}, {A1, White}, {"materials", "hotReload"}, {})}
=============================================================================
