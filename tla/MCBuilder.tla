------------------------------ MODULE MCBuilder ------------------------------
(* A project with a texture, a shader and a material over both, in two     *)
(* .gosasset_d files, the second of which includes the first.              *)
EXTENDS Builder

CONSTANTS i1, i2, img, inc, sh

Decl1(name, src, param, uses) == [rtname |-> name, src |-> src, param |-> param, uses |-> uses]
Text(include, declare) == [include |-> include, declare |-> declare]

MCPaths == <<i1, i2, img, inc, sh>>
MCLooseUids == <<i1, i2, inc, sh, img>>
MCUids == <<i2, i1, inc, sh, img>>
TexImg == Text(<<>>, <<Decl1("t", img, 1, {})>>)
TexSh == Text(<<>>, <<Decl1("t", sh, 1, {})>>)
OwnV == Text(<<>>, <<Decl1("v", sh, 4, {})>>)
Shader == Decl1("v", sh, 2, {})
Both == Text(<<i1>>, <<Shader, Decl1("m", NoSource, 3, {"t", "v"})>>)
Copy == Decl1("u", img, 1, {})
Alone == Text(<<>>, <<Shader, Copy>>)
Twice == Text(<<i1>>, <<Copy, Decl1("m", NoSource, 3, {"t", "u"})>>)
MCTexts == [f \in {i1, i2, img, inc, sh} |->
  CASE f = i1 -> {TexImg, TexSh, OwnV, Bad}
    [] f = i2 -> {Both, Alone, Twice}
    [] f = sh -> {{}, {inc}, {inc, img}}
    [] OTHER -> {{}}]
MCFirst == [f \in {i1, i2, img, inc, sh} |->
  CASE f = i1 -> TexImg [] f = i2 -> Both [] f = sh -> {inc} [] OTHER -> {}]

(* As above, and the second refers to the first without including it.      *)
Loose == Text(<<>>, <<Shader, Decl1("m", NoSource, 3, {"t", "v"})>>)
MCLooseTexts == [f \in {i1, i2, img, inc, sh} |->
  CASE f = i1 -> {TexImg} [] f = i2 -> {Loose} [] f = sh -> {{inc}} [] OTHER -> {{}}]
MCLooseFirst == [f \in {i1, i2, img, inc, sh} |->
  CASE f = i1 -> TexImg [] f = i2 -> Loose [] f = sh -> {inc} [] OTHER -> {}]
=============================================================================
