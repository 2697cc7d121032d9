---------------------------- MODULE TextureArray -----------------------------
(***************************************************************************)
(* engine::DynamicTextureArray with the textures of the engine that use    *)
(* it: the array of all textures a shader can sample, bound by index.  The *)
(* first NumReserved indices are kept for the textures the engine makes    *)
(* for itself; the others get the first free one.  A texture is in the     *)
(* array from its creation to its destruction, and its index is copied     *)
(* into the material data of the GPU.                                      *)
(***************************************************************************)
EXTENDS Integers, FiniteSets, FiniteSetsExt

CONSTANTS Textures,     \* GPUTextureHandle
          NumReserved,  \* NUM_RESERVED, 16 in the code
          NumMax        \* NUM_MAX_TEXTURE, 1024

ASSUME TextureAssumption == NumReserved \in Nat /\ NumMax \in Nat /\ NumReserved <= NumMax

Invalid == -1  \* u32MAX

VARIABLES bitmask,    \* the bits set
          indexOf,    \* hashMap: texture -> index
          texIndex,   \* TextureData::index of the textures that exist
          binding     \* the texture the descriptor set shows at each index

textureVars == <<bitmask, indexOf, texIndex, binding>>

TextureInit ==
  /\ bitmask = 0..NumReserved - 1
  /\ indexOf = <<>> /\ texIndex = <<>> /\ binding = <<>>

With(f, x, y) == [z \in DOMAIN f \union {x} |-> IF z = x THEN y ELSE f[z]]
Without(f, x) == [z \in DOMAIN f \ {x} |-> f[z]]

(* priv_texture2D__add_to_mega_array with a desired index: the engine asks *)
(* for each reserved index once, before anything else is loaded.           *)
CreateReserved(t, i) ==
  /\ t \notin DOMAIN texIndex
  /\ \A u \in DOMAIN texIndex : texIndex[u] \in 0..NumReserved - 1 \ {i}
  /\ indexOf' = With(indexOf, t, i)
  /\ texIndex' = With(texIndex, t, i)
  /\ binding' = With(binding, i, t)
  /\ UNCHANGED bitmask

FreeBits == (0..NumMax - 1) \ bitmask

(* Mutant: takes a bit, and does not set it.                               *)
CreateTexture_notSet(t) ==
  /\ t \notin DOMAIN texIndex
  /\ FreeBits # {}
  /\ LET i == Min(FreeBits)
     IN  /\ indexOf' = With(indexOf, t, i)
         /\ texIndex' = With(texIndex, t, i)
         /\ binding' = With(binding, i, t)
  /\ UNCHANGED bitmask

CreateTexture(t) ==
  /\ t \notin DOMAIN texIndex
  /\ FreeBits # {}
  /\ LET i == Min(FreeBits)
     IN  /\ bitmask' = bitmask \union {i}
         /\ indexOf' = With(indexOf, t, i)
         /\ texIndex' = With(texIndex, t, i)
         /\ binding' = With(binding, i, t)

(* The array is full: the texture exists without an index.                 *)
CreateWithoutIndex(t) ==
  /\ t \notin DOMAIN texIndex
  /\ FreeBits = {}
  /\ texIndex' = With(texIndex, t, Invalid)
  /\ UNCHANGED <<bitmask, indexOf, binding>>

(* priv_texture2D__remove_from_mega_array.  What the descriptor set shows  *)
(* at the index is not touched.  The textures of the engine itself live as *)
(* long as it does.                                                        *)
DestroyTexture(t) ==
  /\ t \in DOMAIN texIndex
  /\ t \in DOMAIN indexOf => indexOf[t] >= NumReserved
  /\ bitmask' = IF t \in DOMAIN indexOf THEN bitmask \ {indexOf[t]} ELSE bitmask
  /\ indexOf' = IF t \in DOMAIN indexOf THEN Without(indexOf, t) ELSE indexOf
  /\ texIndex' = Without(texIndex, t)
  /\ UNCHANGED binding

TextureNext ==
  \E t \in Textures :
    \/ \E i \in 0..NumReserved - 1 : CreateReserved(t, i)
    \/ CreateTexture(t) \/ CreateWithoutIndex(t) \/ DestroyTexture(t)

TextureSpec == TextureInit /\ [][TextureNext]_textureVars
-----------------------------------------------------------------------------
(* Properties.                                                             *)

(* Sampling the array at the index of a texture gives that texture, and a  *)
(* texture lacks an index only if it found the array full.                 *)
SampledIsOwn ==
  \A t \in DOMAIN texIndex : texIndex[t] # Invalid => binding[texIndex[t]] = t

(* The bits set are those of the reserved indices and of the textures that *)
(* exist: none is lost however textures come and go.                       *)
BitsExact ==
  /\ bitmask = 0..NumReserved - 1 \union {indexOf[t] : t \in DOMAIN indexOf}
  /\ \A t \in DOMAIN texIndex : texIndex[t] # Invalid <=> t \in DOMAIN indexOf
  /\ DOMAIN indexOf \subseteq DOMAIN texIndex

(* What is bound, what is reserved and what exists agree.                  *)
TexturesExact == SampledIsOwn /\ BitsExact
=============================================================================
