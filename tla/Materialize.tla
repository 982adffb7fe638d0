---------------------------- MODULE Materialize ----------------------------
(***************************************************************************)
(* The `sermo |-> T' materializers (src/src/frame.rs): what each of them   *)
(* makes of the content frames it received and of the status its receive   *)
(* loop ended with, None if the stream had been drained before.  The       *)
(* blocking and the awaiting form of a materializer compute the same; they *)
(* differ in the receive, which is Conversation's.                         *)
(*                                                                         *)
(* A payload (Valor) is its kind and a value, always a sequence of         *)
(* integers: the characters of a text, the bytes of octeti, the one number *)
(* of a numerus.                                                           *)
(***************************************************************************)
EXTENDS Lists

Nihil == [kind |-> "nihil", value |-> <<>>]

ResultOk(value) == [result |-> "ok", value |-> value]
ResultErr(error) == [result |-> error, value |-> <<>>]

(* The payloads of each target's content frames; a list and a scalar are   *)
(* those of texts and of numbers.                                          *)
Fits(k) ==
  CASE k \in {"textus", "lista"} -> {"textus"}
    [] k = "octeti"  -> {"octeti", "bytes"}
    [] k = "scalar"  -> {"numerus"}
    [] k = "instans" -> {"instans", "numerus"}

(* A Cancel taken for an end. *)
only_error(status) == status = "Error"

terminal_error(status) == status \in {"Error", "Cancel"}

(* A payload of the wrong kind makes the rest of the stream be drained and *)
(* the mismatch returned, whatever the terminal turns out to be.           *)
Mismatch(k, frames) == \E i \in DOMAIN frames : frames[i].data.kind \notin Fits(k)

Ended(status, value) ==
  IF terminal_error(status) THEN ResultErr(status) ELSE ResultOk(value)

(* What the frames' payloads hold, in the order they came. *)
Values(frames) == [i \in DOMAIN frames |-> frames[i].data.value]

try_sermo_materialize_vacuum(frames, status) == Ended(status, <<>>)

try_sermo_materialize_textus(frames, status) ==
  IF Mismatch("textus", frames) THEN ResultErr("mismatch")
  ELSE Ended(status, Seqs!FlattenSeq(Values(frames)))

try_sermo_materialize_octeti(frames, status) ==
  IF Mismatch("octeti", frames) THEN ResultErr("mismatch")
  ELSE Ended(status, Seqs!FlattenSeq(Values(frames)))

(* The first payload, whatever it is, and an empty one if there is none. *)
try_sermo_materialize_valor(frames, status) ==
  Ended(status, IF frames = <<>> THEN <<>> ELSE frames[1].data.value)

try_sermo_materialize_lista(frames, status) ==
  IF Mismatch("lista", frames) THEN ResultErr("mismatch")
  ELSE Ended(status, Values(frames))

(* Exactly one frame, and only then is its payload looked at. *)
OnlyFrame(k, frames, status) ==
  IF terminal_error(status) THEN ResultErr(status)
  ELSE IF Len(frames) # 1 THEN ResultErr("count")
  ELSE IF Mismatch(k, frames) THEN ResultErr("mismatch")
  ELSE ResultOk(frames[1].data.value)

try_sermo_materialize_instans(frames, status) == OnlyFrame("instans", frames, status)

try_sermo_materialize_scalar(frames, status) == OnlyFrame("scalar", frames, status)

(* Whatever came, also when the stream failed. *)
sermo_tuus_frames(frames) == ResultOk(Values(frames))

(* The materializer of a type. *)
try_sermo_materialize_auto(type) ==
  CASE type = "Vec<String>" -> "lista"
    [] type = "Vec<u8>"     -> "octeti"
    [] type = "String"      -> "textus"
    [] OTHER                -> "scalar"

Materializers ==
  {"vacuum", "textus", "octeti", "valor", "lista", "instans", "scalar", "frames"}

Result(k, frames, status) ==
  CASE k = "vacuum"  -> try_sermo_materialize_vacuum(frames, status)
    [] k = "textus"  -> try_sermo_materialize_textus(frames, status)
    [] k = "octeti"  -> try_sermo_materialize_octeti(frames, status)
    [] k = "valor"   -> try_sermo_materialize_valor(frames, status)
    [] k = "lista"   -> try_sermo_materialize_lista(frames, status)
    [] k = "instans" -> try_sermo_materialize_instans(frames, status)
    [] k = "scalar"  -> try_sermo_materialize_scalar(frames, status)
    [] OTHER         -> sermo_tuus_frames(frames)
=============================================================================
