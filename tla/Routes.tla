------------------------------- MODULE Routes -------------------------------
(***************************************************************************)
(* The builtin routes (builtin_route_frames in src/src/frame.rs): the      *)
(* frames a request is answered with, and what it does to the file system  *)
(* and to the environment.  The routes that only read are operators of the *)
(* state; the ones that write are actions.  A call of std::fs is one step: *)
(* solum:tange makes three, and other threads' requests fall between them. *)
(*                                                                         *)
(* A path is the sequence of its names; a text, like a path, is a sequence *)
(* of integers (Materialize), and among the bytes of a file a negative one *)
(* stands for a byte that no UTF-8 text has.  Links are made and renamed   *)
(* at leaves only, so no path runs through a link.                         *)
(***************************************************************************)
EXTENDS Materialize, FiniteSetsExt

CONSTANTS
  Path,           \* the paths, with every directory on the way to them
  FileSystems,    \* the file systems a program may find
  Texts,          \* the texts that requests write
  Blobs,          \* the bytes they write, which need be no text
  Pattern,        \* the text solum:inveni looks for
  FileModes,      \* what solum:modum is asked to set, in and out of its range
  MaxBytes,       \* bound on the length of a file
  MaxRequests,    \* bound on the requests that write
  MaxNumerus      \* the largest integer (i64::MAX)

ASSUME PathAssumption ==
  /\ IsFiniteSet(Path) /\ Path \subseteq Seq(Int)
  /\ \A p \in Path : p # <<>> /\ (Len(p) > 1 => Seqs!Front(p) \in Path)

VARIABLES
  files,          \* the file system
  variable,       \* an environment variable, <<>> if it is not set
  touching,       \* a solum:tange between two of its calls
  asked, answer,  \* the last request, if it was to write and did, and its
                  \* frames; nothing once a solum:tange creates its file
  requests        \* how many there were

routeVars == <<files, variable, touching, asked, answer, requests>>

NL == 0
CR == 2
IsUtf8(bytes) == \A i \in DOMAIN bytes : bytes[i] >= 0

Modes == 0..4095       \* the bits of a mode
NewMode == 420         \* rw-r--r--
TypeBits == [file |-> 32768, dir |-> 16384]     \* S_IFREG, S_IFDIR
Absent == [is |-> "absent", bytes |-> <<>>, mode |-> 0, to |-> <<>>]
Directory == [is |-> "dir", bytes |-> <<>>, mode |-> 493, to |-> <<>>]
File(bytes, mode) == [is |-> "file", bytes |-> bytes, mode |-> mode, to |-> <<>>]
Link(to) == [is |-> "link", bytes |-> <<>>, mode |-> 0, to |-> to]

Children(p) == {q \in Path : Len(q) > 1 /\ Seqs!Front(q) = p}
Leaves == {p \in Path : Children(p) = {}}
NoTouch == [path |-> <<>>, next |-> "test"]
NoRequest == [route |-> "none", opener |-> Nihil]

(* A file system: what is there is in a directory, links are at leaves.    *)
Nodes == [is : {"absent", "file", "dir", "link"}, bytes : Seq(Int), mode : Modes,
          to : Path \cup {<<>>}]

WellFormed(fs) ==
  /\ fs \in [Path -> Nodes]
  /\ \A p \in Path :
       /\ fs[p].is # "absent" => Len(p) = 1 \/ fs[Seqs!Front(p)].is = "dir"
       /\ fs[p].is = "link" => fs[p].to \in Path /\ p \in Leaves
       /\ fs[p].is = "file" => Len(fs[p].bytes) <= MaxBytes

ASSUME RoutesAssumption ==
  /\ MaxBytes \in Nat /\ MaxNumerus \in Nat
  /\ Pattern \in Seq(Int) /\ FileModes \subseteq Int
  /\ \A t \in Texts : t \in Seq(Int) /\ IsUtf8(t) /\ Len(t) <= MaxBytes
  /\ \A b \in Blobs : b \in Seq(Int) /\ Len(b) <= MaxBytes
  /\ \A fs \in FileSystems : WellFormed(fs)

RouteInit ==
  /\ files \in FileSystems /\ variable = <<>>
  /\ touching = NoTouch /\ asked = NoRequest /\ answer = <<>> /\ requests = 0

-----------------------------------------------------------------------------
(* The payloads of openers and answers, and the frames of an answer. *)
Textus(t) == [kind |-> "textus", value |-> t]
Numerus(n) == [kind |-> "numerus", value |-> <<n>>]
Octeti(b) == [kind |-> "octeti", value |-> b]
Bivalens(b) == [kind |-> "bivalens", value |-> <<IF b THEN 1 ELSE 0>>]
Lista(items) == [kind |-> "lista", items |-> items]

Item(data) == [status |-> "Item", data |-> data]
DoneFrame == [status |-> "Done", data |-> Nihil]

item_done_frames(data) == <<Item(data), DoneFrame>>
bytes_done_frames(bytes) == <<[status |-> "Byte", data |-> Octeti(bytes)], DoneFrame>>
done_frames == <<DoneFrame>>
error_frames == <<[status |-> "Error", data |-> Textus(<<>>)]>>
Items(values) == Append([i \in DOMAIN values |-> Item(Textus(values[i]))], DoneFrame)

(* What an opener must be. *)
valor_text(o) == o.kind = "textus"
valor_numerus(o) == o.kind = "numerus"
ItemKinds(o) == IF o.kind = "lista" THEN [i \in DOMAIN o.items |-> o.items[i].kind] ELSE <<>>
valor_text_pair(o) == ItemKinds(o) = <<"textus", "textus">>
valor_text_numerus_pair(o) == ItemKinds(o) = <<"textus", "numerus">>
valor_path_bytes(o) == ItemKinds(o) \in {<<"textus", "octeti">>, <<"textus", "bytes">>}
valor_text_range(o) == ItemKinds(o) = <<"textus", "numerus", "numerus">>
valor_text_pattern_range(o) == ItemKinds(o) = <<"textus", "textus", "numerus", "numerus">>
Arg(o, i) == o.items[i].value

-----------------------------------------------------------------------------
(* The file system, as std::fs uses it. *)

(* Where a path leads: the last link's target, or a link of a loop. *)
End(p) ==
  LET hop[n \in 0..Cardinality(Path)] ==
        IF n = 0 THEN p
        ELSE IF files[hop[n - 1]].is = "link" THEN files[hop[n - 1]].to ELSE hop[n - 1]
  IN  hop[Cardinality(Path)]

Node(p) == files[End(p)]
Exists(p) == Node(p).is \in {"file", "dir"}
InDirectory(p) == Len(p) = 1 \/ files[Seqs!Front(p)].is = "dir"
CanWrite(p) == Node(p).is = "file" \/ (Node(p).is = "absent" /\ InDirectory(End(p)))
Written(p, bytes) ==
  [files EXCEPT ![End(p)] = File(bytes, IF @.is = "file" THEN @.mode ELSE NewMode)]
Below(p) == {q \in Path : Seqs!IsPrefix(p, q)}
Above(p) == {q \in Path : Seqs!IsPrefix(q, p)}

-----------------------------------------------------------------------------
(* The routes that read. *)

(* The bytes of a file, as octeti; solum:lege sends them as a list of       *)
(* numbers, of the kind "bytes".                                            *)
solum_hauri_frames(o) ==
  IF valor_text(o) /\ Node(o.value).is = "file"
  THEN bytes_done_frames(Node(o.value).bytes) ELSE error_frames

(* The text between newlines, the rest after the last one included. *)
LinesAndRest(text) ==
  LET upto[n \in 0..Len(text)] ==
        IF n = 0 THEN << <<>> >>
        ELSE IF text[n] = NL THEN Append(upto[n - 1], <<>>)
        ELSE Append(Seqs!Front(upto[n - 1]), Append(Seqs!Last(upto[n - 1]), text[n]))
  IN  upto[Len(text)]

(* text.lines(): a carriage return goes with the newline after it, and     *)
(* there is no line after a final newline.                                 *)
EndsInCR(line) == line # <<>> /\ Seqs!Last(line) = CR
WithoutCR(line) == IF EndsInCR(line) THEN Seqs!Front(line) ELSE line

Lines(text) ==
  LET all == LinesAndRest(text)
      ended == [i \in DOMAIN Seqs!Front(all) |-> WithoutCR(Seqs!Front(all)[i])]
  IN  IF Seqs!Last(all) = <<>> THEN ended ELSE Append(ended, Seqs!Last(all))

(* What read_to_string reads: a file of other bytes is an error. *)
HoldsText(p) == Node(p).is = "file" /\ IsUtf8(Node(p).bytes)

solum_line_item_frames(p) ==
  IF HoldsText(p) THEN Items(Lines(Node(p).bytes)) ELSE error_frames

solum_carpe_frames(o) ==
  IF valor_text(o) THEN solum_line_item_frames(o.value) ELSE error_frames

solum_lege_frames(o, target) ==
  IF ~valor_text(o) \/ target \notin {"String", "Vec<String>", "Vec<u8>"} THEN error_frames
  ELSE IF target = "Vec<String>" THEN solum_line_item_frames(o.value)
  ELSE IF target = "String"
  THEN IF HoldsText(o.value) THEN item_done_frames(Textus(Node(o.value).bytes)) ELSE error_frames
  ELSE IF Node(o.value).is = "file"
  THEN item_done_frames([kind |-> "bytes", value |-> Node(o.value).bytes]) ELSE error_frames

(* The window of a file that begins at start. *)
Window(p, start, length) ==
  SubSeq(Node(p).bytes, start + 1, Min({start + length, Len(Node(p).bytes)}))

solum_partem_frames(o, target) ==
  IF /\ valor_text_range(o) /\ target \in {"none", "Vec<u8>"}
     /\ Arg(o, 2)[1] >= 0 /\ Arg(o, 3)[1] >= 0 /\ Node(Arg(o, 1)).is = "file"
  THEN bytes_done_frames(Window(Arg(o, 1), Arg(o, 2)[1], Arg(o, 3)[1]))
  ELSE error_frames

solum_mensura_frames(o, target) ==
  IF valor_text(o) /\ target = "i64" /\ Exists(o.value)
  THEN item_done_frames(Numerus(Len(Node(o.value).bytes))) ELSE error_frames

(* The first place of the pattern in the window, counted from the start of *)
(* the file, or -1; an empty pattern is found at once, in any file.        *)
FirstIn(start, window, pattern) ==
  LET at == {i \in 0..(Len(window) - Len(pattern)) :
               SubSeq(window, i + 1, i + Len(pattern)) = pattern}
  IN  IF at = {} THEN -1 ELSE start + Min(at)

solum_inveni_frames(o, target) ==
  IF ~valor_text_pattern_range(o) \/ target # "i64" THEN error_frames
  ELSE LET p == Arg(o, 1)  pattern == Arg(o, 2)
           start == Arg(o, 3)[1]  length == Arg(o, 4)[1]
       IN  IF start < 0 \/ length < 0 THEN error_frames
           ELSE IF pattern = <<>> THEN item_done_frames(Numerus(start))
           ELSE IF Node(p).is # "file" THEN error_frames
           ELSE item_done_frames(Numerus(FirstIn(start, Window(p, start, length), pattern)))

solum_path_bool_frames(route, o, target) ==
  IF ~valor_text(o) \/ target \notin {"none", "bool"} THEN error_frames
  ELSE item_done_frames(Bivalens(
         CASE route = "solum:exstat"        -> Exists(o.value)
           [] route = "solum:directoriumne" -> Node(o.value).is = "dir"
           [] route = "solum:regularene"    -> Node(o.value).is = "file"
           [] route = "solum:legibilene"    -> Node(o.value).is = "file"
           [] route = "solum:vinculumne"    -> files[o.value].is = "link"))

solum_list_dir_frames(o) ==
  IF valor_text(o) /\ Node(o.value).is = "dir"
  THEN LET present == {q \in Children(End(o.value)) : files[q].is # "absent"}
           names == InOrder({Seqs!Last(q) : q \in present})
       IN  Items([i \in DOMAIN names |-> <<names[i]>>])
  ELSE error_frames

solum_follow_symlink_frames(o) ==
  IF valor_text(o) /\ files[o.value].is = "link"
  THEN item_done_frames(Textus(files[o.value].to)) ELSE error_frames

solum_canonicalize_frames(o) ==
  IF valor_text(o) /\ Exists(o.value)
  THEN item_done_frames(Textus(End(o.value))) ELSE error_frames

(* The whole st_mode, with the bits of the file's type. *)
solum_get_mode_frames(o) ==
  IF valor_text(o) /\ Exists(o.value)
  THEN item_done_frames(Numerus(TypeBits[Node(o.value).is] + Node(o.value).mode))
  ELSE error_frames

solum_parent_frames(o) ==
  IF valor_text(o) THEN item_done_frames(Textus(Seqs!Front(o.value))) ELSE error_frames

solum_file_name_frames(o) ==
  IF valor_text(o) THEN item_done_frames(Textus(<<Seqs!Last(o.value)>>)) ELSE error_frames

solum_join_frames(o) ==
  IF o.kind = "lista" /\ \A i \in DOMAIN o.items : valor_text(o.items[i])
  THEN item_done_frames(Textus(Seqs!FlattenSeq([i \in DOMAIN o.items |-> o.items[i].value])))
  ELSE error_frames

processus_lege_frames(o) ==
  IF valor_text(o) /\ variable # <<>> THEN item_done_frames(Textus(variable)) ELSE error_frames

(* A random number r, brought into the range between the two bounds, which *)
(* are the first two items.                                                *)
aleator_sortire_frames(o, r) ==
  IF ~Seqs!IsPrefix(<<"numerus", "numerus">>, ItemKinds(o)) THEN error_frames
  ELSE LET lo == Min({Arg(o, 1)[1], Arg(o, 2)[1]})
           hi == Max({Arg(o, 1)[1], Arg(o, 2)[1]})
       IN  item_done_frames(Numerus(lo + (r % (hi - lo + 1))))

-----------------------------------------------------------------------------
(* The routes that write. *)

(* Answered Done with the new file system, or Error with the old one. *)
Effect(route, o, ok, after) ==
  /\ files' = IF ok THEN after ELSE files
  /\ answer' = IF ok THEN done_frames ELSE error_frames
  /\ asked' = IF ok THEN [route |-> route, opener |-> o] ELSE NoRequest
  /\ requests' = requests + 1

solum_write_text_frames(route, o) ==
  LET p == Arg(o, 1)
      text == IF route = "solum:appone" THEN Node(p).bytes \o Arg(o, 2) ELSE Arg(o, 2)
  IN  /\ valor_text_pair(o) => Len(text) <= MaxBytes
      /\ Effect(route, o, valor_text_pair(o) /\ CanWrite(p), Written(p, text))

solum_write_bytes_frames(route, o) ==
  Effect(route, o, valor_path_bytes(o) /\ CanWrite(Arg(o, 1)), Written(Arg(o, 1), Arg(o, 2)))

(* A link is removed, never its target, and nothing there is no error. *)
solum_delete_frames(route, o) ==
  LET p == o.value
  IN  Effect(route, o,
             /\ valor_text(o) /\ files[p].is # "dir"
             /\ Len(p) = 1 \/ files[Seqs!Front(p)].is # "file",
             [files EXCEPT ![p] = Absent])

(* create_dir_all: a directory that is there, also behind a link, will do. *)
solum_create_dir_frames(route, o) ==
  LET p == o.value
  IN  Effect(route, o,
             /\ valor_text(o)
             /\ \/ Node(p).is = "dir"
                \/ \A q \in Above(p) : files[q].is \in {"absent", "dir"},
             IF Node(p).is = "dir" THEN files
             ELSE [q \in Path |-> IF q \in Above(p) THEN Directory ELSE files[q]])

(* remove_dir_all: of a link only the link. *)
solum_remove_dir_frames(route, o) ==
  LET p == o.value
  IN  Effect(route, o, valor_text(o) /\ files[p].is \in {"dir", "link"},
             [q \in Path |-> IF q \in Below(p) THEN Absent ELSE files[q]])

(* The source is opened, then the destination is truncated: a file copied  *)
(* onto itself is emptied.                                                 *)
solum_copy_frames(route, o) ==
  LET p == Arg(o, 1)  q == Arg(o, 2)
      bytes == IF End(p) = End(q) THEN <<>> ELSE Node(p).bytes
  IN  Effect(route, o, valor_text_pair(o) /\ Node(p).is = "file" /\ CanWrite(q),
             [files EXCEPT ![End(q)] = File(bytes, Node(p).mode)])

(* A file or a link replaces a file or a link, a directory an (empty)      *)
(* directory; what was there is gone.                                      *)
solum_rename_frames(route, o) ==
  LET p == Arg(o, 1)  q == Arg(o, 2)
      like == IF files[p].is = "dir" THEN {"absent", "dir"} ELSE {"absent", "file", "link"}
  IN  Effect(route, o,
             valor_text_pair(o) /\ files[p].is # "absent" /\ InDirectory(q) /\ files[q].is \in like,
             [files EXCEPT ![p] = Absent, ![q] = files[p]])

solum_create_symlink_frames(route, o) ==
  LET q == Arg(o, 2)
  IN  Effect(route, o, valor_text_pair(o) /\ files[q].is = "absent" /\ InDirectory(q),
             [files EXCEPT ![q] = Link(Arg(o, 1))])

solum_set_mode_frames(route, o) ==
  LET p == Arg(o, 1)
  IN  Effect(route, o,
             valor_text_numerus_pair(o) /\ Arg(o, 2)[1] \in Modes /\ Exists(p),
             [files EXCEPT ![End(p)].mode = Arg(o, 2)[1]])

(* Of a name that set_var takes; it panics on an empty one and on one with *)
(* a `=' or a NUL in it.                                                   *)
processus_scribe_frames(route, o) ==
  /\ Effect(route, o, valor_text_pair(o), files)
  /\ variable' = IF valor_text_pair(o) THEN Arg(o, 2) ELSE variable

(* solum_touch_path: a path that does not exist is created, and truncated  *)
(* if it has come to exist since it was looked for; found or created, it   *)
(* must still be there when it is opened for its times to be set.          *)
TouchTests(o) ==
  /\ touching = NoTouch
  /\ \/ /\ valor_text(o)
        /\ touching' = [path |-> o.value, next |-> IF Exists(o.value) THEN "open" ELSE "create"]
        /\ UNCHANGED <<files, asked, answer, requests>>
     \/ /\ ~valor_text(o) /\ Effect("solum:tange", o, FALSE, files)
        /\ UNCHANGED touching
  /\ UNCHANGED variable

TouchCreates ==
  LET p == touching.path
  IN  /\ touching.next = "create"
      /\ IF CanWrite(p)
         THEN /\ files' = Written(p, <<>>) /\ touching' = [touching EXCEPT !.next = "open"]
              /\ asked' = NoRequest /\ answer' = <<>> /\ UNCHANGED requests
         ELSE touching' = NoTouch /\ Effect("solum:tange", Textus(p), FALSE, files)
      /\ UNCHANGED variable

TouchOpens ==
  LET p == touching.path
  IN  /\ touching.next = "open" /\ touching' = NoTouch
      /\ Effect("solum:tange", Textus(p), Exists(p), files)
      /\ UNCHANGED variable

(* What is asked for: well-formed openers, and one that is not. *)
PathOpeners == {Textus(p) : p \in Path} \cup {Nihil}
TextOpeners == {Lista(<<Textus(p), Textus(t)>>) : p \in Path, t \in Texts} \cup {Nihil}
ByteOpeners == {Lista(<<Textus(p), Octeti(b)>>) : p \in Path, b \in Blobs} \cup {Nihil}
PairOpeners(from, to) == {Lista(<<Textus(p), Textus(q)>>) : p \in from, q \in to}
ModeOpeners == {Lista(<<Textus(p), Numerus(m)>>) : p \in Path, m \in FileModes}

(* builtin_route_frames, for the routes that write. *)
builtin_route_frames ==
  \/ \E o \in TextOpeners, route \in {"solum:scribe", "solum:appone"} :
       solum_write_text_frames(route, o) /\ UNCHANGED variable
  \/ \E o \in ByteOpeners : solum_write_bytes_frames("solum:funde", o) /\ UNCHANGED variable
  \/ \E o \in PathOpeners : solum_delete_frames("solum:dele", o) /\ UNCHANGED variable
  \/ \E o \in PathOpeners : solum_create_dir_frames("solum:crea", o) /\ UNCHANGED variable
  \/ \E o \in PathOpeners : solum_remove_dir_frames("solum:amputa", o) /\ UNCHANGED variable
  \/ \E o \in PairOpeners(Path, Path) :
       solum_copy_frames("solum:exscribe", o) /\ UNCHANGED variable
  \/ \E o \in PairOpeners(Leaves, Leaves) :
       solum_rename_frames("solum:renomina", o) /\ UNCHANGED variable
  \/ \E o \in PairOpeners(Path, Leaves) :
       solum_create_symlink_frames("solum:vincula", o) /\ UNCHANGED variable
  \/ \E o \in ModeOpeners : solum_set_mode_frames("solum:modum", o) /\ UNCHANGED variable
  \/ \E t \in Texts :
       processus_scribe_frames("processus:scribe", Lista(<<Textus(t), Textus(t)>>))

RouteNext ==
  \/ requests < MaxRequests /\ builtin_route_frames /\ UNCHANGED touching
  \/ requests < MaxRequests /\ \E o \in PathOpeners : TouchTests(o)
  \/ TouchCreates
  \/ TouchOpens

RouteSpec == RouteInit /\ [][RouteNext]_routeVars

-----------------------------------------------------------------------------
(* What a caller makes of an answer, with the materializer of its type. *)
Got(type, frames) ==
  Result(try_sermo_materialize_auto(type), Seqs!Front(frames), Seqs!Last(frames).status)

Truth(route, p) == solum_path_bool_frames(route, Textus(p), "bool")[1].data.value = <<1>>
Contents(p) == Got("Vec<u8>", solum_hauri_frames(Textus(p)))
IsFile(p) == Truth("solum:regularene", p)

(* The lines with a break after each, a newline or a carriage return and a *)
(* newline, are the text; the last need have none.                         *)
Breaks == {<<NL>>, <<CR, NL>>}

AreLinesOf(lines, text) ==
  /\ \A i \in DOMAIN lines : \A j \in DOMAIN lines[i] : lines[i][j] # NL
  /\ \E breaks \in [DOMAIN lines -> Breaks \cup {<<>>}] :
       /\ Seqs!FlattenSeq([i \in DOMAIN lines |-> lines[i] \o breaks[i]]) = text
       /\ \A i \in DOMAIN lines :
            /\ breaks[i] = <<NL>> => ~EndsInCR(lines[i])
            /\ breaks[i] = <<>> => i = Len(lines) /\ lines[i] # <<>>

(* Any bytes are read as bytes; as a text and as its lines they are read   *)
(* if they are UTF-8.                                                      *)
FileReads(p) ==
  LET bytes == Contents(p).value
      text  == Got("String", solum_lege_frames(Textus(p), "String"))
      lines == Got("Vec<String>", solum_carpe_frames(Textus(p)))
  IN  /\ Contents(p).result = (IF IsFile(p) THEN "ok" ELSE "Error")
      /\ Got("Vec<u8>", solum_lege_frames(Textus(p), "Vec<u8>")) = Contents(p)
      /\ Got("Vec<String>", solum_lege_frames(Textus(p), "Vec<String>")) = lines
      /\ IsFile(p) => Got("i64", solum_mensura_frames(Textus(p), "i64")).value = <<Len(bytes)>>
      /\ IF IsFile(p) /\ IsUtf8(bytes)
         THEN text = Contents(p) /\ lines.result = "ok" /\ AreLinesOf(lines.value, bytes)
         ELSE text.result = "Error" /\ lines.result = "Error"

(* What solum:inveni finds is what solum:partem reads there. *)
WindowReads(p) ==
  IsFile(p) => \A start, length \in 0..MaxBytes :
    LET Part(s, n) == Got("Vec<u8>", solum_partem_frames(
                          Lista(<<Textus(p), Numerus(s), Numerus(n)>>), "Vec<u8>")).value
        k == Got("i64", solum_inveni_frames(
               Lista(<<Textus(p), Textus(Pattern), Numerus(start), Numerus(length)>>), "i64")).value[1]
        starts == {s \in start..(start + length - Len(Pattern)) : Part(s, Len(Pattern)) = Pattern}
    IN  /\ Part(0, start) \o Part(start, MaxBytes) = Contents(p).value
        /\ IF k = -1 THEN starts = {} ELSE k \in starts /\ \A s \in starts : k <= s

(* A directory lists what exists in it, links that lead nowhere included,  *)
(* and a resolved path is no link and reads the same.                      *)
TreeReads(p) ==
  LET listed == Got("Vec<String>", solum_list_dir_frames(Textus(p)))
      resolved == solum_canonicalize_frames(Textus(p))[1].data.value
  IN  /\ (listed.result = "ok") = Truth("solum:directoriumne", p)
      /\ Truth("solum:directoriumne", p) =>
           {p \o listed.value[i] : i \in DOMAIN listed.value} \cap Path
             \subseteq {q \in Path : Truth("solum:exstat", q) \/ Truth("solum:vinculumne", q)}
      /\ Truth("solum:exstat", p) =>
           ~Truth("solum:vinculumne", resolved) /\ Contents(resolved) = Contents(p)
      /\ \A q \in Children(p) :
           (Truth("solum:exstat", q) \/ Truth("solum:vinculumne", q))
           => /\ Got("String", solum_parent_frames(Textus(q))).value = p
              /\ Got("String", solum_file_name_frames(Textus(q))).value
                   \in {listed.value[i] : i \in DOMAIN listed.value}
              /\ Got("String", solum_join_frames(Lista(<<Textus(p), Textus(<<Seqs!Last(q)>>)>>))).value = q

(* What the last request that was answered Done has brought about. *)
EffectShows ==
  LET o == asked.opener
      Gone(p) == ~Truth("solum:exstat", p) /\ ~Truth("solum:vinculumne", p)
  IN  answer = done_frames =>
        CASE asked.route \in {"solum:scribe", "solum:funde"} -> Contents(Arg(o, 1)).value = Arg(o, 2)
          [] asked.route = "solum:appone"   -> Seqs!IsSuffix(Arg(o, 2), Contents(Arg(o, 1)).value)
          [] asked.route \in {"solum:dele", "solum:amputa"} -> Gone(o.value)
          [] asked.route = "solum:crea"     -> Truth("solum:directoriumne", o.value)
          [] asked.route = "solum:exscribe" -> Contents(Arg(o, 1)) = Contents(Arg(o, 2))
          [] asked.route = "solum:renomina" -> Arg(o, 1) # Arg(o, 2) => Gone(Arg(o, 1))
          [] asked.route = "solum:vincula"  ->
               Got("String", solum_follow_symlink_frames(Textus(Arg(o, 2)))).value = Arg(o, 1)
          [] asked.route = "solum:tange"    -> Truth("solum:exstat", o.value)
          [] asked.route = "solum:modum"    ->
               Got("i64", solum_get_mode_frames(Textus(Arg(o, 1)))).value[1] % 4096 = Arg(o, 2)[1]
          [] asked.route = "processus:scribe" ->
               Got("String", processus_lege_frames(Textus(Arg(o, 1)))).value = Arg(o, 2)

(* Every number between the bounds is drawn, for some random number, and   *)
(* no other, at the ends of the type too.                                  *)
DrawsInRange ==
  \A a, b \in (-MaxNumerus - 1)..MaxNumerus :
    {Got("i64", aleator_sortire_frames(Lista(<<Numerus(a), Numerus(b)>>), r)).value[1] :
       r \in 0..(2 * MaxNumerus + 1)} = Min({a, b})..Max({a, b})

(* The routes agree with each other, as their callers see them through the *)
(* materializers: whatever requests came before and whatever links they    *)
(* made, a file read whole, as bytes, in two parts or by search is the     *)
(* same bytes; as a text and as lines it is that text, or an error if it   *)
(* is none; directories list what exists, an answer of Done shows in the   *)
(* reads that follow, and random numbers fill their range.                 *)
RoutesAgree ==
  /\ \A p \in Path : FileReads(p) /\ WindowReads(p) /\ TreeReads(p)
  /\ EffectShows
  /\ requests = 0 => DrawsInRange
=============================================================================
