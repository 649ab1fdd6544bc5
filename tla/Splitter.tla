------------------------------- MODULE Splitter -------------------------------
(***************************************************************************)
(* vstorage/splitter.py: a file becomes three pieces, by its extension.    *)
(*                                                                         *)
(* Of the bytes of a piece only this matters: whether there are any, and   *)
(* whether they are the whole original ("raw").  A piece of split_file()   *)
(* that mirrors the file is a FromFile marker, not bytes.                  *)
(***************************************************************************)
EXTENDS Naturals

\* The sets of extensions: .pdf, ZIP_CONTAINER_EXTS, ALREADY_COMPRESSED_EXTS,
\* everything else, and a name without an extension.
Kinds == {"pdf", "office", "compressed", "text", "none"}

Pieces == {"content", "structure", "metadata"}

Bytes(of)      == [form |-> "bytes", of |-> of]
FromFile       == [form |-> "file", of |-> "raw"]
Empty          == Bytes("empty")
Extracts(kind) == kind \in {"pdf", "office"}

\* ext.encode(): nothing for a name without an extension.
Tag(kind) == IF kind = "none" THEN Empty ELSE Bytes("tag")

\* The text of a PDF, the main part of an Office file; nothing when the parser raises.
Extracted(parses) == IF parses THEN Bytes("text") ELSE Empty

\* The file is opened a second time for it, after the pass that hashed it.
ExtractedFromPath(parses) == Extracted(parses)

\* Name, extension, size and hash: never empty.
Metadata == Bytes("meta")

SplitResult(content, structure, from) ==
    [content |-> content, structure |-> structure, metadata |-> Metadata,
     reconstruct_from |-> from]

\* split_file(path): the piece that mirrors the file is streamed later.
split_file(kind, parses) ==
    CASE Extracts(kind)      -> SplitResult(ExtractedFromPath(parses), FromFile, "structure")
      [] kind = "compressed" -> SplitResult(Empty, FromFile, "structure")
      [] OTHER               -> SplitResult(FromFile, Tag(kind), "content")

\* Mutant of split_bytes: every file is put together from its content.
split_bytes_content(raw, kind, parses) ==
    CASE Extracts(kind)      -> SplitResult(Extracted(parses), raw, "content")
      [] kind = "compressed" -> SplitResult(Empty, raw, "content")
      [] OTHER               -> SplitResult(raw, Tag(kind), "content")

\* split_bytes(raw, name_hint): everything is in memory already.
split_bytes(raw, kind, parses) ==
    CASE Extracts(kind)      -> SplitResult(Extracted(parses), raw, "structure")
      [] kind = "compressed" -> SplitResult(Empty, raw, "structure")
      [] OTHER               -> SplitResult(raw, Tag(kind), "content")

\* piece_size(): the size of the file for a marker, of the bytes otherwise.
piece_size(piece, sizes) == sizes[piece.of]

\* _compress() of both storages: lzma raises TypeError for anything but bytes.
Compressible(piece) == piece.form = "bytes"
=============================================================================
