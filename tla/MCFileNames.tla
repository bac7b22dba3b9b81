----------------------------- MODULE MCFileNames -----------------------------
(* Directories and commands for FileNames.                                   *)
EXTENDS FileNames

\* Names are written as strings here.
Name(string) == [k \in 1 .. Len(string) |-> SubSeq(string, k, k)]

Plain == [id |-> Nobody, layers |-> <<>>]
\* A file that another gzip has compressed, with this name in its header.
Foreign(saved) ==
    [id |-> Nobody, layers |-> <<[saved |-> Name(saved), name |-> <<>>, as |-> <<>>,
                                  suffix |-> <<>>, cut |-> FALSE]>>]
Directory(files) ==
    [name \in {Name(n) : n \in DOMAIN files} |->
        [files[CHOOSE n \in DOMAIN files : Name(n) = name] EXCEPT !.id = name]]

Gzip(arg, suffix, force) ==
    [decompress |-> FALSE, force |-> force, keep |-> FALSE, restore |-> FALSE,
     suffix |-> Name(suffix), arg |-> Name(arg)]
Gunzip(arg, suffix, force) == [Gzip(arg, suffix, force) EXCEPT !.decompress = TRUE]
Keep(command) == [command EXCEPT !.keep = TRUE]
Restore(command) == [command EXCEPT !.restore = TRUE]

\* Names that are short, just short enough, too long, of many parts or of none, that
\* differ behind where they are cut, and that end as a suffix begins.
PlainNames == {"a", "a.g", "x.ta", "xy.tar", "wxyz.tar", "abcdefgh", "abcdefgi", "abc.defg",
               "a.b.c.d.e", "ab.c.d..", "a.gz"}
SuffixOptions == {".gz", "z", ".Z", ".tgz", "x.gz", "GZ"}

\* All is compressed, and decompressed again.
ThereAndBack ==
    {[dir |-> Directory([n \in names |-> Plain]),
      todo |-> <<Gzip(".", s, force), Gunzip(".", s, FALSE)>>] :
        names \in {{m, n} : m, n \in PlainNames}, s \in SuffixOptions, force \in BOOLEAN}
    \cup {[dir |-> Directory([n \in names |-> Plain]),
          todo |-> <<Gzip(".", ".gz", FALSE), Restore(Gunzip(".", ".gz", FALSE))>>] :
        names \in {{m, n} : m, n \in PlainNames}}
    \* Twice: the second time names are cut that have a suffix.
    \cup {[dir |-> Directory([n \in {"abcdef", m} |-> Plain]),
          todo |-> <<Gzip(".", s, FALSE), Gzip(".", s, TRUE),
                     Gunzip(".", s, FALSE), Gunzip(".", s, FALSE)>>] :
        m \in PlainNames, s \in {".gz", "GZ"}}

\* Files that are compressed once, twice or not although they are called so, with
\* names in their headers that are taken, their own, or too long.
Mixed ==
    {Directory([n \in {"a", "a.gz", "a.gz.gz", "b"} |->
        CASE n = "a.gz"    -> Foreign("a.gz")
          [] n = "a.gz.gz" -> [Foreign("b") EXCEPT !.layers = @ \o @]
          [] OTHER         -> Plain]),
     Directory([n \in {"a", "a-z", "b.tgz", "b.tar.gz"} |->
        CASE n = "b.tgz"    -> Foreign("abcdefghij.gz")
          [] n = "b.tar.gz" -> Foreign("")
          [] n = "a-z"      -> Foreign("a")
          [] OTHER          -> Plain])}
MixedCommands ==
    {Gzip(n, ".gz", force) : n \in {"a", "a.gz", "."}, force \in BOOLEAN}
    \cup {Gunzip(n, ".gz", force) : n \in {"a", "a.gz.gz", "b", "."}, force \in BOOLEAN}
    \cup {Restore(Gunzip(n, ".gz", force)) : n \in {"a.gz", "b.tgz", "b.tar.gz"}, force \in BOOLEAN}
    \cup {Keep(Gzip("a", "z", FALSE)), Keep(Gunzip("a.gz", ".gz", TRUE)), Gunzip("a", ".Z", FALSE),
          Gunzip("abcdefghi", ".gz", FALSE)}

MCScripts ==
    ThereAndBack
    \cup {[dir |-> files, todo |-> <<c, d>>] :
            files \in Mixed, c \in MixedCommands, d \in {e \in MixedCommands : e.arg # Here}}
    \cup {[dir |-> files, todo |-> <<c>>] : files \in Mixed, c \in MixedCommands}
MCCharacters ==
    {".", "-", "_", "a", "b", "c", "d", "e", "f", "g", "h", "i", "j", "l", "r", "t", "w", "x", "y",
     "z", "A", "G", "T", "Z"}
MCSavedName == Name("c_file")
=============================================================================
