---------------------------- MODULE MCClassListing ----------------------------
(***************************************************************************)
(* Two classes of two and three Sierra statements and a Cairo 0 class of   *)
(* which a word of data hides an instruction.  Of the builds, one has      *)
(* another program; two are of one program with different locations; in    *)
(* one, two files of Scarb's caches get one name; one places a statement   *)
(* in a file that can not be named.                                        *)
(***************************************************************************)
EXTENDS ClassListing, TLC

CONSTANTS repo, cache1, cache2, elsewhere, none, lib, a, z, s1, s2, s3

path(under, package, file) == [dir |-> under, pkg |-> package, tail |-> file]
inRepo == path(repo, none, a)
inLib == path(cache1, lib, z)
inLibToo == path(cache2, lib, z)
hidden == path(elsewhere, none, a)

mcPaths == {inRepo, inLib, inLibToo}
at(p, line, generated) == [path |-> p, line |-> line, generated |-> generated]

programA == <<s1, s2>>
programB == <<s1, s2, s3>>
chain(hash, asked, program) ==
  [hash |-> hash, asked |-> asked, program |-> program, points |-> 1, version |-> 1, abi |-> 1]
mcAnswers == {chain(1, 1, programA), chain(2, 2, programB), chain(1, 2, programA)}

plain(program, functions, located, locations) ==
  [program |-> program, points |-> 1, version |-> 1, abi |-> 1, debug |-> TRUE,
   functions |-> functions, located |-> located, locations |-> locations]
mcBuilds ==
  {plain(programA, {1}, TRUE, << <<at(inLib, 7, TRUE), at(inRepo, 3, FALSE), at(inLib, 9, FALSE)>>,
                                 <<at(inLib, 7, TRUE), at(inRepo, 4, TRUE)>> >>),
   plain(programB, {1, 3}, TRUE, << <<at(inLib, 7, FALSE)>>, <<>>, <<at(inLibToo, 8, FALSE)>> >>),
   plain(programB, {1}, FALSE, <<>>),
   plain(programB, {1}, TRUE, << <<at(hidden, 1, FALSE)>> >>),
   [plain(programA, {1}, TRUE, << <<at(inRepo, 5, FALSE)>> >>) EXCEPT !.abi = 2]}

word(size, rel) == [size |-> size, rel |-> rel]
range(from, to) == [start |-> from, end |-> to]
mcLoaded ==
  {[hash |-> 1, program |-> programA, cairo0 |-> FALSE, statements |-> <<range(0, 2), range(2, 4)>>,
    functions |-> {1}, words |-> <<word(2, 2), word(0, 0), word(1, 0), word(1, 0), word(0, 0)>>,
    points |-> {0}, names |-> {}, starts |-> {0, 2, 3}],
   [hash |-> 2, program |-> programB, cairo0 |-> FALSE,
    statements |-> <<range(0, 1), range(1, 1), range(1, 3)>>,
    functions |-> {1, 3}, words |-> <<word(1, 0), word(2, 0), word(1, 0)>>,
    points |-> {0, 1}, names |-> {}, starts |-> {0, 1}],
   [hash |-> 3, program |-> <<>>, cairo0 |-> TRUE, statements |-> <<>>,
    functions |-> {}, words |-> <<word(1, 0), word(2, 0), word(1, 0), word(1, 0)>>,
    points |-> {0}, names |-> {0, 2}, starts |-> {0, 2, 3}]}
===============================================================================
