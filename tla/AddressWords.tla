----------------------------- MODULE AddressWords -----------------------------
(***************************************************************************)
(* The addresses of a configuration, zone:net/node.point, as basic.cpp     *)
(* reads them: GetFullQualifiedAddress for systems, SplitWildcardedAddress *)
(* for the entries of lists, and CompareAddress, which matches the two.    *)
(*                                                                         *)
(* A word is given by its separators and the parts between them; its       *)
(* separators come in the order of an address, each at most once.          *)
(***************************************************************************)
EXTENDS Naturals, Sequences, SequencesExt, FiniteSets, FiniteSetsExt

CONSTANT Domain  \* names of networks; "" for none

ASSUME DomainAssumption == "" \in Domain

Digits == << "0", "1", "2", "3", "4", "5", "6", "7", "8", "9" >>

Wild == {"*", "?", "#"}

Char == Range(Digits) \cup Wild

Part == Seq(Char)

\* except: it begins with "!"
Word == [except : BOOLEAN, seps : SUBSET {":", "/", "."}, parts : Seq(Part), domain : Domain]

\* S_FQAddress: its numbers have 16 bits.
Number == 0 .. 65535

Address == [zone : Number, net : Number, node : Number, point : Number, domain : Domain]

\* What stands for no main address, here and in ReadRouteFile.
Nobody == [zone |-> 65535, net |-> 65535, node |-> 65535, point |-> 65535, domain |-> ""]

SamePlace(a, b) == a.zone = b.zone /\ a.net = b.net /\ a.node = b.node /\ a.point = b.point

NoMain(main) == SamePlace(main, Nobody)

\* S_WAddress: four parts.  NoPattern stands for the null pointer.
Pattern == [zone : Part, net : Part, node : Part, point : Part]

NoPattern == [zone |-> << >>, net |-> << >>, node |-> << >>, point |-> << >>]

Star == << "*" >>
Zero == << "0" >>

HasWildcards(part) == \E i \in DOMAIN part : part[i] \in Wild

EndsWild(part) == part # << >> /\ Last(part) \in Wild

StartsWith(char, part) == part # << >> /\ Head(part) = char

\* printf's %u
Decimal[n \in Number] ==
  IF n < 10 THEN << Digits[n + 1] >> ELSE Append(Decimal[n \div 10], Digits[(n % 10) + 1])

DigitValue(char) == (CHOOSE i \in DOMAIN Digits : Digits[i] = char) - 1

\* atoi, into a word
Value(part) ==
  LET upTo[i \in 0 .. Len(part)] ==
        IF i = 0 THEN 0 ELSE (10 * upTo[i - 1] + DigitValue(part[i])) % 65536
  IN upTo[Len(part)]

-----------------------------------------------------------------------------
(***************************************************************************)
(* The parts of a word by their places.  Without "/" the part after ":" is *)
(* a net to SplitWildcardedAddress, a node to GetFullQualifiedAddress.     *)
(***************************************************************************)
Place(w, sep) == Cardinality(w.seps \cap IF sep = ":" THEN {":"} ELSE {":", "/"})

\* The part before the separator, if the word has it.
Before(w, sep) == IF sep \in w.seps THEN w.parts[Place(w, sep)] ELSE << >>

NodeOf(w) == w.parts[Place(w, "/") + 1]

PointOf(w) == IF "." \in w.seps THEN Last(w.parts) ELSE << >>

-----------------------------------------------------------------------------
(* GetFullQualifiedAddress *)

\* Without a domain what is no digit is cut off at the end of the word.
Stripped(w) ==
  LET last == Len(w.parts)
      digits == {i \in DOMAIN w.parts[last] : w.parts[last][i] \notin Wild}
      end == IF digits = {} THEN 0 ELSE Max(digits)
  IN IF w.domain # "" THEN w ELSE [w EXCEPT !.parts[last] = SubSeq(@, 1, end)]

\* "Discard any address with wildcards", and no default for what is missing.
Readable(w, main) ==
  /\ ~w.except /\ \A i \in DOMAIN w.parts : ~HasWildcards(Stripped(w).parts[i])
  /\ NoMain(main) => {":", "/"} \subseteq w.seps

\* A point without a node: sprintf prints into a literal.
QualifyUndefined(w, main) ==
  Readable(w, main) /\ "." \in w.seps /\ NodeOf(Stripped(w)) = << >>

Qualifies(w, main) ==
  /\ Readable(w, main) /\ NodeOf(Stripped(w)) # << >>
  /\ "/" \in w.seps => Before(w, "/") # << >>

\* The storage after a success.
Qualified(w, main) ==
  LET s == Stripped(w)
  IN [zone |-> IF ":" \in w.seps THEN Value(Before(s, ":")) ELSE main.zone,
      net |-> IF "/" \in w.seps THEN Value(Before(s, "/")) ELSE main.net,
      node |-> Value(NodeOf(s)), point |-> Value(PointOf(s)),
      domain |-> IF w.domain = "" /\ ~NoMain(main) THEN main.domain ELSE w.domain]

-----------------------------------------------------------------------------
(* SplitWildcardedAddress *)

\* The first switch: what the word says.  junk: the byte before an empty net
\* is a wildcard.
Given(w, junk) ==
  LET last == IF w.seps = {":"} THEN w.parts[2] ELSE NodeOf(w)
      wild == IF w.seps = {} THEN HasWildcards(last)
              ELSE EndsWild(last) \/ (last = << >> /\ junk)
      point == IF "." \in w.seps THEN PointOf(w) ELSE IF wild THEN Star ELSE << >>
  IN CASE w.seps = {} /\ StartsWith("*", last) ->
            [zone |-> Star, net |-> Star, node |-> Star, point |-> Star]
       [] w.seps = {":"} ->
            [zone |-> w.parts[1], net |-> last,
             node |-> IF wild THEN Star ELSE << >>, point |-> point]
       [] OTHER ->
            [zone |-> Before(w, ":"), net |-> Before(w, "/"), node |-> last, point |-> point]

\* Then a node that starts with "*" counts as none.
Said(w, junk) ==
  LET g == Given(w, junk) IN [g EXCEPT !.node = IF StartsWith("*", @) THEN << >> ELSE @]

\* The parts of the previous address a word without them needs.
Needed(w) ==
  CASE w.seps = {} -> IF StartsWith("*", NodeOf(w)) THEN {} ELSE {"zone", "net"}
    [] w.seps = {"."} -> {"zone", "net", "node"}
    [] w.seps \in {{"/"}, {"/", "."}} -> {"zone"}
    [] OTHER -> {}

Resolves(w, main) ==
  /\ Needed(w) # {} => main # NoPattern
  /\ \A part \in Needed(w) : ~HasWildcards(main[part])

\* ":341/70" is completed from the null pointer.
SplitUndefined(w, main, junk) ==
  LET g == Said(w, junk)
  IN ":" \in w.seps /\ w.seps # {":", "."} /\ main = NoPattern
       /\ g.zone = << >> /\ g.net # << >>

Splits(w, main, junk) ==
  LET g == Said(w, junk)
  IN /\ w.seps # {":", "."} /\ Resolves(w, main)
     /\ (g.zone # << >> /\ g.net = << >>) => g.node = << >> /\ g.point = << >>
     /\ (main = NoPattern /\ g.zone = << >>) => g = NoPattern

\* Mutant: the net is not filled in when there is a zone.
SplitUnfilled(w, main, junk) ==
  LET g == Said(w, junk)
  IN [zone |-> IF g.zone # << >> THEN g.zone ELSE main.zone,
      net |-> IF g.zone # << >> \/ g.net # << >> THEN g.net ELSE main.net,
      node |-> IF g.node # << >> THEN g.node ELSE Star,
      point |-> IF g.point # << >> THEN g.point ELSE Zero]

\* The second switch: the parts filled in.
Split(w, main, junk) ==
  LET g == Said(w, junk)
      all == g = NoPattern
      pointOnly == g.zone = << >> /\ g.net = << >> /\ g.point # << >>
  IN [zone |-> IF g.zone # << >> THEN g.zone ELSE IF all THEN Star ELSE main.zone,
      net |-> IF g.net # << >> THEN g.net
              ELSE IF all \/ g.zone # << >> THEN Star ELSE main.net,
      node |-> IF g.node # << >> THEN g.node ELSE IF pointOnly THEN main.node ELSE Star,
      point |-> IF g.point # << >> THEN g.point
                ELSE IF g.node # << >> THEN Zero ELSE Star]

-----------------------------------------------------------------------------
(* CompareBit and CompareAddress *)

Fits(digit, char) == char \in {"?", "#", digit}

\* Mutant: a "*" must stand for something.
CompareBitOne(number, part) ==
  LET digits == Decimal[number]
  IN \/ \E k \in DOMAIN part :
          part[k] = "*" /\ k <= Len(digits) /\ \A i \in 1 .. k - 1 : Fits(digits[i], part[i])
     \/ Len(digits) = Len(part) /\ \A i \in DOMAIN part : Fits(digits[i], part[i])

\* The two pointers advance together, up to the first "*" or to both ends.
CompareBit(number, part) ==
  LET digits == Decimal[number]
  IN \/ \E k \in DOMAIN part :
          part[k] = "*" /\ k <= Len(digits) + 1 /\ \A i \in 1 .. k - 1 : Fits(digits[i], part[i])
     \/ Len(digits) = Len(part) /\ \A i \in DOMAIN part : Fits(digits[i], part[i])

CompareAddress(a, p) ==
  /\ CompareBit(a.zone, p.zone) /\ CompareBit(a.net, p.net)
  /\ CompareBit(a.node, p.node) /\ CompareBit(a.point, p.point)
=============================================================================
