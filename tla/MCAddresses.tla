----------------------------- MODULE MCAddresses ------------------------------
\* A few words of each kind, and systems in their neighbourhood.
EXTENDS Addresses

Of(seps, parts) == [except |-> FALSE, seps |-> seps, parts |-> parts, domain |-> ""]

WordsUsed ==
  { [Of({":", "/"}, << << "2" >>, << "3" >>, << "5" >> >>) EXCEPT !.domain = "fidonet"],
    Of({":", "/", "."}, << << "1" >>, << "3" >>, << "7" >>, << "1" >> >>),
    Of({}, << << "7" >> >>),
    Of({"."}, << << >>, << "1" >> >>),
    Of({":", "/"}, << << >>, << "3" >>, << "5" >> >>),
    Of({"/"}, << << "4" >>, << "5", "*" >> >>),
    Of({":"}, << << "2" >>, << >> >>),
    Of({":"}, << << "2" >>, << "3", "#" >> >>),
    Of({}, << << "*" >> >>) }

SystemsUsed ==
  [zone : {1, 2}, net : {3, 4, 34}, node : {0, 5, 7, 57}, point : {0, 1}, domain : {""}]
=============================================================================
