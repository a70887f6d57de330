------------------------------ MODULE MCMiniShell ------------------------------
(***************************************************************************)
(* Words and lines for TLC: commands of every kind, alone, in the          *)
(* background, redirected and both, and what cannot be executed.           *)
(***************************************************************************)
EXTENDS MiniShell

MCWord == {"ls", "cd", "exit", "work", "prog", "toolongforaname", "file", "&", ">"}

MCLine ==
  { << >>, << "toolongforaname" >>, << "&" >>, << "exit" >>,
    << "cd", ">", "file", "&" >>, << "cd", "work" >>,
    << "ls" >>, << "ls", ">", "file", "&" >>, << "prog", "&" >> }

MCNamed == [word \in {"work"} |-> "work"]
MCPATH == << "games", "bin" >>

\* ls is in the PATH, and in the directory where only "." leads as well.
MCEntries == [dir \in {"home", "work", "games", "bin"} |->
                CASE dir = "bin"  -> {"ls"}
                  [] dir = "work" -> {"ls", "prog"}
                  [] OTHER        -> {}]
=============================================================================
