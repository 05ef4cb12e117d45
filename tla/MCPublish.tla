----------------------------- MODULE MCPublish -----------------------------
(***************************************************************************)
(* The crates and packages of the repository, with the dependencies that   *)
(* crates/*/Cargo.toml declares, and two versions.                         *)
(***************************************************************************)
EXTENDS Publish

MCPublishOrder == <<"types", "secrets", "git", "report", "supabase", "registry",
                    "core", "cli">>
MCCrateDeps == [c \in Elements(MCPublishOrder) |->
                  CASE c = "types" -> {}
                    [] c = "core"  -> {"types", "secrets", "git", "report",
                                       "supabase", "registry"}
                    [] c = "cli"   -> {"core"}
                    [] OTHER       -> {"types"}]
MCPlatformOrder == <<"darwin-arm64", "darwin-x64", "linux-arm64-musl",
                     "linux-x64-musl", "win32-x64">>
=============================================================================
