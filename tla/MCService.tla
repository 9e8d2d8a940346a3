----------------------------- MODULE MCService -----------------------------
EXTENDS Service, TLC
CONSTANTS a1, a2, r1
MCInfrastructure == {"database", "cache", "rabbitmq", "prometheus"}
MCLayer == << {"security_util"},
              {"user_repository", "lead_repository"},
              {"auth_service", "lead_service"},
              {"lead_mediator"},
              {"lead_controller"} >>
MCParams ==
  [m \in UNION {MCLayer[i] : i \in 1 .. 5} |->
     CASE m = "security_util" -> {}
       [] m \in MCLayer[2] -> {"database", "cache"}
       [] m = "auth_service" -> {"user_repository", "prometheus", "security_util", "cache"}
       [] m = "lead_service" -> {"lead_repository", "prometheus"}
       [] m = "lead_mediator" -> {"lead_service"}
       [] OTHER -> {"lead_mediator"}]
MCWired == UNION {MCLayer[i] : i \in 2 .. 5}
\* What imports a broken module is broken too.
MCMayBreak == {{}, {"lead_service"}, {"security_util", "auth_service"}}
\* A service that would have no class of its name; what takes it goes without.
MCMayLack == {{"lead_service"}}
\* Two deliveries of the AI worker, of leads that are gone; a request that looks
\* a row up or creates one.
MCScript == (a1 :> {<<"open", "retrieve">> \o UpdateAbsent})
         @@ (a2 :> {<<"open", "retrieve">> \o UpdateAbsent})
         @@ (r1 :> {FindOne, Create})
MCQueueOf == (a1 :> "ai") @@ (a2 :> "ai")
=============================================================================
