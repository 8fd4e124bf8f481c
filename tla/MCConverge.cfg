SPECIFICATION Spec

CONSTANTS
    StepIDs <- MCStepIDs
    ModuleNames <- MCModuleNames
    Assets <- MCAssets
    PatchOf <- MCPatchOf
    Patches = {"h1", "h2"}
    Wanted = {"paru", "ufw", "zsh"}
    Unwanted = {"cachyos-zsh-config", "linux-cachyos-lts"}
    DependsOn <- MCDependsOn
    ManagedService <- MCManagedService
    PAMFiles = {"login", "sudo"}
    ConfigFiles = {"npmrc"}
    ShellFiles = {"zshrc"}
    PacmanApps = {"docker", "tailscale"}
    AURApps = {"docker-desktop", "nordvpn-bin"}
    WebApps = {"spotify"}
    StockContent <- MCStockContent
    DesktopPackages = {"niri"}
    Worlds <- MCWorlds
    Normal <- MCNormal
    MaxFaults = 1
    MaxDrifts = 1

INVARIANTS
    Converges
    CheckFailsClosed
    PlanIsSound

PROPERTIES
    OnlyAuthorized
    CleanRunsSucceed
